-------------------------- MODULE PermutationProofs --------------------------
(***************************************************************************)
(* Proofs about the random numbers of module PermutationRandom, and about  *)
(* what is done with them: the pointer chain of module LatencyKernel and   *)
(* the random order of the sizes of module ProblemSizes.                   *)
(*                                                                         *)
(* The sequence r' = (a*r + b) % m runs through all residues but its       *)
(* fixpoint when m is prime and a a primitive root of m: FullPeriod.       *)
(* _random_init() finds such numbers: its table holds primes without a     *)
(* gap, isprime() decides, the factors of m - 1 are all found, and so      *)
(* isprimitiveroot() tells whether a is one.  _random() draws the residues *)
(* that are small enough, and each of them once in a turn.                 *)
(*                                                                         *)
(* Whether the search for m, a and the fixpoint ends is a question of      *)
(* number theory that is not answered here: SearchEnds is assumed of the   *)
(* calls that are made.                                                    *)
(***************************************************************************)
EXTENDS LatencyKernel, ProblemSizes, NumberFacts

\* The residues that the sequence of r runs through, the step from one to the next, and
\* the residues that are small enough to be returned.
Moving(r)     == (0 .. r.m - 1) \ {r.fix}
StepOf(r)     == [x \in Moving(r) |-> (x * r.a + r.b) % r.m]
TooLargeIn(r, x) == \/ x > r.max /\ r.fix < r.max
                    \/ x >= r.max /\ r.fix >= r.max
Wanted(r)     == {x \in Moving(r) : ~TooLargeIn(r, x)}
HiddenIn(r, x) == IF x < r.fix THEN x ELSE x - 1

Orbit(o, r) == o \in [Nat -> Moving(r)] /\ \A k \in Nat : o[k + 1] = StepOf(r)[o[k]]

\* What _random_init() is to find: a fixpoint, and a sequence that goes through all
\* other residues before it begins again.
IsGenerator(r) ==
  /\ r.max \in Nat \ {0} /\ r.m \in Nat /\ r.max < r.m /\ r.a \in Int /\ r.b \in Int
  /\ r.fix \in 1 .. r.m - 1 /\ (r.fix * r.a + r.b) % r.m = r.fix
  /\ StepOf(r) \in [Moving(r) -> Moving(r)]
  /\ \A o : Orbit(o, r) => Returns(o, r.m - 1)

\* How many residues the sequence runs through.
LEMMA MovingSize ==
  ASSUME NEW r, IsGenerator(r)
  PROVE  /\ IsFiniteSet(Moving(r)) /\ Cardinality(Moving(r)) = r.m - 1
         /\ Wanted(r) \in SUBSET Moving(r) /\ Moving(r) \in SUBSET Nat
         /\ r.m - 1 \in Nat
<1>0. PICK m \in Nat \ {0} : m = r.m /\ r.fix \in 0 .. m - 1
  BY DEF IsGenerator
<1> DEFINE S == 0 .. m - 1
<1>1. IsFiniteSet(S) /\ Cardinality(S) = m /\ r.fix \in S /\ Moving(r) = S \ {r.fix}
  <2>1. 0 \in Int /\ m - 1 \in Int /\ ~(0 > m - 1) /\ (m - 1) - 0 + 1 = m
    OBVIOUS
  <2>2. IsFiniteSet(S) /\ Cardinality(S) = m
    BY <2>1, FS_Interval
  <2> QED BY <1>0, <2>2 DEF Moving
<1>2. IsFiniteSet(Moving(r)) /\ Cardinality(Moving(r)) = r.m - 1
  <2> HIDE DEF S
  <2>1. IsFiniteSet(S \ {r.fix}) /\ Cardinality(S \ {r.fix}) = Cardinality(S) - 1
    BY <1>1, FS_RemoveElement
  <2> QED BY <1>0, <1>1, <2>1
<1>3. m - 1 \in Nat
  OBVIOUS
<1> QED BY <1>0, <1>2, <1>3 DEF Wanted, Moving

\* As many are small enough as there are numbers to return, and hiding the fixpoint
\* gives each number once.
LEMMA WantedNumbers ==
  ASSUME NEW r, IsGenerator(r)
  PROVE  /\ IsFiniteSet(Wanted(r)) /\ Cardinality(Wanted(r)) = r.max
         /\ Wanted(r) # {}
         /\ \A x \in Wanted(r) : HiddenIn(r, x) \in 0 .. r.max - 1
         /\ \A x, y \in Wanted(r) : HiddenIn(r, x) = HiddenIn(r, y) => x = y
<1>0. PICK max \in Nat \ {0}, m \in Nat, fix \in Nat :
        max = r.max /\ m = r.m /\ fix = r.fix /\ max < m /\ fix < m
  BY DEF IsGenerator
<1>1. CASE fix < max
  <2> DEFINE S == 0 .. max
  <2>1. Wanted(r) = S \ {fix}
    BY <1>0, <1>1 DEF Wanted, Moving, TooLargeIn
  <2>2. IsFiniteSet(S) /\ Cardinality(S) = max + 1 /\ fix \in S
    BY <1>1, FS_Interval
  <2>3. IsFiniteSet(Wanted(r)) /\ Cardinality(Wanted(r)) = max
    <3> HIDE DEF S
    <3>1. IsFiniteSet(S \ {fix}) /\ Cardinality(S \ {fix}) = Cardinality(S) - 1
      BY <2>2, FS_RemoveElement
    <3> QED BY <2>1, <2>2, <3>1
  <2>4. /\ \A x \in Wanted(r) : HiddenIn(r, x) \in 0 .. max - 1
        /\ \A x, y \in Wanted(r) : HiddenIn(r, x) = HiddenIn(r, y) => x = y
    BY <1>0, <1>1, <2>1 DEF HiddenIn
  <2> QED BY <1>0, <2>3, <2>4, FS_EmptySet
<1>2. CASE fix >= max
  <2>1. Wanted(r) = 0 .. max - 1
    BY <1>0, <1>2 DEF Wanted, Moving, TooLargeIn
  <2>2. IsFiniteSet(Wanted(r)) /\ Cardinality(Wanted(r)) = max
    BY <2>1, FS_Interval
  <2>4. /\ \A x \in Wanted(r) : HiddenIn(r, x) \in 0 .. max - 1
        /\ \A x, y \in Wanted(r) : HiddenIn(r, x) = HiddenIn(r, y) => x = y
    BY <1>0, <1>2, <2>1 DEF HiddenIn
  <2> QED BY <1>0, <2>2, <2>4, FS_EmptySet
<1> QED BY <1>1, <1>2

\* From equal members the sequence goes on in the same way.
LEMMA SameAhead ==
  ASSUME NEW r, NEW o, Orbit(o, r), NEW i \in Nat, NEW k \in Nat, o[i] = o[k], NEW d \in Nat
  PROVE  o[i + d] = o[k + d]
<1> DEFINE T == {e \in 0 .. d : o[i + e] = o[k + e]}
<1>1. 0 \in T
  OBVIOUS
<1>2. ASSUME NEW e \in 1 .. d, e - 1 \in T PROVE e \in T
  <2>1. i + (e - 1) \in Nat /\ k + (e - 1) \in Nat /\ (i + (e - 1)) + 1 = i + e /\ (k + (e - 1)) + 1 = k + e
    OBVIOUS
  <2>2. o[i + e] = StepOf(r)[o[i + (e - 1)]] /\ o[k + e] = StepOf(r)[o[k + (e - 1)]]
    BY <2>1 DEF Orbit
  <2> QED BY <1>2, <2>2
<1>3. d \in T
  <2> HIDE DEF T
  <2> QED BY <1>1, <1>2, Induction
<1> QED BY <1>3

\* q is the next position behind i with a member of A.
IsNext(o, A, i, q) == q \in Nat /\ i < q /\ o[q] \in A /\ \A jj \in i + 1 .. q - 1 : o[jj] \notin A
HasNext(o, A, i)   == \E q : IsNext(o, A, i, q)

\* From every residue a small enough one comes next.
LEMMA NextExists ==
  ASSUME NEW r, IsGenerator(r), NEW o, Orbit(o, r), NEW i \in Nat
  PROVE  HasNext(o, Wanted(r), i)
<1>1. PICK y \in Wanted(r) : TRUE
  BY WantedNumbers
<1>2. Comes(o, y, i + 1, i + (r.m - 1))
  <2>1. o \in [Nat -> Moving(r)] /\ Returns(o, r.m - 1) /\ r.m - 1 \in Nat /\ y \in Moving(r)
    BY <1>1, MovingSize DEF Orbit, IsGenerator
  <2> QED BY <2>1, MovingSize, Window
<1> DEFINE T == {k \in Nat : k > i /\ o[k] \in Wanted(r)}
<1>3. T \in SUBSET Nat /\ T # {}
  BY <1>1, <1>2 DEF Comes, IsGenerator
<1> HIDE DEF T
<1>4. PICK q \in T : \A k \in T : q <= k
  BY <1>3, LeastNumber
<1>5. IsNext(o, Wanted(r), i, q)
  BY <1>4 DEF IsNext, T
<1> QED BY <1>5 DEF HasNext

\* From where a value comes in the sequence does not matter.
LEMMA NextUnique ==
  ASSUME NEW r, NEW o, Orbit(o, r), NEW i \in Nat, NEW k \in Nat, o[i] = o[k], NEW A, NEW q, NEW s,
         IsNext(o, A, i, q), IsNext(o, A, k, s)
  PROVE  q - i = s - k /\ o[q] = o[s]
<1>0. q \in Nat /\ s \in Nat /\ i < q /\ k < s
  BY DEF IsNext
<1>1. \A d \in Nat : o[i + d] = o[k + d]
  BY SameAhead
<1>2. CASE q - i < s - k
  <2>1. q - i \in Nat /\ i + (q - i) = q /\ k + (q - i) \in k + 1 .. s - 1
    BY <1>0, <1>2
  <2>2. o[q] = o[k + (q - i)]
    BY <1>1, <2>1
  <2> QED BY <2>1, <2>2 DEF IsNext
<1>3. CASE s - k < q - i
  <2>1. s - k \in Nat /\ k + (s - k) = s /\ i + (s - k) \in i + 1 .. q - 1
    BY <1>0, <1>3
  <2>2. o[s] = o[i + (s - k)]
    BY <1>1, <2>1
  <2> QED BY <2>1, <2>2 DEF IsNext
<1>4. CASE q - i = s - k
  <2>1. q - i \in Nat /\ i + (q - i) = q /\ k + (q - i) = s
    BY <1>0, <1>4
  <2> QED BY <1>1, <1>4, <2>1
<1> QED BY <1>0, <1>2, <1>3, <1>4

\* NextValue, a function by recursion that comes to an end because the sequence does.
NextBody(r, f) ==
  [x \in 0 .. r.m - 1 |->
     LET y == (x * r.a + r.b) % r.m IN IF TooLargeIn(r, y) THEN f[y] ELSE y]

\* The recursion of NextValue has a solution.
LEMMA NextValueDefined ==
  ASSUME NEW r, IsGenerator(r), NEW o, Orbit(o, r)
  PROVE  \E f : f = NextBody(r, f)
<1> DEFINE W == Wanted(r)
           From(x) == CHOOSE i \in Nat : o[i] = x
           Q(x)    == CHOOSE q : IsNext(o, W, From(x), q)
           f == [x \in 0 .. r.m - 1 |-> IF x = r.fix THEN r.fix ELSE o[Q(x)]]
<1>0. /\ r.m \in Nat /\ r.fix \in 0 .. r.m - 1 /\ (r.fix * r.a + r.b) % r.m = r.fix
      /\ StepOf(r) \in [Moving(r) -> Moving(r)]
  BY DEF IsGenerator
<1>1. ASSUME NEW x \in Moving(r) PROVE From(x) \in Nat /\ o[From(x)] = x
  <2>1. o \in [Nat -> Moving(r)] /\ Returns(o, r.m - 1) /\ r.m - 1 \in Nat
    BY <1>0 DEF Orbit, IsGenerator
  <2>2. Comes(o, x, 0 + 1, 0 + (r.m - 1))
    BY <2>1, MovingSize, Window
  <2>3. \E i \in Nat : o[i] = x
    BY <1>0, <2>2 DEF Comes
  <2> QED BY <2>3
<1>2. ASSUME NEW x \in Moving(r) PROVE IsNext(o, W, From(x), Q(x))
  <2>1. HasNext(o, W, From(x))
    BY <1>1, NextExists
  <2> QED BY <2>1 DEF HasNext
<1>3. ASSUME NEW x \in 0 .. r.m - 1 PROVE NextBody(r, f)[x] = f[x]
  <2> DEFINE y == (x * r.a + r.b) % r.m
  <2>1. CASE x = r.fix
    BY <1>0, <2>1 DEF NextBody
  <2>2. CASE x # r.fix
    <3>1. x \in Moving(r) /\ y = StepOf(r)[x] /\ y \in Moving(r) /\ y \in 0 .. r.m - 1 /\ y # r.fix
      BY <1>0, <2>2 DEF Moving, StepOf
    <3>2. PICK i \in Nat : i = From(x) /\ o[i] = x /\ o[i + 1] = y
      BY <1>1, <3>1 DEF Orbit
    <3>3. IsNext(o, W, i, Q(x))
      BY <1>2, <3>1, <3>2
    <3>4. f[x] = o[Q(x)] /\ f[y] = o[Q(y)]
      BY <2>2, <3>1
    <3>5. NextBody(r, f)[x] = IF TooLargeIn(r, y) THEN f[y] ELSE y
      BY DEF NextBody
    <3>6. CASE TooLargeIn(r, y)
      <4>1. y \notin W
        BY <3>6 DEF Wanted
      <4>2. IsNext(o, W, i + 1, Q(x))
        <5>1. PICK s : s = Q(x)
          OBVIOUS
        <5>2. s \in Nat /\ i < s /\ o[s] \in W /\ \A jj \in i + 1 .. s - 1 : o[jj] \notin W
          <6> HIDE DEF Q
          <6> QED BY <3>3, <5>1 DEF IsNext
        <5>3. s # i + 1 /\ i + 1 < s
          BY <3>2, <4>1, <5>2
        <5>4. \A jj \in (i + 1) + 1 .. s - 1 : jj \in i + 1 .. s - 1
          OBVIOUS
        <5>5. IsNext(o, W, i + 1, s)
          BY <5>2, <5>3, <5>4 DEF IsNext
        <5> HIDE DEF Q
        <5> QED BY <5>1, <5>5
      <4>3. IsNext(o, W, From(y), Q(y)) /\ From(y) \in Nat /\ o[From(y)] = y
        BY <1>1, <1>2, <3>1
      <4>4. o[Q(x)] = o[Q(y)]
        <5>1. i + 1 \in Nat /\ o[i + 1] = o[From(y)]
          BY <3>2, <4>3
        <5> HIDE DEF From, Q
        <5> QED BY <5>1, <4>2, <4>3, NextUnique
      <4> QED BY <3>4, <3>5, <3>6, <4>4
    <3>7. CASE ~TooLargeIn(r, y)
      <4>1. y \in W
        BY <3>1, <3>7 DEF Wanted
      <4>2. IsNext(o, W, i, i + 1)
        BY <3>2, <4>1 DEF IsNext
      <4>3. o[Q(x)] = o[i + 1]
        <5> HIDE DEF From, Q
        <5> QED BY <3>2, <3>3, <4>2, NextUnique
      <4> QED BY <3>2, <3>4, <3>5, <3>7, <4>3
    <3> QED BY <3>6, <3>7
  <2> QED BY <2>1, <2>2
<1>4. f = NextBody(r, f)
  <2> f = [x \in 0 .. r.m - 1 |-> f[x]] /\ NextBody(r, f) = [x \in 0 .. r.m - 1 |-> NextBody(r, f)[x]]
    BY DEF NextBody
  <2> HIDE DEF f
  <2> QED BY <1>3
<1> QED BY <1>4

\* _random() goes on to the next residue that is small enough.
LEMMA NextValueIs ==
  ASSUME NEW o, IsGenerator(rand), Orbit(o, rand), NEW i \in Nat, o[i] = rand.value, NEW q,
         IsNext(o, Wanted(rand), i, q)
  PROVE  NextValue = o[q]
<1> DEFINE f == CHOOSE g : g = NextBody(rand, g)
<1>1. f = NextBody(rand, f)
  BY NextValueDefined
<1>2. NextValue = f[rand.value]
  BY DEF NextValue, NextBody, TooLarge, TooLargeIn
<1> HIDE DEF f
<1>0. q \in Nat /\ i < q
  BY DEF IsNext
<1> DEFINE T == {d \in 0 .. q - i - 1 : f[o[q - 1 - d]] = o[q]}
<1>3. ASSUME NEW k \in i .. q - 1
      PROVE  f[o[k]] = IF k + 1 = q THEN o[q] ELSE f[o[k + 1]]
  <2>1. k \in Nat /\ o[k] \in Moving(rand) /\ o[k] \in 0 .. rand.m - 1 /\ o[k + 1] = StepOf(rand)[o[k]]
    BY <1>0 DEF Orbit, Moving
  <2>2. o[k + 1] = (o[k] * rand.a + rand.b) % rand.m /\ o[k + 1] \in Moving(rand)
    BY <2>1 DEF StepOf, IsGenerator
  <2>3. f[o[k]] = IF TooLargeIn(rand, o[k + 1]) THEN f[o[k + 1]] ELSE o[k + 1]
    BY <1>1, <2>1, <2>2 DEF NextBody
  <2>4. CASE k + 1 = q
    BY <2>3, <2>4 DEF IsNext, Wanted
  <2>5. CASE k + 1 # q
    BY <1>0, <2>2, <2>3, <2>5 DEF IsNext, Wanted
  <2> QED BY <2>4, <2>5
<1>4. 0 \in T
  <2>1. q - 1 \in i .. q - 1
    BY <1>0
  <2> QED BY <1>0, <1>3, <2>1
<1>5. ASSUME NEW d \in 1 .. q - i - 1, d - 1 \in T PROVE d \in T
  <2>1. q - 1 - d \in i .. q - 1 /\ (q - 1 - d) + 1 = q - 1 - (d - 1) /\ (q - 1 - d) + 1 # q
    BY <1>0
  <2> QED BY <1>3, <1>5, <2>1
<1>6. q - i - 1 \in T
  <2> HIDE DEF T
  <2>1. q - i - 1 \in Nat
    BY <1>0
  <2> QED BY <1>4, <1>5, <2>1, Induction
<1>7. q - 1 - (q - i - 1) = i
  BY <1>0
<1> QED BY <1>2, <1>6, <1>7
\* What the generator runs through does not depend on where it is.
LEMMA SameParameters ==
  ASSUME NEW r, NEW s, s.max = r.max, s.m = r.m, s.a = r.a, s.b = r.b, s.fix = r.fix
  PROVE  /\ Moving(s) = Moving(r) /\ StepOf(s) = StepOf(r) /\ Wanted(s) = Wanted(r)
         /\ IsGenerator(s) <=> IsGenerator(r)
         /\ \A o : Orbit(o, s) <=> Orbit(o, r)
         /\ \A x : HiddenIn(s, x) = HiddenIn(r, x)
<1>1. Moving(s) = Moving(r)
  BY Zenon DEF Moving
<1>2. StepOf(s) = StepOf(r)
  BY <1>1, Zenon DEF StepOf
<1>3. Wanted(s) = Wanted(r)
  BY <1>1, Zenon DEF Wanted, TooLargeIn
<1>4. \A o : Orbit(o, s) <=> Orbit(o, r)
  BY <1>1, <1>2, Zenon DEF Orbit
<1>5. IsGenerator(s) <=> IsGenerator(r)
  BY <1>1, <1>2, <1>4, Zenon DEF IsGenerator
<1>6. \A x : HiddenIn(s, x) = HiddenIn(r, x)
  BY Zenon DEF HiddenIn
<1> QED BY <1>1, <1>2, <1>3, <1>4, <1>5, <1>6

IsParameters(r) == \E max, m, a, b, fix, v :
                     r = [max |-> max, m |-> m, a |-> a, b |-> b, fix |-> fix, value |-> v]

\* A step changes nothing but the place in the sequence.
LEMMA ValueSet ==
  ASSUME NEW r, IsParameters(r), NEW v
  PROVE  /\ IsParameters([r EXCEPT !.value = v]) /\ [r EXCEPT !.value = v].value = v
         /\ [r EXCEPT !.value = v].max = r.max /\ [r EXCEPT !.value = v].m = r.m
         /\ [r EXCEPT !.value = v].a = r.a /\ [r EXCEPT !.value = v].b = r.b
         /\ [r EXCEPT !.value = v].fix = r.fix
<1>1. PICK max, m, a, b, fix, w :
        r = [max |-> max, m |-> m, a |-> a, b |-> b, fix |-> fix, value |-> w]
  BY DEF IsParameters
<1>2. PICK s : s = [r EXCEPT !.value = v]
  OBVIOUS
<1>3. s = [max |-> max, m |-> m, a |-> a, b |-> b, fix |-> fix, value |-> v]
  BY <1>1, <1>2
<1>4. IsParameters(s)
  BY <1>3, Zenon DEF IsParameters
<1>5. s.value = v /\ s.max = r.max /\ s.m = r.m /\ s.a = r.a /\ s.b = r.b /\ s.fix = r.fix
  BY <1>1, <1>3
<1> QED BY <1>2, <1>4, <1>5

\* The numbers drawn are what a walk through the sequence has met of what is wanted.
IsWalk(r, d, o, p) ==
  /\ Orbit(o, r) /\ Visits(o, Wanted(r), p, Len(d)) /\ o[p[Len(d)]] = r.value
  /\ \A i \in 1 .. Len(d) : d[i] = HiddenIn(r, o[p[i]])
Walks(r, d) == \E o, p : IsWalk(r, d, o, p)
RandomInv ==
  /\ IsParameters(rand) /\ \E S : drawn \in Seq(S)
  /\ rand.max > 0 /\ IsGenerator(rand) => Walks(rand, drawn)

\* Nothing is drawn: the walk is at its begin.
LEMMA WalkBegins ==
  ASSUME NEW r, IsGenerator(r), r.value \in Moving(r)
  PROVE  Walks(r, << >>)
<1>1. PICK M, s, v : M = Moving(r) /\ s = StepOf(r) /\ v = r.value /\ s \in [M -> M] /\ v \in M
  BY DEF IsGenerator
<1>a. HasIteration(M, v, s)
  BY <1>1, NatRecursion
<1>2. PICK o \in [Nat -> Moving(r)] : o[0] = r.value /\ \A k \in Nat : o[k + 1] = StepOf(r)[o[k]]
  BY <1>1, <1>a, Zenon DEF HasIteration
<1>3. PICK p : p = [i \in {0} |-> 0]
  OBVIOUS
<1>4. Orbit(o, r)
  BY <1>2 DEF Orbit
<1>5. Visits(o, Wanted(r), p, Len(<< >>)) /\ p[Len(<< >>)] = 0
  <2>1. Len(<< >>) = 0 /\ 0 .. 0 = {0} /\ p \in [{0} -> Nat] /\ p[0] = 0
    BY <1>3
  <2> QED BY <2>1 DEF Visits
<1>6. IsWalk(r, << >>, o, p)
  BY <1>2, <1>4, <1>5 DEF IsWalk
<1> QED BY <1>6 DEF Walks

\* One more number is drawn: the walk is one visit longer.
LEMMA WalkGoesOn ==
  ASSUME NEW S, NEW d \in Seq(S), IsGenerator(rand), Walks(rand, d), IsParameters(rand),
         NEW v, v = NextValue
  PROVE  Walks([rand EXCEPT !.value = v], Append(d, HiddenIn(rand, v)))
<1> DEFINE s == [rand EXCEPT !.value = v]
           e == Append(d, HiddenIn(rand, v))
           A == Wanted(rand)
<1>1. PICK o, p : IsWalk(rand, d, o, p)
  BY DEF Walks
<1>2. PICK n \in Nat : n = Len(d)
  OBVIOUS
<1>3. /\ Orbit(o, rand) /\ Visits(o, A, p, n) /\ o[p[n]] = rand.value
      /\ \A i \in 1 .. n : d[i] = HiddenIn(rand, o[p[i]])
  BY <1>1, <1>2 DEF IsWalk
<1>4. p \in [0 .. n -> Nat] /\ p[n] \in Nat
  BY <1>2, <1>3 DEF Visits
<1>5. PICK q : IsNext(o, A, p[n], q)
  BY <1>3, <1>4, NextExists DEF HasNext
<1>6. v = o[q] /\ q \in Nat
  BY <1>3, <1>4, <1>5, NextValueIs DEF IsNext
<1>7. PICK tt : tt = [i \in 0 .. n + 1 |-> IF i = n + 1 THEN q ELSE p[i]]
  OBVIOUS
<1>8. tt \in [0 .. n + 1 -> Nat] /\ tt[n + 1] = q /\ \A i \in 0 .. n : tt[i] = p[i]
  BY <1>4, <1>6, <1>7
<1>9. Visits(o, A, tt, n + 1)
  <2>1. ASSUME NEW i \in 1 .. n + 1
        PROVE  /\ tt[i - 1] < tt[i] /\ o[tt[i]] \in A
               /\ \A jj \in tt[i - 1] + 1 .. tt[i] - 1 : o[jj] \notin A
    <3>1. CASE i = n + 1
      <4>1. tt[i] = q /\ tt[i - 1] = p[n]
        BY <1>8, <3>1
      <4> QED BY <1>5, <4>1 DEF IsNext
    <3>2. CASE i # n + 1
      <4>1. i \in 1 .. n /\ tt[i] = p[i] /\ tt[i - 1] = p[i - 1]
        BY <1>8, <3>2
      <4> QED BY <1>3, <4>1 DEF Visits
    <3> QED BY <3>1, <3>2
  <2> HIDE DEF A
  <2> QED BY <1>8, <2>1 DEF Visits
<1>10. Len(e) = n + 1 /\ e[n + 1] = HiddenIn(rand, v) /\ \A i \in 1 .. n : e[i] = d[i]
  BY <1>2
<1>11. \A i \in 1 .. n + 1 : e[i] = HiddenIn(rand, o[tt[i]])
  <2> HIDE DEF e
  <2> QED BY <1>3, <1>6, <1>8, <1>10
<1>12. /\ s.value = v /\ Orbit(o, s) /\ Wanted(s) = A /\ \A x : HiddenIn(s, x) = HiddenIn(rand, x)
  <2>1. /\ s.value = v /\ s.max = rand.max /\ s.m = rand.m /\ s.a = rand.a /\ s.b = rand.b
        /\ s.fix = rand.fix
    BY ValueSet
  <2> HIDE DEF s
  <2> QED BY <1>3, <2>1, SameParameters
<1>13. IsWalk(s, e, o, tt)
  <2> HIDE DEF s, e, A
  <2> QED BY <1>6, <1>8, <1>9, <1>10, <1>11, <1>12 DEF IsWalk
<1> QED BY <1>13 DEF Walks

\* Along a walk no number is drawn twice before all are.
LEMMA WalkOnce ==
  ASSUME NEW r, IsGenerator(r), NEW S, NEW d \in Seq(S), Walks(r, d), NEW i \in DOMAIN d
  PROVE  /\ d[i] \in 0 .. r.max - 1
         /\ \A k \in 1 .. i - 1 : d[k] = d[i] <=> (i - k) % r.max = 0
<1>1. PICK o, p : IsWalk(r, d, o, p)
  BY DEF Walks
<1>2. PICK n \in Nat : n = Len(d) /\ i \in 1 .. n
  OBVIOUS
<1>3. /\ Orbit(o, r) /\ Visits(o, Wanted(r), p, n)
      /\ \A jj \in 1 .. n : d[jj] = HiddenIn(r, o[p[jj]]) /\ o[p[jj]] \in Wanted(r)
  BY <1>1, <1>2 DEF IsWalk, Visits
<1>4. d[i] \in 0 .. r.max - 1
  BY <1>2, <1>3, WantedNumbers
<1>5. ASSUME NEW k \in 1 .. i - 1 PROVE d[k] = d[i] <=> (i - k) % r.max = 0
  <2>1. k \in 1 .. n
    BY <1>2
  <2>2. d[k] = d[i] <=> o[p[k]] = o[p[i]]
    BY <1>2, <1>3, <2>1, WantedNumbers
  <2>3. o[p[k]] = o[p[i]] <=> (i - k) % Cardinality(Wanted(r)) = 0
    <3>1. PICK M, A, c : M = Moving(r) /\ A = Wanted(r) /\ c = r.m - 1
      OBVIOUS
    <3>2. c \in Nat /\ IsFiniteSet(M) /\ Cardinality(M) = c
      BY <3>1, MovingSize
    <3>3. A \in SUBSET M /\ A # {}
      BY <3>1, MovingSize, WantedNumbers
    <3>4. o \in [Nat -> M] /\ Returns(o, c)
      BY <1>3, <3>1 DEF IsGenerator, Orbit
    <3>5. Visits(o, A, p, n)
      BY <1>3, <3>1
    <3>6. o[p[k]] = o[p[i]] <=> (i - k) % Cardinality(A) = 0
      <4>1. Again(o, A, p, i, k)
        BY <1>2, <3>2, <3>3, <3>4, <3>5, Permutation
      <4> QED BY <4>1, Zenon DEF Again
    <3> QED BY <3>1, <3>6
  <2> QED BY <2>2, <2>3, WantedNumbers
<1> QED BY <1>4, <1>5

\* At the start no number has been drawn.
LEMMA RandomStartInv == RandomStart => RandomInv
<1> SUFFICES ASSUME RandomStart PROVE RandomInv
  OBVIOUS
<1>1. rand = [max |-> 0, m |-> 1, a |-> 0, b |-> 0, fix |-> 0, value |-> 0] /\ drawn = <<>>
  BY DEF RandomStart
<1>2. IsParameters(rand)
  BY <1>1, Zenon DEF IsParameters
<1>3. ~(rand.max > 0)
  BY <1>1
<1>4. drawn \in Seq({})
  BY <1>1
<1> QED BY <1>2, <1>3, <1>4 DEF RandomInv

\* _random_init() begins a new walk.
LEMMA RandomInitInv ==
  ASSUME NEW start \in Nat, NEW max \in Nat, RandomInv, random_init(start, max)
  PROVE  RandomInv'
<1>1. drawn' = <<>>
  BY DEF random_init
<1>2. \E S : drawn' \in Seq(S)
  <2>1. drawn' \in Seq({})
    BY <1>1
  <2> QED BY <2>1
<1>3. CASE max = 0
  <2>1. rand' = [rand EXCEPT !.max = 0] /\ IsParameters(rand)
    BY <1>3 DEF random_init, RandomInv
  <2>2. PICK x, m, a, b, fix, v :
          rand = [max |-> x, m |-> m, a |-> a, b |-> b, fix |-> fix, value |-> v]
    BY <2>1 DEF IsParameters
  <2>3. rand' = [max |-> 0, m |-> m, a |-> a, b |-> b, fix |-> fix, value |-> v]
    BY <2>1, <2>2
  <2>4. IsParameters(rand')
    BY <2>3, Zenon DEF IsParameters
  <2>5. ~(rand'.max > 0)
    BY <2>3
  <2> QED BY <1>2, <2>4, <2>5 DEF RandomInv
<1>4. CASE max # 0
  <2>1. PICK m, a, b, fix :
          rand' = [max |-> max, m |-> m, a |-> a, b |-> b, fix |-> fix,
                   value |-> IF start % m = fix THEN 0 ELSE start % m]
    <3> DEFINE primes   == Table(max)
               looked == IF Len(primes) > Max({Len(p_list), 2}) THEN Last(primes) ELSE 3
               search == CHOOSE search : search =
                           [m \in Nat |->
                             LET p == Parameters(primes, m, start)
                             IN  IF isprime(primes, Len(primes), m) /\ p.a * p.a >= m /\ p.fix # 0
                                 THEN p ELSE search[m + 2]]
               p == search[IF looked <= max THEN Odd(max + 1) ELSE looked]
    <3>1. rand' = [max |-> max, m |-> p.m, a |-> p.a, b |-> p.b, fix |-> p.fix,
                   value |-> IF start % p.m = p.fix THEN 0 ELSE start % p.m]
      BY <1>4 DEF random_init
    <3> HIDE DEF p
    <3> QED BY <3>1, Zenon
  <2>2. IsParameters(rand') 
    BY <2>1, Zenon DEF IsParameters
  <2>3. ASSUME IsGenerator(rand') PROVE Walks(rand', drawn')
    <3>1. rand'.value = (IF start % m = fix THEN 0 ELSE start % m) /\ rand'.m = m /\ rand'.fix = fix
      BY <2>1
    <3>a. m \in Nat /\ m > 0 /\ fix \in 1 .. m - 1
      BY <3>1, <2>3 DEF IsGenerator
    <3>2. rand'.value \in Moving(rand')
      BY <3>1, <3>a DEF Moving
    <3> QED BY <1>1, <2>3, <3>2, WalkBegins
  <2> QED BY <1>2, <2>2, <2>3 DEF RandomInv
<1> QED BY <1>3, <1>4

\* _random() goes on with the walk.
LEMMA RandomNextInv ==
  ASSUME RandomInv, random
  PROVE  RandomInv'
<1>1. PICK S : drawn \in Seq(S)
  BY DEF RandomInv
<1>2. drawn' = Append(drawn, Number)
  BY DEF random
<1>3. \E T : drawn' \in Seq(T)
  <2>1. drawn \in Seq(S \cup {Number}) /\ Number \in S \cup {Number}
    BY <1>1
  <2>2. drawn' \in Seq(S \cup {Number})
    BY <1>2, <2>1
  <2> QED BY <2>2
<1>4. CASE rand.max = 0
  BY <1>3, <1>4 DEF RandomInv, random
<1>5. CASE rand.max # 0
  <2>1. rand' = [rand EXCEPT !.value = NextValue] /\ IsParameters(rand)
    BY <1>5 DEF random, RandomInv
  <2>2. /\ IsParameters(rand') /\ rand'.max = rand.max
        /\ IsGenerator(rand') <=> IsGenerator(rand)
    <3>1. PICK v : v = NextValue
      OBVIOUS
    <3>2. rand' = [rand EXCEPT !.value = v]
      BY <2>1, <3>1
    <3>3. /\ IsParameters(rand') /\ rand'.max = rand.max /\ rand'.m = rand.m /\ rand'.a = rand.a
          /\ rand'.b = rand.b /\ rand'.fix = rand.fix
      BY <2>1, <3>2, ValueSet
    <3> QED BY <3>3, SameParameters
  <2>3. ASSUME rand'.max > 0, IsGenerator(rand') PROVE Walks(rand', drawn')
    <3>1. IsGenerator(rand) /\ Walks(rand, drawn)
      BY <2>2, <2>3 DEF RandomInv
    <3>2. Number = HiddenIn(rand, NextValue)
      BY <1>5 DEF Number, Hidden, HiddenIn
    <3>3. PICK v : v = NextValue
      OBVIOUS
    <3>4. Walks([rand EXCEPT !.value = v], Append(drawn, HiddenIn(rand, v)))
      BY <1>1, <2>1, <3>1, <3>3, WalkGoesOn
    <3> QED BY <1>2, <2>1, <3>2, <3>3, <3>4
  <2> QED BY <1>3, <2>2, <2>3 DEF RandomInv
<1> QED BY <1>4, <1>5

\* Each number comes once on the walk of a generator.
LEMMA RandomOnce ==
  ASSUME RandomInv, rand.max > 0 => IsGenerator(rand)
  PROVE  EachNumberOnce
<1> SUFFICES ASSUME NEW i \in DOMAIN drawn, rand.max > 0
             PROVE  /\ drawn[i] \in 0 .. rand.max - 1
                    /\ \A k \in 1 .. i - 1 : drawn[k] = drawn[i] <=> (i - k) % rand.max = 0
  BY DEF EachNumberOnce
<1>1. IsGenerator(rand) /\ Walks(rand, drawn) /\ \E S : drawn \in Seq(S)
  BY DEF RandomInv
<1> QED BY <1>1, WalkOnce
----------------------------------------------------------------------------
LeadsTo(m, a, b, x, y) == (x * a + b) % m = y % m

TakesAway(m, a, fix, x, y) == (y - fix) % m = (a * ((x - fix) % m)) % m

\* The distance from the fixpoint is multiplied at each step.
LEMMA StepFromFixpoint ==
  ASSUME NEW m \in Nat \ {0}, NEW a \in Int, NEW b \in Int, NEW fix \in Int, NEW x \in Int, NEW y \in Int,
         LeadsTo(m, a, b, fix, fix), LeadsTo(m, a, b, x, y)
  PROVE  TakesAway(m, a, fix, x, y)
<1>1. PICK u \in Int, v \in Int : u = fix * a + b /\ v = x * a + b
  OBVIOUS
<1>2. Divides(m, u - fix) /\ Divides(m, v - y)
  BY <1>1, SameRest DEF LeadsTo
<1>3. PICK s \in Int, tt \in Int : s = u - fix /\ tt = v - y /\ Divides(m, s) /\ Divides(m, tt)
  BY <1>2
<1>4. Divides(m, s - tt)
  BY <1>3, DividesMinus
<1>5. v - u = a * (x - fix)
  <2>1. a * (x - fix) = x * a - fix * a
    OBVIOUS
  <2>2. x * a \in Int /\ fix * a \in Int
    OBVIOUS
  <2> QED BY <1>1, <2>1, <2>2
<1>6. PICK w \in Int : w = a * (x - fix)
  OBVIOUS
<1>7. s - tt = (y - fix) - w /\ y - fix \in Int /\ x - fix \in Int
  BY <1>3, <1>5, <1>6
<1>8. (y - fix) % m = w % m
  BY <1>4, <1>7, SameRest, Zenon
<1>9. (a * ((x - fix) % m)) % m = ((x - fix) * a) % m
  BY <1>7, RestTimes, Zenon
<1>10. (x - fix) * a = a * (x - fix)
  BY <1>7
<1> QED BY <1>6, <1>8, <1>9, <1>10, Zenon DEF TakesAway

\* A linear sequence with a primitive root as its multiplier: nothing but the fixpoint
\* leads to the fixpoint, ...
LEMMA NotToFixpoint ==
  ASSUME NEW m, IsPrime(m), NEW a \in 1 .. m - 1, NEW b \in Int, NEW fix \in 0 .. m - 1,
         (fix * a + b) % m = fix, NEW x \in 0 .. m - 1, (x * a + b) % m = fix
  PROVE  x = fix
<1>0. m \in Nat \ {0} /\ m \in Int /\ a \in Int /\ fix \in Int /\ x \in Int
  BY DEF IsPrime
<1>1. PICK u \in Int, v \in Int, p \in Int, q \in Int :
        p = x * a /\ q = fix * a /\ v = p + b /\ u = q + b
  BY <1>0
<1>2. Divides(m, v - u)
  <2>1. u % m = fix /\ v % m = fix
    BY <1>1, Zenon
  <2> QED BY <1>0, <2>1, SameRest
<1>3. v - u = p - q
  BY <1>1
<1>4. p % m = q % m
  BY <1>0, <1>2, <1>3, SameRest, Zenon
<1>5. p = a * x /\ q = a * fix
  BY <1>0, <1>1
<1>6. (a * x) % m = (a * fix) % m
  BY <1>4, <1>5, Zenon
<1> QED BY <1>6, Cancelled, Zenon

\* A sequence of residues that goes on linearly, and a multiplier none of whose powers is 1 too soon.
IsLinear(o, m, a, b, fix) ==
  o \in [Nat -> (0 .. m - 1) \ {fix}] /\ \A k \in Nat : o[k + 1] = (o[k] * a + b) % m
IsPrimitive(P, m) == \A k \in Nat \ {0} : P[k] = 1 => k >= m - 1

\* The sequence r' = (a*r + b) % m that _random() steps along comes back to where it was
\* after m - 1 steps and not before: it runs through all residues but its fixpoint.
THEOREM FullPeriod ==
  ASSUME NEW m, IsPrime(m), NEW a \in 1 .. m - 1, NEW b \in Int, NEW fix \in 0 .. m - 1,
         (fix * a + b) % m = fix, NEW P, IsPowers(P, a, m), IsPrimitive(P, m),
         NEW o, IsLinear(o, m, a, b, fix)
  PROVE  Returns(o, m - 1)
<1>0. m \in Nat \ {0} /\ m \in Nat /\ m > 1 /\ a \in Int /\ fix \in Int
  BY DEF IsPrime
<1>a. \A k \in Nat : o[k] \in Int /\ o[k] \in 0 .. m - 1 /\ o[k] # fix
  BY DEF IsLinear
<1>b. \A k \in Nat : o[k + 1] = (o[k] * a + b) % m
  BY DEF IsLinear
<1> DEFINE y(k) == (o[k] - fix) % m
<1>1. ASSUME NEW k \in Nat PROVE y(k) \in 1 .. m - 1
  <2>1. PICK x \in 0 .. m - 1 : x = o[k] /\ x # fix
    BY <1>a
  <2>2. PICK z \in Int : z = x - fix
    OBVIOUS
  <2>3. z % m \in 0 .. m - 1
    BY <1>0, RestOf
  <2>4. ASSUME z % m = 0 PROVE FALSE
    <3>1. Divides(m, x - fix)
      BY <1>0, <2>2, <2>4, DividesRest
    <3>0. x \in Int
      OBVIOUS
    <3>2. x % m = fix % m
      BY <1>0, <3>0, <3>1, SameRest, Zenon
    <3>3. x % m = x /\ fix % m = fix
      BY <1>0, <3>0, RestOf, Zenon
    <3> QED BY <2>1, <3>2, <3>3
  <2>5. PICK tt \in 0 .. m - 1 : tt = y(k) /\ tt # 0
    BY <2>1, <2>2, <2>3, <2>4, Zenon
  <2> QED BY <1>0, <2>5
<1>2. ASSUME NEW k \in Nat PROVE y(k + 1) = (a * y(k)) % m
  <2>0. k + 1 \in Nat
    OBVIOUS
  <2>1. PICK x \in Int, z \in Int : x = o[k] /\ z = o[k + 1] /\ z = (x * a + b) % m /\ z \in 0 .. m - 1
    BY <1>a, <1>b, <2>0, Zenon
  <2>2. z % m = z /\ fix % m = fix
    BY <1>0, <2>1, RestOf
  <2>3. (z - fix) % m = (a * ((x - fix) % m)) % m
    <3>1. LeadsTo(m, a, b, fix, fix) /\ LeadsTo(m, a, b, x, z)
      BY <2>1, <2>2, Zenon DEF LeadsTo
    <3>2. TakesAway(m, a, fix, x, z)
      BY <1>0, <3>1, StepFromFixpoint
    <3> QED BY <3>2, Zenon DEF TakesAway
  <2> QED BY <2>1, <2>3, Zenon
<1>3. PICK x \in 1 .. m - 1 : x = y(0)
  BY <1>1
<1>tt. /\ TimesPower(P, m, x, 0) = x
      /\ \A k \in Nat : (a * TimesPower(P, m, x, k)) % m = TimesPower(P, m, x, k + 1)
  BY TimesNext
<1>4. ASSUME NEW n \in Nat PROVE y(n) = TimesPower(P, m, x, n)
  <2> DEFINE T == {k \in 0 .. n : y(k) = TimesPower(P, m, x, k)}
  <2>1. 0 \in T
    BY <1>3, <1>tt
  <2>2. ASSUME NEW k \in 1 .. n, k - 1 \in T PROVE k \in T
    <3>1. k - 1 \in Nat /\ (k - 1) + 1 = k
      OBVIOUS
    <3>2. y(k - 1) = TimesPower(P, m, x, k - 1)
      BY <2>2
    <3>3. y((k - 1) + 1) = (a * y(k - 1)) % m /\ (a * TimesPower(P, m, x, k - 1)) % m = TimesPower(P, m, x, (k - 1) + 1)
      BY <1>2, <1>tt, <3>1, Zenon
    <3>4. y(k) = TimesPower(P, m, x, k)
      <4> HIDE DEF y
      <4> QED BY <3>1, <3>2, <3>3, Zenon
    <3> QED BY <3>4
  <2>3. n \in T
    <3>1. n \in 0 .. n
      OBVIOUS
    <3> HIDE DEF T
    <3> QED BY <2>1, <2>2, <3>1, Induction, Zenon
  <2> QED BY <2>3
<1>5. ASSUME NEW i \in Nat, NEW k \in Nat, i < k, o[i] = o[k] PROVE k - i >= m - 1
  <2>1. TimesPower(P, m, x, i) = TimesPower(P, m, x, k)
    <3>1. y(i) = y(k)
      BY <1>5
    <3> HIDE DEF y
    <3> QED BY <1>4, <3>1
  <2>2. PICK p \in 1 .. m - 1, q \in 1 .. m - 1 : p = P[i] /\ q = P[k]
    BY PowersNonzero
  <2>3. (p * x) % m = (q * x) % m
    BY <2>1, <2>2 DEF TimesPower
  <2>4. p * x = x * p /\ q * x = x * q /\ p \in 0 .. m - 1 /\ q \in 0 .. m - 1
    BY <1>0
  <2>5. p = q
    BY <2>3, <2>4, Cancelled, Zenon
  <2>6. k - i \in Nat \ {0} /\ i <= k
    BY <1>5
  <2>7. P[k - i] = 1
    BY <2>2, <2>5, <2>6, PowersEqual, ZenonT(30)
  <2> QED BY <2>6, <2>7 DEF IsPrimitive
<1> QED BY <1>5 DEF Returns

\* potenz() computes powers.
PowerBody(x, y, m, f) ==
  [e \in 0 .. y |-> IF e = 0 THEN 1
                    ELSE LET half == f[e \div 2]
                         IN  (((half * half) % m) * (IF e % 2 = 1 THEN x ELSE 1)) % m]

\* A power from the power of half the exponent.
LEMMA PowerHalf ==
  ASSUME NEW x \in Int, NEW m \in Nat, m > 1, NEW P, IsPowers(P, x, m), NEW e \in Nat \ {0}
  PROVE  /\ e \div 2 \in 0 .. e - 1
         /\ P[e] = (((P[e \div 2] * P[e \div 2]) % m) * (IF e % 2 = 1 THEN x ELSE 1)) % m
<1>1. PICK h \in Nat : h = e \div 2 /\ h < e /\ (e = h + h \/ e = h + h + 1) /\ (e % 2 = 1 <=> e = h + h + 1)
  OBVIOUS
<1>0. m \in Nat \ {0} /\ \A k \in Nat : P[k] \in 0 .. m - 1 /\ P[k + 1] = (x * P[k]) % m
  BY DEF IsPowers
<1>2. PICK p \in 0 .. m - 1 : p = P[h + h]
  BY <1>0
<1>3. p = (P[h] * P[h]) % m
  BY <1>2, PowersSum
<1>4. CASE e = h + h
  <2>1. p * 1 = p /\ p \in Int
    OBVIOUS
  <2>2. (p * 1) % m = p
    BY <1>0, <2>1, RestOf
  <2>3. (IF e % 2 = 1 THEN x ELSE 1) = 1
    BY <1>1, <1>4
  <2>4. P[e] = (((P[e \div 2] * P[e \div 2]) % m) * (IF e % 2 = 1 THEN x ELSE 1)) % m
    BY <1>1, <1>2, <1>3, <1>4, <2>2, <2>3, Zenon
  <2> QED BY <1>1, <2>4
<1>5. CASE e = h + h + 1
  <2>1. P[(h + h) + 1] = (x * p) % m /\ (h + h) + 1 = e
    BY <1>0, <1>1, <1>2, <1>5
  <2>2. (IF e % 2 = 1 THEN x ELSE 1) = x
    BY <1>1, <1>5
  <2>3. x * p = p * x
    OBVIOUS
  <2>4. P[e] = (((P[e \div 2] * P[e \div 2]) % m) * (IF e % 2 = 1 THEN x ELSE 1)) % m
    BY <1>1, <1>2, <1>3, <2>1, <2>2, <2>3, Zenon
  <2> QED BY <1>1, <2>4
<1> QED BY <1>1, <1>4, <1>5

\* potenz(x, y, m), which squares and multiplies, is the y-th power of x modulo m.
LEMMA PotenzIs ==
  ASSUME NEW x \in Int, NEW m \in Nat, m > 1, NEW P, IsPowers(P, x, m), NEW y \in Nat
  PROVE  potenz(x, y, m) = P[y]
<1> DEFINE g == CHOOSE f : f = PowerBody(x, y, m, f)
<1>0. P[0] = 1
  BY DEF IsPowers
<1>1. \E f : f = PowerBody(x, y, m, f)
  <2> DEFINE f == [e \in 0 .. y |-> P[e]]
  <2>1. ASSUME NEW e \in 0 .. y PROVE f[e] = PowerBody(x, y, m, f)[e]
    <3>1. CASE e = 0
      BY <1>0, <3>1 DEF PowerBody
    <3>2. CASE e # 0
      <4>1. /\ e \in Nat \ {0} /\ e \div 2 \in 0 .. e - 1
            /\ P[e] = (((P[e \div 2] * P[e \div 2]) % m) * (IF e % 2 = 1 THEN x ELSE 1)) % m
        BY <3>2, PowerHalf
      <4>2. f[e \div 2] = P[e \div 2] /\ f[e] = P[e]
        BY <4>1
      <4> HIDE DEF f
      <4> QED BY <3>2, <4>1, <4>2, Zenon DEF PowerBody
    <3> QED BY <3>1, <3>2
  <2>2. f = [e \in 0 .. y |-> f[e]] /\ PowerBody(x, y, m, f) = [e \in 0 .. y |-> PowerBody(x, y, m, f)[e]]
    BY DEF PowerBody
  <2> HIDE DEF f
  <2>3. f = PowerBody(x, y, m, f)
    BY <2>1, <2>2
  <2> QED BY <2>3
<1>2. g = PowerBody(x, y, m, g)
  BY <1>1
<1>3. potenz(x, y, m) = g[y]
  BY DEF potenz, PowerBody
<1> HIDE DEF g
<1> DEFINE T == {k \in 0 .. y : \A e \in 0 .. k : g[e] = P[e]}
<1>4. g[0] = P[0]
  BY <1>0, <1>2 DEF PowerBody
<1>5. ASSUME NEW k \in 1 .. y, k - 1 \in T PROVE k \in T
  <2>1. /\ k \in Nat \ {0} /\ k \div 2 \in 0 .. k - 1
        /\ P[k] = (((P[k \div 2] * P[k \div 2]) % m) * (IF k % 2 = 1 THEN x ELSE 1)) % m
    BY PowerHalf
  <2>2. g[k \div 2] = P[k \div 2]
    BY <1>5, <2>1
  <2>3. g[k] = (((g[k \div 2] * g[k \div 2]) % m) * (IF k % 2 = 1 THEN x ELSE 1)) % m
    <3>1. k # 0 /\ k \in 0 .. y
      OBVIOUS
    <3> QED BY <1>2, <3>1, Zenon DEF PowerBody
  <2>4. g[k] = P[k]
    BY <2>1, <2>2, <2>3, Zenon
  <2>5. \A e \in 0 .. k : e = k \/ e \in 0 .. k - 1
    OBVIOUS
  <2> QED BY <1>5, <2>4, <2>5
<1>6. y \in T
  <2>1. 0 \in T
    BY <1>4
  <2> HIDE DEF T
  <2> QED BY <1>5, <2>1, Induction
<1> QED BY <1>3, <1>6
----------------------------------------------------------------------------
IsRoot(n, r) == r \in Nat /\ r <= n /\ r * r <= n /\ (r + 1) * (r + 1) > n

\* There is an integer square root.
LEMMA RootExists ==
  ASSUME NEW n \in Nat
  PROVE  \E r : IsRoot(n, r)
<1> DEFINE S == {s \in Nat : s * s > n}
<1>1. n + 1 \in S
  <2>1. (n + 1) * (n + 1) = n * n + 2 * n + 1 /\ n * n >= 0
    OBVIOUS
  <2> QED BY <2>1
<1>2. PICK s \in S : \A k \in S : s <= k
  <2>1. S \in SUBSET Nat /\ S # {}
    BY <1>1
  <2> HIDE DEF S
  <2> QED BY <2>1, LeastNumber
<1>3. s # 0 /\ s \in Nat /\ s * s > n
  OBVIOUS
<1>4. PICK r \in Nat : r + 1 = s
  BY <1>3
<1>5. r * r <= n
  <2>1. r \notin S
    <3> HIDE DEF S
    <3> QED BY <1>2, <1>3, <1>4
  <2>2. r * r \in Int
    OBVIOUS
  <2> QED BY <2>1, <2>2
<1>6. r <= n
  <2>1. r > 0 => r <= r * r
    OBVIOUS
  <2> QED BY <1>5, <2>1
<1> QED BY <1>3, <1>4, <1>5, <1>6 DEF IsRoot

\* The limit of the trial divisions is one above the root.
LEMMA LimitIs ==
  ASSUME NEW n \in Nat
  PROVE  \E r : IsRoot(n, r) /\ Limit(n) = r + 1
<1> DEFINE q == CHOOSE r \in 0 .. n : r * r <= n /\ (r + 1) * (r + 1) > n
<1>1. \E r \in 0 .. n : r * r <= n /\ (r + 1) * (r + 1) > n
  <2>1. PICK r : IsRoot(n, r)
    BY RootExists
  <2>2. r \in 0 .. n /\ r * r <= n /\ (r + 1) * (r + 1) > n
    BY <2>1 DEF IsRoot
  <2> QED BY <2>2, Zenon
<1>2. q \in 0 .. n /\ q * q <= n /\ (q + 1) * (q + 1) > n
  BY <1>1, Zenon
<1>3. Limit(n) = 1 + q
  BY Zenon DEF Limit
<1> HIDE DEF q
<1>4. PICK r \in Nat : r = q /\ r <= n
  BY <1>2
<1>5. IsRoot(n, r)
  BY <1>2, <1>4, Zenon DEF IsRoot
<1>6. Limit(n) = r + 1
  BY <1>3, <1>4
<1> QED BY <1>5, <1>6

\* What is not prime has a prime factor below the limit.
LEMMA SmallFactor ==
  ASSUME NEW n \in Nat, NEW v \in Nat, v > 1, v <= n, ~IsPrime(v)
  PROVE  \E p : IsPrime(p) /\ Divides(p, v) /\ p < v /\ p < Limit(n)
<1>1. PICK p : IsPrime(p) /\ Divides(p, v) /\ \A d \in Nat : d > 1 /\ Divides(d, v) => p <= d
  BY LeastPrime DEF HasLeastPrime
<1>2. p \in Nat /\ p > 1
  BY <1>1 DEF IsPrime
<1>3. PICK q \in Nat \ {0} : v = p * q
  BY <1>1, <1>2, DividesSize
<1>4. q # 1
  <2>1. p * 1 = p
    BY <1>2
  <2> QED BY <1>1, <1>3, <2>1
<1>5. p <= q
  <2>1. v = q * p
    BY <1>2, <1>3
  <2>2. Divides(q, v)
    BY <1>2, <2>1 DEF Divides
  <2> QED BY <1>1, <1>4, <2>2
<1>6. p * p <= v /\ p < v
  <2>1. p * p <= p * q
    BY <1>2, <1>5
  <2>2. p < p * q
    BY <1>2, <1>4
  <2> QED BY <1>3, <2>1, <2>2
<1>7. PICK r : IsRoot(n, r) /\ Limit(n) = r + 1
  BY LimitIs
<1>8. r \in Nat /\ (r + 1) * (r + 1) > n
  BY <1>7 DEF IsRoot
<1>9. p < r + 1
  <2>1. ASSUME r + 1 <= p PROVE FALSE
    <3>1. PICK s \in Nat : s = r + 1
      BY <1>8
    <3>2. s * s <= p * p
      BY <1>2, <2>1, <3>1
    <3>3. s * s > n
      BY <1>8, <3>1, Zenon
    <3>4. s * s \in Int /\ p * p \in Int
      BY <1>2
    <3> QED BY <1>6, <3>2, <3>3, <3>4
  <2> QED BY <1>2, <1>8, <2>1
<1> QED BY <1>1, <1>6, <1>7, <1>9

\* The limit is below the number itself.
LEMMA LimitBelow ==
  ASSUME NEW v \in Nat, v >= 5
  PROVE  Limit(v) \in Nat /\ Limit(v) < v
<1>1. PICK r : IsRoot(v, r) /\ Limit(v) = r + 1
  BY LimitIs
<1>2. r \in Nat /\ r * r <= v
  BY <1>1 DEF IsRoot
<1>3. r + 1 < v
  <2>1. r >= 4 => r * r >= 4 * r
    BY <1>2
  <2>2. r * r \in Int
    BY <1>2
  <2> QED BY <1>2, <2>1, <2>2
<1> QED BY <1>1, <1>2, <1>3

\* The odd numbers from a to b, in their order.
LEMMA OddsOf ==
  ASSUME NEW a \in Nat, NEW b \in Nat
  PROVE  /\ OddsFrom(a, b) \in Seq(Nat)
         /\ \A k \in 1 .. Len(OddsFrom(a, b)) : /\ OddsFrom(a, b)[k] = a + 2 * (k - 1)
                                                /\ OddsFrom(a, b)[k] <= b
         /\ \A e \in Nat : a + 2 * e <= b => e + 1 \in 1 .. Len(OddsFrom(a, b))
<1>1. PICK l \in Nat : /\ l = Max({0, (b - a + 2) \div 2})
                       /\ \A k \in 1 .. l : a + 2 * (k - 1) <= b
                       /\ \A e \in Nat : a + 2 * e <= b => e + 1 <= l
  <2>1. PICK h \in Int : h = (b - a + 2) \div 2 /\ (2 * h = b - a + 2 \/ 2 * h + 1 = b - a + 2)
    OBVIOUS
  <2>2. PICK l \in Nat : l = IF 0 >= h THEN 0 ELSE h
    OBVIOUS
  <2>3. l = Max({0, h})
    BY <2>2, MaxOfTwo
  <2> QED BY <2>1, <2>2, <2>3
<1>2. OddsFrom(a, b) = [k \in 1 .. l |-> a + 2 * (k - 1)]
  BY <1>1, Zenon DEF OddsFrom
<1>3. PICK s : s = OddsFrom(a, b)
  OBVIOUS
<1>4. s = [k \in 1 .. l |-> a + 2 * (k - 1)]
  BY <1>2, <1>3
<1>5. s \in Seq(Nat) /\ Len(s) = l
  BY <1>4
<1>6. \A k \in 1 .. l : s[k] = a + 2 * (k - 1) /\ s[k] <= b
  BY <1>1, <1>4
<1>7. \A e \in Nat : a + 2 * e <= b => e + 1 \in 1 .. l
  BY <1>1
<1> QED BY <1>3, <1>5, <1>6, <1>7

\* A table holds primes, and before each of them all that are smaller.
Before(primes, i, p) == \E jj \in 1 .. i - 1 : primes[jj] = p
Has(primes, p) == \E jj \in 1 .. Len(primes) : primes[jj] = p
IsTable(primes) ==
  /\ primes \in Seq(Nat) /\ Len(primes) >= 2
  /\ \A i \in 1 .. Len(primes) : /\ IsPrime(primes[i])
                               /\ \A p : IsPrime(p) /\ p < primes[i] => Before(primes, i, p)
  /\ primes[Len(primes)] % 2 = 1

\* The last prime of a table is odd, and all primes up to it are in the table.
LEMMA LastOf ==
  ASSUME NEW primes, IsTable(primes)
  PROVE  /\ Last(primes) = primes[Len(primes)] /\ Last(primes) \in Nat /\ Last(primes) >= 3 /\ Last(primes) % 2 = 1
         /\ \A p : IsPrime(p) /\ p <= Last(primes) => Has(primes, p)
<1>1. Len(primes) \in Nat /\ Len(primes) >= 2 /\ Len(primes) \in 1 .. Len(primes)
  BY DEF IsTable
<1>2. Last(primes) = primes[Len(primes)]
  BY Zenon DEF Last
<1>3. IsPrime(primes[Len(primes)]) /\ primes[Len(primes)] % 2 = 1
  BY <1>1 DEF IsTable
<1>4. ASSUME NEW p, IsPrime(p), p <= Last(primes) PROVE Has(primes, p)
  <2>1. CASE p = Last(primes)
    BY <1>1, <1>2, <2>1 DEF Has
  <2>2. CASE p < Last(primes)
    <3>1. Before(primes, Len(primes), p)
      BY <1>1, <1>2, <1>4, <2>2 DEF IsTable
    <3>2. \A jj \in 1 .. Len(primes) - 1 : jj \in 1 .. Len(primes)
      BY <1>1
    <3> QED BY <3>1, <3>2 DEF Before, Has
  <2> QED BY <1>2, <1>3, <1>4, <2>1, <2>2 DEF IsPrime
<1> QED BY <1>2, <1>3, <1>4 DEF IsPrime

\* A prime above 2 is odd.
LEMMA OddPrime ==
  ASSUME NEW p, IsPrime(p), p > 2
  PROVE  p % 2 = 1
<1>1. p \in Nat
  BY DEF IsPrime
<1>2. p % 2 = 0 => Divides(2, p)
  BY <1>1, DividesRest
<1>3. ~Divides(2, p)
  BY <1>1 DEF IsPrime
<1> QED BY <1>1, <1>2, <1>3

\* The least of some numbers is one of them.
LEMMA LeastIs ==
  ASSUME NEW S \in SUBSET Nat, S # {}
  PROVE  Least(S) \in S /\ Min(S) = Least(S) /\ \A x \in S : Least(S) <= x
<1>1. \E m \in S : \A x \in S : m <= x
  BY LeastNumber
<1>2. Min(S) \in S /\ \A x \in S : Min(S) <= x
  BY <1>1, Zenon DEF Min
<1> QED BY <1>2 DEF Least

\* What isprime() looks at: the first number of the table that decides.
Deciding(primes, v) == {i \in DOMAIN primes : primes[i] > Limit(v) \/ v % primes[i] = 0}
FirstOf(primes, v)  == primes[Least(Deciding(primes, v))]

\* The first number of the table that decides, and that none before does.
LEMMA FirstIs ==
  ASSUME NEW primes \in Seq(Nat), NEW v, Deciding(primes, v) # {}
  PROVE  \E i \in 1 .. Len(primes) :
           /\ FirstOf(primes, v) = primes[i] /\ (primes[i] > Limit(v) \/ v % primes[i] = 0)
           /\ \A jj \in 1 .. i - 1 : ~(primes[jj] > Limit(v) \/ v % primes[jj] = 0)
<1> DEFINE D == Deciding(primes, v)
<1>1. D \in SUBSET Nat /\ \A i : i \in D <=> i \in 1 .. Len(primes) /\ (primes[i] > Limit(v) \/ v % primes[i] = 0)
  BY DEF Deciding
<1> HIDE DEF D
<1>2. PICK i \in D : i = Least(D) /\ \A x \in D : i <= x
  BY <1>1, LeastIs DEF D
<1>3. \A jj \in 1 .. i - 1 : jj \notin D /\ jj \in 1 .. Len(primes)
  BY <1>1, <1>2
<1>4. FirstOf(primes, v) = primes[i]
  BY <1>2 DEF FirstOf, D
<1>5. /\ i \in 1 .. Len(primes) /\ (primes[i] > Limit(v) \/ v % primes[i] = 0)
      /\ \A jj \in 1 .. i - 1 : ~(primes[jj] > Limit(v) \/ v % primes[jj] = 0)
  BY <1>1, <1>2, <1>3, Zenon
<1> QED BY <1>4, <1>5, Zenon

\* isprime() with its first look at the table named.
LEMMA IsPrimeIs ==
  ASSUME NEW primes, NEW max, NEW v
  PROVE  isprime(primes, max, v) <=>
           IF Deciding(primes, v) # {} /\ FirstOf(primes, v) <= Limit(v) THEN v = FirstOf(primes, v)
           ELSE \/ Len(primes) < max
                \/ \A d \in Range(OddsFrom(Last(primes), Limit(v))) : v % d # 0
BY Zenon DEF isprime, Deciding, FirstOf

\* An odd number is one more than an even one.
LEMMA OddIs ==
  ASSUME NEW n \in Int, n % 2 = 1
  PROVE  \E x \in Int : n = 2 * x + 1
<1>1. 2 \in Nat \ {0} /\ n \div 2 \in Int /\ n = 2 * (n \div 2) + (n % 2)
  BY Division
<1>2. n = 2 * (n \div 2) + 1
  BY <1>1
<1> QED BY <1>1, <1>2

\* The range of a sequence.
LEMMA RangeOf ==
  ASSUME NEW S, NEW s \in Seq(S), NEW d
  PROVE  d \in Range(s) <=> \E k \in 1 .. Len(s) : s[k] = d
BY DEF Range

\* An odd number from the end of the table up to the limit is tried.
LEMMA OddTried ==
  ASSUME NEW primes, IsTable(primes), NEW l \in Nat, NEW d \in Nat, d >= Last(primes), d <= l, d % 2 = 1
  PROVE  d \in Range(OddsFrom(Last(primes), l))
<1>1. PICK a \in Nat : a = Last(primes) /\ a % 2 = 1
  BY LastOf
<1>2. PICK e \in Nat : a + 2 * e = d
  <2>1. PICK x \in Int, y \in Int : d = 2 * x + 1 /\ a = 2 * y + 1
    BY <1>1, OddIs
  <2>2. x - y \in Nat /\ a + 2 * (x - y) = d
    BY <1>1, <2>1
  <2> QED BY <2>2
<1>3. /\ e + 1 \in 1 .. Len(OddsFrom(a, l))
      /\ OddsFrom(a, l)[e + 1] = a + 2 * ((e + 1) - 1)
  BY <1>2, OddsOf
<1>4. OddsFrom(a, l)[e + 1] = d
  BY <1>2, <1>3
<1>5. OddsFrom(a, l) \in Seq(Nat)
  BY OddsOf
<1> QED BY <1>1, <1>3, <1>4, <1>5, RangeOf

\* isprime() takes no number for a prime that is not: either the table ends where the
\* trial goes on, or it holds all primes below the number.
LEMMA IsPrimeSound ==
  ASSUME NEW primes, IsTable(primes), NEW max, NEW v \in Nat, v > 1, isprime(primes, max, v),
         ~(Len(primes) < max) \/ \A p : IsPrime(p) /\ p < v => Has(primes, p)
  PROVE  IsPrime(v)
<1> SUFFICES ASSUME ~IsPrime(v) PROVE FALSE
  OBVIOUS
<1>1. PICK p : IsPrime(p) /\ Divides(p, v) /\ p < v /\ p < Limit(v)
  BY SmallFactor
<1>0. p \in Nat \ {0} /\ primes \in Seq(Nat) /\ Limit(v) \in Nat
  <2>1. PICK r : IsRoot(v, r) /\ Limit(v) = r + 1
    BY LimitIs
  <2> QED BY <1>1, <2>1 DEF IsPrime, IsTable, IsRoot
<1>2. v % p = 0
  BY <1>0, <1>1, DividesRest
<1>3. ~(Deciding(primes, v) # {} /\ FirstOf(primes, v) <= Limit(v))
  <2>1. ASSUME Deciding(primes, v) # {}, FirstOf(primes, v) <= Limit(v) PROVE FALSE
    <3>1. PICK i \in 1 .. Len(primes) : FirstOf(primes, v) = primes[i]
      BY <1>0, <2>1, FirstIs
    <3>2. v = primes[i]
      BY <2>1, <3>1, IsPrimeIs
    <3> QED BY <3>2 DEF IsTable
  <2> QED BY <2>1
<1>4. ~Has(primes, p)
  <2>1. ASSUME NEW jj \in 1 .. Len(primes), primes[jj] = p PROVE FALSE
    <3>1. jj \in Deciding(primes, v)
      BY <1>0, <1>2, <2>1 DEF Deciding
    <3>2. PICK i \in 1 .. Len(primes) :
           /\ FirstOf(primes, v) = primes[i]
           /\ \A k \in 1 .. i - 1 : ~(primes[k] > Limit(v) \/ v % primes[k] = 0)
      BY <1>0, <3>1, FirstIs
    <3>3. primes[i] \in Nat /\ ~(primes[i] <= Limit(v))
      BY <1>0, <1>3, <3>1, <3>2
    <3>4. p < primes[i]
      BY <1>0, <1>1, <3>3
    <3>5. Before(primes, i, p)
      BY <1>1, <3>4 DEF IsTable
    <3> QED BY <1>2, <3>2, <3>5 DEF Before
  <2> QED BY <2>1 DEF Has
<1>5. \A d \in Range(OddsFrom(Last(primes), Limit(v))) : v % d # 0
  BY <1>1, <1>3, <1>4, IsPrimeIs
<1>6. p > Last(primes) /\ Last(primes) >= 3 /\ Last(primes) \in Nat
  BY <1>0, <1>1, <1>4, LastOf
<1>7. p % 2 = 1
  BY <1>0, <1>1, <1>6, OddPrime
<1>8. p \in Range(OddsFrom(Last(primes), Limit(v)))
  <2>1. PICK l \in Nat : l = Limit(v)
    BY <1>0
  <2>2. p >= Last(primes) /\ p <= l
    BY <1>0, <1>1, <1>6, <2>1
  <2> QED BY <1>0, <1>7, <2>1, <2>2, OddTried
<1> QED BY <1>2, <1>5, <1>8

\* Nor does it reject a prime.
LEMMA IsPrimeComplete ==
  ASSUME NEW primes, IsTable(primes), NEW max, NEW v, IsPrime(v), v >= 5
  PROVE  isprime(primes, max, v)
<1>0. v \in Nat /\ primes \in Seq(Nat) /\ Limit(v) \in Nat /\ Limit(v) < v
  BY LimitBelow DEF IsPrime, IsTable
<1>1. CASE Deciding(primes, v) # {} /\ FirstOf(primes, v) <= Limit(v)
  <2>1. PICK i \in 1 .. Len(primes) :
          FirstOf(primes, v) = primes[i] /\ (primes[i] > Limit(v) \/ v % primes[i] = 0)
    BY <1>0, <1>1, FirstIs
  <2>2. primes[i] \in Nat /\ primes[i] > 1
    BY <2>1 DEF IsTable, IsPrime
  <2>3. Divides(primes[i], v)
    BY SMTT(30), <1>0, <1>1, <2>1, <2>2, DividesRest
  <2>4. v = primes[i]
    BY <2>2, <2>3 DEF IsPrime
  <2> QED BY <1>1, <2>1, <2>4, IsPrimeIs
<1>2. CASE ~(Deciding(primes, v) # {} /\ FirstOf(primes, v) <= Limit(v))
  <2>1. ASSUME NEW d \in Range(OddsFrom(Last(primes), Limit(v))) PROVE v % d # 0
    <3>1. PICK a \in Nat, l \in Nat : a = Last(primes) /\ a >= 3 /\ l = Limit(v)
      BY <1>0, LastOf
    <3>a. PICK s : s = OddsFrom(a, l)
      OBVIOUS
    <3>b. s \in Seq(Nat) /\ \A k \in 1 .. Len(s) : s[k] = a + 2 * (k - 1) /\ s[k] <= l
      BY <3>a, OddsOf
    <3>2. PICK k \in 1 .. Len(s) : s[k] = d
      BY <3>1, <3>a, <3>b, RangeOf
    <3>3. s[k] = a + 2 * (k - 1) /\ s[k] <= l /\ k >= 1 /\ k \in Int
      BY <3>b
    <3>4. d \in Nat /\ d >= 3 /\ d < v
      BY <1>0, <3>1, <3>2, <3>3
    <3>5. ~Divides(d, v)
      BY <3>4 DEF IsPrime
    <3> QED BY <1>0, <3>4, <3>5, DividesRest
  <2> QED BY <1>2, <2>1, IsPrimeIs
<1> QED BY <1>1, <1>2
----------------------------------------------------------------------------
\* The table is filled number by number ...
FillBody(b, size, f) ==
  [v \in Nat |->
     IF v < 5 THEN b
     ELSE LET primes == f[v - 2] IN IF isprime(primes, size, v) THEN Append(primes, v) ELSE primes]
HasFill(b, size) == \E f : f = FillBody(b, size, f)

\* The recursion that fills the table has a solution.
LEMMA FillExists ==
  ASSUME NEW b \in Seq(Nat), NEW size
  PROVE  HasFill(b, size)
<1> DEFINE A == Seq(Nat)
           next(v, l) == IF v < 5 THEN b ELSE IF isprime(l, size, v) THEN Append(l, v) ELSE l
           G == [v \in Nat |-> [l \in A |-> next(v, l)]]
<1>1. ASSUME NEW v \in Nat, NEW l \in A PROVE next(v, l) \in A
  OBVIOUS
<1>2. G \in [Nat -> [A -> A]] /\ \A v \in Nat : \A l \in A : G[v][l] = next(v, l)
  <2> HIDE DEF next, A
  <2> QED BY <1>1
<1>3. HasSteps(A, b, G)
  <2> HIDE DEF A, G
  <2> QED BY <1>2, StepsExist DEF A
<1>4. PICK f \in [Nat -> A] : f[0] = b /\ f[1] = b /\ \A v \in Nat : f[v + 2] = G[v + 2][f[v]]
  BY <1>3 DEF HasSteps
<1> HIDE DEF G
<1>5. ASSUME NEW v \in Nat PROVE f[v] = FillBody(b, size, f)[v]
  <2>1. CASE v < 2
    <3>a. v = 0 \/ v = 1
      BY <2>1
    <3>1. f[v] = b
      BY <1>4, <3>a, Zenon
    <3> QED BY <2>1, <3>1 DEF FillBody
  <2>2. CASE v >= 2
    <3>1. PICK u \in Nat : u + 2 = v /\ u = v - 2
      BY <2>2
    <3>2. f[v] = next(v, f[u])
      BY <1>2, <1>4, <3>1
    <3> QED BY <3>1, <3>2, Zenon DEF FillBody
  <2> QED BY <2>1, <2>2
<1>6. f = [v \in Nat |-> f[v]] /\ FillBody(b, size, f) = [v \in Nat |-> FillBody(b, size, f)[v]]
  BY DEF FillBody
<1>7. f = FillBody(b, size, f)
  BY <1>5, <1>6
<1> QED BY <1>7 DEF HasFill

\* ... and holds all primes up to the number reached.
Reached(primes, v) == IsTable(primes) /\ \A p : IsPrime(p) /\ p <= v => Has(primes, p)

\* One number more has been looked at, and added if it is prime.
LEMMA TableExtended ==
  ASSUME NEW primes, NEW v \in Nat, Reached(primes, v - 2), v >= 5, v % 2 = 1, NEW size
  PROVE  /\ Reached(IF isprime(primes, size, v) THEN Append(primes, v) ELSE primes, v)
         /\ IsPrime(v) => isprime(primes, size, v)
<1>0. primes \in Seq(Nat) /\ Len(primes) \in Nat /\ Len(primes) >= 2
  BY DEF Reached, IsTable
<1>1. IsPrime(v) => isprime(primes, size, v)
  BY IsPrimeComplete DEF Reached
<1>a. ASSUME NEW p, IsPrime(p), p < v PROVE Has(primes, p)
  <2>1. p \in Nat /\ (p > 2 => p % 2 = 1)
    BY <1>a, OddPrime DEF IsPrime
  <2>2. p # v - 1
    <3>1. PICK x \in Int : v = 2 * x + 1
      BY OddIs
    <3>2. ASSUME p = v - 1 PROVE FALSE
      <4>1. p > 2
        BY <3>2
      <4>2. PICK y \in Int : p = 2 * y + 1
        BY <2>1, <4>1, OddIs
      <4> QED BY <3>1, <3>2, <4>2
    <3> QED BY <3>2
  <2>3. p <= v - 2
    BY <1>a, <2>1, <2>2
  <2> QED BY <1>a, <2>3 DEF Reached
<1>2. CASE isprime(primes, size, v)
  <2>1. IsPrime(v)
    <3>1. v > 1 /\ IsTable(primes) /\ \A p : IsPrime(p) /\ p < v => Has(primes, p)
      BY <1>a DEF Reached
    <3> QED BY <1>2, <3>1, IsPrimeSound
  <2>2. PICK l : l = Append(primes, v)
    OBVIOUS
  <2>3. PICK n \in Nat : n = Len(primes) /\ n >= 2
    BY <1>0
  <2>4. l \in Seq(Nat) /\ Len(l) = n + 1 /\ l[n + 1] = v /\ \A i \in 1 .. n : l[i] = primes[i]
    BY <1>0, <2>2, <2>3
  <2>5. ASSUME NEW p, Has(primes, p) PROVE \E jj \in 1 .. n : l[jj] = p
    BY <2>3, <2>4, <2>5 DEF Has
  <2>6. ASSUME NEW i \in 1 .. n + 1
        PROVE  IsPrime(l[i]) /\ \A p : IsPrime(p) /\ p < l[i] => Before(l, i, p)
    <3>1. CASE i = n + 1
      <4>1. ASSUME NEW p, IsPrime(p), p < v PROVE Before(l, i, p)
        <5>1. PICK jj \in 1 .. n : l[jj] = p
          BY <1>a, <2>5, <4>1
        <5>2. jj \in 1 .. i - 1
          BY <3>1
        <5> QED BY <5>1, <5>2 DEF Before
      <4> QED BY <2>1, <2>4, <3>1, <4>1
    <3>2. CASE i # n + 1
      <4>1. i \in 1 .. n /\ l[i] = primes[i]
        BY <2>4, <3>2
      <4>2. IsPrime(primes[i]) /\ \A p : IsPrime(p) /\ p < primes[i] => Before(primes, i, p)
        BY <2>3, <4>1 DEF Reached, IsTable
      <4>3. ASSUME NEW p, Before(primes, i, p) PROVE Before(l, i, p)
        <5>1. PICK jj \in 1 .. i - 1 : primes[jj] = p
          BY <4>3 DEF Before
        <5>2. jj \in 1 .. n
          BY <4>1
        <5> QED BY <2>4, <5>1, <5>2 DEF Before
      <4> QED BY <4>1, <4>2, <4>3
    <3> QED BY <3>1, <3>2
  <2>7. IsTable(l)
    <3>1. Len(l) >= 2 /\ l[Len(l)] % 2 = 1
      BY <2>3, <2>4
    <3> QED BY <2>4, <2>6, <3>1 DEF IsTable
  <2>8. ASSUME NEW p, IsPrime(p), p <= v PROVE Has(l, p)
    <3>1. CASE p = v
      <4>1. n + 1 \in 1 .. n + 1
        OBVIOUS
      <4> QED BY <2>4, <3>1, <4>1 DEF Has
    <3>2. CASE p # v
      <4>1. p < v
        BY <2>8, <3>2 DEF IsPrime
      <4>2. PICK jj \in 1 .. n : l[jj] = p
        BY <1>a, <2>5, <2>8, <4>1
      <4> QED BY <2>4, <4>2 DEF Has
    <3> QED BY <3>1, <3>2
  <2> QED BY <1>1, <1>2, <2>2, <2>7, <2>8 DEF Reached
<1>3. CASE ~isprime(primes, size, v)
  <2>1. ASSUME NEW p, IsPrime(p), p <= v PROVE Has(primes, p)
    <3>1. p # v
      BY <1>1, <1>3, <2>1
    <3>2. p < v
      BY <2>1, <3>1 DEF IsPrime
    <3> QED BY <1>a, <2>1, <3>2
  <2> QED BY <1>1, <1>3, <2>1 DEF Reached
<1> QED BY <1>2, <1>3

\* One step of it.
LEMMA FillStep ==
  ASSUME NEW b, NEW size, NEW f, f = FillBody(b, size, f), NEW v \in Nat, v >= 5
  PROVE  f[v] = IF isprime(f[v - 2], size, v) THEN Append(f[v - 2], v) ELSE f[v - 2]
<1>1. \A u \in Nat : FillBody(b, size, f)[u] = IF u < 5 THEN b
          ELSE IF isprime(f[u - 2], size, u) THEN Append(f[u - 2], u) ELSE f[u - 2]
  BY Zenon DEF FillBody
<1>2. ~(v < 5)
  OBVIOUS
<1> QED BY <1>1, <1>2, Zenon

\* After n steps all primes up to 3 + 2 * n are in the table.
LEMMA FillReached ==
  ASSUME NEW b, Reached(b, 3), NEW size, NEW f, f = FillBody(b, size, f), NEW n \in Nat
  PROVE  Reached(f[3 + 2 * n], 3 + 2 * n)
<1> DEFINE T == {k \in 0 .. n : Reached(f[3 + 2 * k], 3 + 2 * k)}
<1>1. 0 \in T
  <2>1. 3 + 2 * 0 = 3 /\ FillBody(b, size, f)[3] = b
    BY Zenon, SMT DEF FillBody
  <2> QED BY <2>1
<1>2. ASSUME NEW k \in 1 .. n, k - 1 \in T PROVE k \in T
  <2>1. PICK v \in Nat : v = 3 + 2 * k /\ v >= 5 /\ v - 2 = 3 + 2 * (k - 1)
    OBVIOUS
  <2>2. v % 2 = 1
    BY <2>1
  <2>3. Reached(f[v - 2], v - 2)
    BY <1>2, <2>1
  <2>4. f[v] = IF isprime(f[v - 2], size, v) THEN Append(f[v - 2], v) ELSE f[v - 2]
    BY <2>1, FillStep
  <2>5. Reached(f[v], v)
    BY <2>1, <2>2, <2>3, <2>4, TableExtended
  <2> QED BY <2>1, <2>5
<1>3. n \in T
  <2> HIDE DEF T
  <2> QED BY <1>1, <1>2, Induction
<1> QED BY <1>3

\* The table grows by one prime at most, and at every prime.
LEMMA FillGrows ==
  ASSUME NEW b, Reached(b, 3), NEW size, NEW f, f = FillBody(b, size, f), NEW n \in Nat
  PROVE  /\ Len(f[3 + 2 * n]) \in Nat
         /\ Len(f[3 + 2 * (n + 1)]) \in {Len(f[3 + 2 * n]), Len(f[3 + 2 * n]) + 1}
         /\ IsPrime(3 + 2 * (n + 1)) => Len(f[3 + 2 * (n + 1)]) = Len(f[3 + 2 * n]) + 1
<1>1. PICK v \in Nat : v = 3 + 2 * (n + 1) /\ v >= 5 /\ v - 2 = 3 + 2 * n /\ v % 2 = 1
  OBVIOUS
<1>2. Reached(f[v - 2], v - 2)
  BY <1>1, FillReached
<1>3. PICK l \in Seq(Nat) : l = f[v - 2]
  BY <1>2 DEF Reached, IsTable
<1>4. f[v] = IF isprime(l, size, v) THEN Append(l, v) ELSE l
  BY <1>1, <1>3, FillStep
<1>5. IsPrime(v) => isprime(l, size, v)
  BY <1>1, <1>2, <1>3, TableExtended
<1>6. Len(Append(l, v)) = Len(l) + 1 /\ Len(l) \in Nat
  OBVIOUS
<1> QED BY <1>1, <1>3, <1>4, <1>5, <1>6

\* The table comes to every size, since there is a prime above every number.
LEMMA FillComesTo ==
  ASSUME NEW b, Reached(b, 3), NEW size \in Nat, Len(b) <= size, NEW f, f = FillBody(b, size, f)
  PROVE  \E k \in Nat : Len(f[3 + 2 * k]) = size
<1> DEFINE L(k) == Len(f[3 + 2 * k])
           R(n) == \E k \in Nat : L(k) = n
<1>0. Len(b) \in Nat /\ L(0) = Len(b)
  <2>1. 3 + 2 * 0 = 3 /\ FillBody(b, size, f)[3] = b
    BY Zenon, SMT DEF FillBody
  <2>2. b \in Seq(Nat)
    BY DEF Reached, IsTable
  <2> QED BY <2>1, <2>2
<1>a. \A k \in Nat : L(k) \in Nat /\ L(k + 1) \in {L(k), L(k) + 1} /\ (IsPrime(3 + 2 * (k + 1)) => L(k + 1) = L(k) + 1)
  BY FillGrows
<1>b. PICK first \in Nat, c \in Nat : first = Len(b) /\ first + c = size
  <2>1. size - Len(b) \in Nat /\ Len(b) + (size - Len(b)) = size
    BY <1>0
  <2> QED BY <1>0, <2>1
<1> HIDE DEF L
<1> DEFINE T == {d \in 0 .. c : R(first + d)}
<1>1. 0 \in T
  <2>1. first + 0 = first /\ R(first)
    BY <1>0, <1>b
  <2> QED BY <2>1
<1>2. ASSUME NEW d \in 1 .. c, d - 1 \in T PROVE d \in T
  <2>0. PICK n \in Nat : n = first + (d - 1) /\ n + 1 = first + d
    OBVIOUS
  <2>1. PICK k \in Nat : L(k) = n
    BY <1>2, <2>0
  <2>2. PICK p : IsPrime(p) /\ p > 3 + 2 * k
    <3>1. 3 + 2 * k \in Nat
      OBVIOUS
    <3> QED BY <3>1, PrimeAbove
  <2>3. PICK e \in Nat : p = 3 + 2 * (e + 1) /\ e >= k
    <3>1. p \in Nat /\ p > 2
      BY <2>2 DEF IsPrime
    <3>2. PICK x \in Int : p = 2 * x + 1
      BY <2>2, <3>1, OddPrime, OddIs
    <3>3. x - 2 \in Nat /\ p = 3 + 2 * ((x - 2) + 1) /\ x - 2 >= k
      BY <2>2, <3>1, <3>2
    <3> QED BY <3>3
  <2>4. L(e + 1) = L(e) + 1
    BY <1>a, <2>2, <2>3
  \* The first number behind k at which the primes is longer.
  <2> DEFINE S == {jj \in Nat : jj > k /\ L(jj) > n}
  <2>5. e + 1 \in S
    <3>0. PICK m \in Nat : k + m = e
      <4>1. e - k \in Nat /\ k + (e - k) = e
        BY <2>3
      <4> QED BY <4>1
    <3> DEFINE U == {i \in 0 .. m : L(k + i) >= n}
    <3>1. 0 \in U
      BY <2>1, <2>3
    <3>2. ASSUME NEW i \in 1 .. m, i - 1 \in U PROVE i \in U
      <4>1. k + (i - 1) \in Nat /\ (k + (i - 1)) + 1 = k + i /\ L(k + (i - 1)) >= n
        BY <3>2
      <4>2. L(k + (i - 1)) \in Nat /\ L((k + (i - 1)) + 1) \in {L(k + (i - 1)), L(k + (i - 1)) + 1}
        BY <1>a, <4>1
      <4>3. L(k + i) >= n
        BY <4>1, <4>2
      <4> QED BY <4>3
    <3>3. m \in U
      <4>1. m \in 0 .. m
        OBVIOUS
      <4> HIDE DEF U
      <4> QED BY <3>1, <3>2, <4>1, Induction, Zenon
    <3>4. L(e) >= n
      BY <3>0, <3>3
    <3> QED BY <1>a, <2>3, <2>4, <3>4
  <2>6. PICK jj \in S : \A i \in S : jj <= i
    <3>1. S \in SUBSET Nat /\ S # {}
      BY <2>5
    <3> HIDE DEF S
    <3> QED BY <3>1, LeastNumber
  <2>7. PICK i \in Nat : i + 1 = jj /\ i >= k
    <3>1. jj - 1 \in Nat /\ (jj - 1) + 1 = jj /\ jj - 1 >= k
      OBVIOUS
    <3> QED BY <3>1
  <2>8. L(i) <= n
    <3>1. i \notin S
      <4> HIDE DEF S
      <4>1. jj \in Nat
        BY <2>6 DEF S
      <4> QED BY <2>6, <2>7, <4>1
    <3>2. L(i) \in Nat
      BY <1>a
    <3>3. CASE i = k
      BY <2>1, <3>3
    <3>4. CASE i # k
      BY <2>7, <3>1, <3>2, <3>4
    <3> QED BY <3>3, <3>4
  <2>9. L(jj) > n /\ L(i) \in Nat /\ L(jj) \in {L(i), L(i) + 1}
    BY <1>a, <2>7
  <2>10. L(jj) = n + 1 /\ jj \in Nat
    BY <2>8, <2>9
  <2>11. R(first + d)
    BY <2>0, <2>10
  <2> QED BY <2>11
<1>3. c \in T
  <2> HIDE DEF T
  <2> QED BY SMTT(30), <1>1, <1>2, Induction
<1> QED BY <1>3, <1>b DEF L

TableInv == p_list = <<>> \/ IsTable(p_list)

\* The table begins with 2 and 3.
LEMMA FirstTable == IsTable(<<2, 3>>) /\ Reached(<<2, 3>>, 3)
<1> DEFINE l == <<2, 3>>
<1>1. l \in Seq(Nat) /\ Len(l) = 2 /\ l[1] = 2 /\ l[2] = 3
  OBVIOUS
<1> HIDE DEF l
<1>2. IsPrime(2) /\ IsPrime(3)
  <2>1. ASSUME NEW n \in {2, 3}, NEW d \in Nat, Divides(d, n) PROVE d = 1 \/ d = n
    <3>1. n \in Nat \ {0}
      OBVIOUS
    <3>2. 0 < d /\ d <= n
      BY <2>1, <3>1, DividesSize
    <3>3. ~Divides(2, 3)
      <4>1. 3 % 2 # 0 /\ 2 \in Nat \ {0} /\ 3 \in Int
        OBVIOUS
      <4> QED BY <4>1, DividesRest
    <3> QED BY <2>1, <3>2, <3>3
  <2> QED BY <2>1 DEF IsPrime
<1>3. ASSUME NEW p, IsPrime(p), p < 3 PROVE p = 2
  BY <1>3 DEF IsPrime
<1>4. \A p : IsPrime(p) => p >= 2 /\ p \in Nat
  BY DEF IsPrime
<1>5. ASSUME NEW i \in 1 .. 2
      PROVE  IsPrime(l[i]) /\ \A p : IsPrime(p) /\ p < l[i] => Before(l, i, p)
  <2>1. CASE i = 1
    BY <1>1, <1>2, <1>4, <2>1
  <2>2. CASE i = 2
    <3>1. 1 \in 1 .. 2 - 1
      OBVIOUS
    <3> QED BY <1>1, <1>2, <1>3, <2>2, <3>1 DEF Before
  <2> QED BY <2>1, <2>2
<1>6. IsTable(l)
  <2>1. Len(l) >= 2 /\ l[Len(l)] % 2 = 1
    BY <1>1
  <2> QED BY <1>1, <1>5, <2>1 DEF IsTable
<1>7. ASSUME NEW p, IsPrime(p), p <= 3 PROVE Has(l, p)
  <2>1. p = 2 \/ p = 3
    BY <1>3, <1>4, <1>7
  <2>2. 1 \in 1 .. Len(l) /\ 2 \in 1 .. Len(l)
    BY <1>1
  <2> QED BY <1>1, <2>1, <2>2 DEF Has
<1> QED BY <1>6, <1>7 DEF Reached, l

\* _random_init() leaves the primes up to the last of them in the table.
LEMMA TableIs ==
  ASSUME TableInv, NEW max \in Nat \ {0}
  PROVE  IsTable(Table(max))
<1> DEFINE b    == IF p_list = <<>> THEN <<2, 3>> ELSE p_list
           size == Max({Len(p_list), TableSize(max)})
           fill == CHOOSE f : f = FillBody(b, size, f)
           until == CHOOSE u : u = [v \in Nat |-> IF Len(fill[v]) = size THEN fill[v] ELSE u[v + 2]]
           T    == {v \in Nat : Len(fill[v]) = size}
<1>1. Table(max) = until[3]
  BY Zenon DEF Table, FillBody
<1>2. size \in Nat /\ Len(b) <= size /\ Reached(b, 3) /\ b \in Seq(Nat)
  <2>1. PICK r : IsRoot(max, r) /\ Limit(max) = r + 1
    BY LimitIs
  <2>2. r \in Nat /\ r # 0
    <3>1. r \in Nat /\ (r + 1) * (r + 1) > max
      BY <2>1 DEF IsRoot
    <3>2. r = 0 => (r + 1) * (r + 1) = 1
      OBVIOUS
    <3> QED BY <3>1, <3>2
  <2>3. PICK tt \in Nat : tt = TableSize(max) /\ tt >= 2
    <3>1. TableSize(max) = ((r + 1) \div 2) + 1
      BY <2>1 DEF TableSize
    <3>2. (r + 1) \div 2 \in Nat /\ (r + 1) \div 2 >= 1
      BY <2>2
    <3> QED BY <3>1, <3>2
  <2>4. Len(p_list) \in Nat
    BY DEF TableInv, IsTable
  <2>5. size \in Nat /\ size >= Len(p_list) /\ size >= 2
    <3>1. size = IF Len(p_list) >= tt THEN Len(p_list) ELSE tt
      BY <2>3, <2>4, MaxOfTwo
    <3> QED BY <2>3, <2>4, <3>1
  <2>6. CASE p_list = <<>>
    <3>1. Reached(<<2, 3>>, 3) /\ <<2, 3>> \in Seq(Nat) /\ Len(<<2, 3>>) = 2
      BY FirstTable
    <3> HIDE DEF size
    <3> QED BY <2>5, <2>6, <3>1
  <2>7. CASE p_list # <<>>
    <3>1. IsTable(p_list) /\ p_list \in Seq(Nat)
      BY <2>7 DEF TableInv, IsTable
    <3>2. \A p : IsPrime(p) /\ p <= 3 => Has(p_list, p)
      <4>1. Last(p_list) >= 3 /\ Last(p_list) \in Nat /\ \A p : IsPrime(p) /\ p <= Last(p_list) => Has(p_list, p)
        BY <3>1, LastOf
      <4>2. ASSUME NEW p, IsPrime(p), p <= 3 PROVE p <= Last(p_list)
        BY <4>1, <4>2 DEF IsPrime
      <4> QED BY <4>1, <4>2
    <3> HIDE DEF size
    <3> QED BY <2>5, <2>7, <3>1, <3>2 DEF Reached
  <2> HIDE DEF size, b
  <2> QED BY <2>5, <2>6, <2>7
<1> HIDE DEF b, size
<1>3. fill = FillBody(b, size, fill)
  BY <1>2, FillExists, Zenon DEF HasFill
<1> HIDE DEF fill
<1>4. IsSearch(until, T, fill)
  <2>1. PICK f : IsSearch(f, T, fill)
    BY SearchExists DEF HasSearch
  <2>2. f = [v \in Nat |-> IF Len(fill[v]) = size THEN fill[v] ELSE f[v + 2]]
    <3>1. \A v \in Nat : v \in T <=> Len(fill[v]) = size
      OBVIOUS
    <3> HIDE DEF T
    <3> QED BY <2>1, <3>1 DEF IsSearch
  <2>3. until = [v \in Nat |-> IF Len(fill[v]) = size THEN fill[v] ELSE until[v + 2]]
    BY <2>2, Zenon
  <2>4. \A v \in Nat : v \in T <=> Len(fill[v]) = size
    OBVIOUS
  <2> HIDE DEF T, until
  <2> QED BY <2>3, <2>4 DEF IsSearch
<1> HIDE DEF until
<1>5. PICK k \in Nat : Len(fill[3 + 2 * k]) = size
  BY <1>2, <1>3, FillComesTo
<1>6. 3 + 2 * k \in T
  BY <1>5
<1> HIDE DEF T
<1>7. FoundBehind(until, T, fill, 3)
  BY <1>4, <1>6, SearchFinds
<1>8. PICK jj \in Nat : until[3] = fill[3 + 2 * jj]
  BY <1>7 DEF FoundBehind
<1>9. Reached(fill[3 + 2 * jj], 3 + 2 * jj)
  BY <1>2, <1>3, FillReached
<1> QED BY <1>1, <1>8, <1>9 DEF Reached
----------------------------------------------------------------------------
\* isfactor() divides the factor out, as often as it can.
StripBody(n, f, g) == [q \in 1 .. n |-> IF q % f = 0 THEN g[q \div f] ELSE q]

\* A quotient is smaller than what was divided.
LEMMA StripDown ==
  ASSUME NEW f \in Nat, f > 1, NEW q \in Nat \ {0}, q % f = 0
  PROVE  q \div f \in 1 .. q - 1 /\ q = f * (q \div f)
<1>1. f \in Nat \ {0} /\ q \in Int
  OBVIOUS
<1>2. q \div f \in Int /\ q = f * (q \div f) + (q % f)
  BY <1>1, Division
<1>3. PICK e \in Int : e = q \div f
  BY <1>2
<1>4. q = f * e
  BY <1>2, <1>3
<1>5. e > 0
  <2>1. e < 0 => f * e < 0
    OBVIOUS
  <2>2. e = 0 => f * e = 0
    OBVIOUS
  <2> QED BY <1>4, <2>1, <2>2
<1>6. f * e >= 2 * e
  BY <1>5
<1>7. e \in 1 .. q - 1
  BY <1>4, <1>5, <1>6
<1> QED BY <1>3, <1>4, <1>7

\* The recursion that divides a factor out has a solution.
LEMMA StripExists ==
  ASSUME NEW n \in Nat, NEW f \in Nat, f > 1
  PROVE  \E g : g = StripBody(n, f, g)
<1> DEFINE T == {k \in 0 .. n : \E g \in [1 .. k -> Nat] : \A q \in 1 .. k :
                                   g[q] = IF q % f = 0 THEN g[q \div f] ELSE q}
<1>1. 0 \in T
  <2>1. PICK g : g = [q \in 1 .. 0 |-> 0]
    OBVIOUS
  <2>2. g \in [1 .. 0 -> Nat] /\ \A q \in 1 .. 0 : g[q] = IF q % f = 0 THEN g[q \div f] ELSE q
    BY <2>1
  <2>3. 0 \in 0 .. n
    OBVIOUS
  <2> QED BY <2>2, <2>3, Zenon
<1>2. ASSUME NEW k \in 1 .. n, k - 1 \in T PROVE k \in T
  <2>1. PICK g \in [1 .. k - 1 -> Nat] : \A q \in 1 .. k - 1 :
          g[q] = IF q % f = 0 THEN g[q \div f] ELSE q
    BY <1>2
  <2>2. PICK x : x = IF k % f = 0 THEN g[k \div f] ELSE k
    OBVIOUS
  <2>a. \A q \in 1 .. k : q % f = 0 => q \div f \in 1 .. q - 1
    <3>1. \A q \in 1 .. k : q \in Nat \ {0}
      OBVIOUS
    <3> QED BY <3>1, StripDown
  <2>3. x \in Nat
    BY SMTT(30), <2>2, <2>a
  <2>4. PICK h : h = [q \in 1 .. k |-> IF q = k THEN x ELSE g[q]]
    OBVIOUS
  <2>5. h \in [1 .. k -> Nat] /\ h[k] = x /\ \A q \in 1 .. k - 1 : h[q] = g[q]
    BY <2>3, <2>4
  <2>6. ASSUME NEW q \in 1 .. k PROVE h[q] = IF q % f = 0 THEN h[q \div f] ELSE q
    <3>1. CASE q % f = 0
      <4>1. q \div f \in 1 .. q - 1 /\ q \div f \in 1 .. k - 1
        <5>1. PICK e \in 1 .. q - 1 : e = q \div f
          BY <2>a, <3>1
        <5>2. e \in 1 .. k - 1
          OBVIOUS
        <5> QED BY <5>1, <5>2
      <4>2. h[q \div f] = g[q \div f]
        BY <2>5, <4>1
      <4>3. CASE q = k
        BY <2>2, <2>5, <3>1, <4>2, <4>3
      <4>4. CASE q # k
        <5>1. q \in 1 .. k - 1
          BY <4>4
        <5> QED BY <2>1, <2>5, <3>1, <4>2, <5>1
      <4> QED BY <4>3, <4>4
    <3>2. CASE q % f # 0
      <4>1. CASE q = k
        BY <2>2, <2>5, <3>2, <4>1
      <4>2. CASE q # k
        <5>1. q \in 1 .. k - 1
          BY <4>2
        <5> QED BY <2>1, <2>5, <3>2, <5>1
      <4> QED BY <4>1, <4>2
    <3> QED BY <3>1, <3>2
  <2> QED BY SMTT(30), <2>5, <2>6
<1>3. n \in T
  <2> HIDE DEF T
  <2> QED BY <1>1, <1>2, Induction
<1>4. PICK g \in [1 .. n -> Nat] : \A q \in 1 .. n : g[q] = IF q % f = 0 THEN g[q \div f] ELSE q
  BY <1>3
<1>5. g = [q \in 1 .. n |-> g[q]]
  OBVIOUS
<1>6. g = [q \in 1 .. n |-> IF q % f = 0 THEN g[q \div f] ELSE q]
  BY <1>4, <1>5
<1> QED BY <1>6, Zenon DEF StripBody

\* What is left of q: a divisor that has all prime factors of q but those of f.
IsStripped(r, q, f) ==
  /\ r \in Nat \ {0} /\ Divides(r, q) /\ ~Divides(f, r)
  /\ \A p : IsPrime(p) /\ Divides(p, q) => Divides(p, r) \/ Divides(p, f)

\* isfactor() leaves what IsStripped says.
LEMMA StrippedIs ==
  ASSUME NEW n \in Nat \ {0}, NEW f \in Nat, f > 1
  PROVE  IsStripped(Stripped(n, f), n, f)
<1> DEFINE g == CHOOSE h : h = StripBody(n, f, h)
           T == {k \in 0 .. n : \A q \in 1 .. k : IsStripped(g[q], q, f)}
<1>1. g = StripBody(n, f, g)
  BY StripExists
<1>2. Stripped(n, f) = g[n]
  BY Zenon DEF Stripped, StripBody
<1> HIDE DEF g
<1>a. \A q \in 1 .. n : g[q] = IF q % f = 0 THEN g[q \div f] ELSE q
  BY <1>1, Zenon DEF StripBody
<1>3. 0 \in T
  OBVIOUS
<1>4. ASSUME NEW k \in 1 .. n, k - 1 \in T PROVE k \in T
  <2>0. k \in Nat \ {0} /\ k \in Int /\ f \in Nat \ {0} /\ f \in Int
    OBVIOUS
  <2>1. IsStripped(g[k], k, f)
    <3>1. CASE k % f = 0
      <4>1. PICK e \in Nat \ {0} : e = k \div f /\ e \in 1 .. k - 1 /\ k = f * e
        <5>1. k \div f \in 1 .. k - 1 /\ k = f * (k \div f)
          BY <2>0, <3>1, StripDown
        <5>2. k \div f \in Nat \ {0}
          BY <5>1
        <5> QED BY <5>1, <5>2, Zenon
      <4>2. IsStripped(g[e], e, f) /\ g[k] = g[e]
        BY <1>4, <1>a, <3>1, <4>1
      <4>3. PICK r \in Nat \ {0} : r = g[k] /\ Divides(r, e) /\ ~Divides(f, r)
                 /\ \A p : IsPrime(p) /\ Divides(p, e) => Divides(p, r) \/ Divides(p, f)
        BY <4>2 DEF IsStripped
      <4>4. Divides(r, k)
        <5>1. r \in Int /\ e \in Int /\ Divides(r, f * e)
          BY <2>0, <4>3, DividesTimes
        <5> QED BY <4>1, <5>1
      <4>5. ASSUME NEW p, IsPrime(p), Divides(p, k) PROVE Divides(p, r) \/ Divides(p, f)
        <5>1. Divides(p, f) \/ Divides(p, e)
          <6>1. f \in Nat /\ e \in Nat /\ Divides(p, f * e)
            BY <4>1, <4>5
          <6> QED BY <4>5, <6>1, PrimeProduct, Zenon
        <5> QED BY <4>3, <4>5, <5>1
      <4> QED BY <4>3, <4>4, <4>5 DEF IsStripped
    <3>2. CASE k % f # 0
      <4>1. g[k] = k /\ ~Divides(f, k) /\ Divides(k, k)
        BY <1>a, <2>0, <3>2, DividesRest, DividesItself
      <4> QED BY <2>0, <4>1 DEF IsStripped
    <3> QED BY <3>1, <3>2
  <2>2. \A q \in 1 .. k - 1 : IsStripped(g[q], q, f)
    BY <1>4
  <2>3. \A q \in 1 .. k : q = k \/ q \in 1 .. k - 1
    OBVIOUS
  <2> QED BY <2>1, <2>2, <2>3
<1>5. n \in T
  <2>1. n \in 0 .. n /\ n \in Nat
    OBVIOUS
  <2> HIDE DEF T
  <2> QED BY <1>3, <1>4, <2>1, Induction, Zenon
<1> QED BY <1>2, <1>5

\* The numbers tried: the table and the odd numbers behind it.
Trials(primes, n) == primes \o OddsFrom(Last(primes), Limit(n))

\* What is tried is at least 2, and its smaller prime factors are tried before.
TrialsOrdered(tt) ==
  /\ tt \in Seq(Nat)
  /\ \A k \in 1 .. Len(tt) : /\ tt[k] > 1
                            /\ \A p : IsPrime(p) /\ Divides(p, tt[k]) /\ p < tt[k] => Before(tt, k, p)

\* Everything that is tried, and that all primes up to the limit are.
LEMMA TrialsAre ==
  ASSUME NEW primes, IsTable(primes), NEW n \in Nat
  PROVE  /\ TrialsOrdered(Trials(primes, n))
         /\ \A p : IsPrime(p) /\ p <= Limit(n) => Has(Trials(primes, n), p)
<1>1. PICK l \in Nat : l = Limit(n)
  <2>1. PICK r : IsRoot(n, r) /\ Limit(n) = r + 1
    BY LimitIs
  <2> QED BY <2>1 DEF IsRoot
<1>2. PICK a \in Nat : a = Last(primes) /\ a >= 3 /\ a % 2 = 1 /\ \A p : IsPrime(p) /\ p <= a => Has(primes, p)
  BY LastOf
<1>3. PICK s \in Seq(Nat) : s = OddsFrom(a, l) /\ \A k \in 1 .. Len(s) : s[k] = a + 2 * (k - 1) /\ s[k] <= l
  BY OddsOf
<1>4. PICK u \in Nat, v \in Nat : u = Len(primes) /\ v = Len(s) /\ primes \in Seq(Nat)
  BY <1>3 DEF IsTable
<1>5. PICK tt : tt = Trials(primes, n)
  OBVIOUS
<1>6. /\ tt \in Seq(Nat) /\ Len(tt) = u + v /\ \A i \in 1 .. u : tt[i] = primes[i]
      /\ \A i \in 1 .. v : tt[u + i] = s[i]
  <2>1. tt = primes \o s
    BY <1>1, <1>2, <1>3, <1>5 DEF Trials
  <2> QED BY <1>3, <1>4, <2>1
<1>7. ASSUME NEW p, Has(primes, p) PROVE \E i \in 1 .. u : tt[i] = p
  <2>1. PICK i \in 1 .. u : primes[i] = p
    BY <1>4, <1>7 DEF Has
  <2> QED BY <1>6, <2>1
<1>8. ASSUME NEW d \in Nat, d >= a, d <= l, d % 2 = 1 PROVE \E i \in 1 .. v : tt[u + i] = d /\ d = a + 2 * (i - 1)
  <2>1. d \in Range(s)
    BY <1>1, <1>2, <1>3, <1>8, OddTried
  <2>2. PICK i \in 1 .. v : s[i] = d
    BY <1>3, <1>4, <2>1, RangeOf
  <2> QED BY <1>3, <1>4, <1>6, <2>2
<1>9. ASSUME NEW p, IsPrime(p), p <= l PROVE Has(tt, p)
  <2>0. p \in Nat
    BY <1>9 DEF IsPrime
  <2>1. CASE p <= a
    <3>1. PICK i \in 1 .. u : tt[i] = p
      BY <1>2, <1>7, <1>9, <2>1
    <3>2. i \in 1 .. Len(tt)
      BY <1>4, <1>6
    <3> QED BY <3>1, <3>2 DEF Has
  <2>2. CASE p > a
    <3>1. p % 2 = 1
      BY SMTT(30), <1>2, <1>9, <2>0, <2>2, OddPrime
    <3>a. p >= a
      BY <2>0, <2>2
    <3>2. PICK i \in 1 .. v : tt[u + i] = p
      BY <1>8, <1>9, <2>0, <3>1, <3>a, Zenon
    <3>3. u + i \in 1 .. Len(tt)
      BY <1>4, <1>6
    <3> QED BY <3>2, <3>3 DEF Has
  <2> QED BY <2>0, <2>1, <2>2
<1>10. ASSUME NEW k \in 1 .. Len(tt)
       PROVE  tt[k] > 1 /\ \A p : IsPrime(p) /\ Divides(p, tt[k]) /\ p < tt[k] => Before(tt, k, p)
  <2>1. CASE k <= u
    <3>1. k \in 1 .. u /\ tt[k] = primes[k]
      BY <1>6, <2>1
    <3>2. IsPrime(tt[k])
      BY <1>4, <3>1 DEF IsTable
    <3>3. tt[k] > 1 /\ \A p : IsPrime(p) /\ Divides(p, tt[k]) => p = tt[k]
      BY <3>2 DEF IsPrime
    <3>4. \A p : p = tt[k] => ~(p < tt[k])
      <4>1. tt[k] \in Nat
        BY <3>2 DEF IsPrime
      <4> QED BY <4>1
    <3> QED BY <3>3, <3>4
  <2>2. CASE k > u
    <3>1. PICK i \in 1 .. v : k = u + i
      <4>1. k - u \in 1 .. v /\ k = u + (k - u)
        BY <1>6, <2>2
      <4> QED BY <4>1
    <3>a. tt[k] = s[i] /\ s[i] = a + 2 * (i - 1) /\ s[i] <= l
      BY <1>3, <1>4, <1>6, <3>1
    <3>b. PICK d \in Nat : d = a + 2 * (i - 1) /\ d >= a
      <4>1. a + 2 * (i - 1) \in Nat /\ a + 2 * (i - 1) >= a
        OBVIOUS
      <4> QED BY <4>1
    <3>2. d = tt[k] /\ d <= l /\ d >= 3
      BY <1>2, <3>a, <3>b
    <3>3. ASSUME NEW p, IsPrime(p), Divides(p, d), p < d PROVE Before(tt, k, p)
      <4>0. p \in Nat /\ p > 1
        BY <3>3 DEF IsPrime
      <4>1. CASE p <= a
        <5>1. PICK jj \in 1 .. u : tt[jj] = p
          BY <1>2, <1>7, <3>3, <4>1
        <5>2. jj \in 1 .. k - 1
          BY <2>2
        <5> QED BY <5>1, <5>2 DEF Before
      <4>2. CASE p > a
        <5>1. p % 2 = 1
          BY <1>2, <3>3, <4>0, <4>2, OddPrime
        <5>a. p >= a /\ p <= l
          BY <3>2, <3>3, <4>0, <4>2
        <5>2. PICK jj \in 1 .. v : tt[u + jj] = p /\ p = a + 2 * (jj - 1)
          BY <1>8, <4>0, <5>1, <5>a, Zenon
        <5>3. jj < i
          BY <3>b, <3>3, <5>2
        <5>4. u + jj \in 1 .. k - 1
          BY <3>1, <5>3
        <5> QED BY <5>2, <5>4 DEF Before
      <4> QED BY <4>0, <4>1, <4>2
    <3> QED BY <3>2, <3>3
  <2> QED BY <1>4, <1>6, <2>1, <2>2
<1>11. TrialsOrdered(tt)
  BY <1>6, <1>10 DEF TrialsOrdered
<1> QED BY <1>1, <1>5, <1>9, <1>11

\* One trial after the other: what is left of n, and the factors found.
DivideBody(n, tt, f) ==
  [k \in 0 .. Len(tt) |->
     IF k = 0 THEN [number |-> n, parts |-> <<>>]
     ELSE LET acc == f[k - 1]
          IN  IF acc.number % tt[k] = 0
              THEN [number |-> Stripped(acc.number, tt[k]), parts |-> Append(acc.parts, tt[k])]
              ELSE acc]
HasDivide(n, tt) == \E f : f = DivideBody(n, tt, f)

Divided(n, tt, k, acc) ==
  /\ acc \in [number : Nat \ {0}, parts : Seq(Nat)]
  /\ Divides(acc.number, n)
  /\ \A i \in 1 .. Len(acc.parts) : acc.parts[i] > 1 /\ Divides(acc.parts[i], n)
  /\ \A p : IsPrime(p) /\ Divides(p, n) => Has(acc.parts, p) \/ Divides(p, acc.number)
  /\ \A jj \in 1 .. k : ~Divides(tt[jj], acc.number)

\* A trial that divides what is left is prime.
LEMMA FactorIsPrime ==
  ASSUME NEW tt, TrialsOrdered(tt), NEW q \in Nat \ {0}, NEW k \in 1 .. Len(tt), Divides(tt[k], q),
         \A jj \in 1 .. k - 1 : ~Divides(tt[jj], q)
  PROVE  IsPrime(tt[k])
<1>1. PICK d \in Nat : d = tt[k] /\ d > 1
  BY DEF TrialsOrdered
<1>2. PICK p : IsPrime(p) /\ Divides(p, d) /\ \A e \in Nat : e > 1 /\ Divides(e, d) => p <= e
  BY <1>1, LeastPrime DEF HasLeastPrime
<1>3. p \in Nat /\ p <= d
  BY <1>1, <1>2, DividesItself DEF IsPrime
<1>4. ASSUME p < d PROVE FALSE
  <2>1. Before(tt, k, p)
    BY <1>1, <1>2, <1>4 DEF TrialsOrdered
  <2>2. PICK jj \in 1 .. k - 1 : tt[jj] = p
    BY <2>1 DEF Before
  <2>3. Divides(p, q)
    BY <1>1, <1>2, <1>3, DividesTrans
  <2> QED BY <2>2, <2>3
<1>5. p = d
  BY <1>1, <1>3, <1>4
<1> QED BY <1>1, <1>2, <1>5

\* One trial keeps what has been reached.
LEMMA DividedOnce ==
  ASSUME NEW n \in Nat \ {0}, NEW tt, TrialsOrdered(tt), NEW k \in 1 .. Len(tt), NEW acc, Divided(n, tt, k - 1, acc)
  PROVE  Divided(n, tt, k, IF acc.number % tt[k] = 0
                          THEN [number |-> Stripped(acc.number, tt[k]), parts |-> Append(acc.parts, tt[k])]
                          ELSE acc)
<1>1. PICK d \in Nat : d = tt[k] /\ d > 1
  BY DEF TrialsOrdered
<1>2. PICK q \in Nat \ {0}, s \in Seq(Nat) : q = acc.number /\ s = acc.parts
  BY DEF Divided
<1>a. acc \in [number : Nat \ {0}, parts : Seq(Nat)] /\ Divides(q, n)
  BY <1>2 DEF Divided
<1>b. \A i \in 1 .. Len(s) : s[i] > 1 /\ Divides(s[i], n)
  BY <1>2 DEF Divided
<1>c. \A p : IsPrime(p) /\ Divides(p, n) => Has(s, p) \/ Divides(p, q)
  BY <1>2 DEF Divided
<1>d. \A jj \in 1 .. k - 1 : ~Divides(tt[jj], q)
  BY <1>2 DEF Divided
<1>e. \A jj \in 1 .. k : tt[jj] \in Nat /\ (jj = k \/ jj \in 1 .. k - 1)
  <2>1. k \in Nat /\ \A jj \in 1 .. k : jj \in 1 .. Len(tt)
    BY DEF TrialsOrdered
  <2> QED BY <2>1 DEF TrialsOrdered
<1>3. q % d = 0 <=> Divides(d, q)
  <2>1. d \in Nat \ {0} /\ q \in Int
    BY <1>1
  <2> QED BY <2>1, DividesRest
<1>4. CASE ~Divides(d, q)
  <2>1. \A jj \in 1 .. k : ~Divides(tt[jj], q)
    BY <1>1, <1>4, <1>d, <1>e
  <2>2. Divided(n, tt, k, acc)
    BY <1>2, <1>a, <1>b, <1>c, <2>1, Zenon DEF Divided
  <2> QED BY <1>1, <1>2, <1>3, <1>4, <2>2
<1>5. CASE Divides(d, q)
  <2>1. IsPrime(d)
    BY <1>1, <1>5, <1>d, FactorIsPrime
  <2>2. PICK r \in Nat \ {0} : /\ r = Stripped(q, d) /\ Divides(r, q) /\ ~Divides(d, r)
                               /\ \A p : IsPrime(p) /\ Divides(p, q) => Divides(p, r) \/ Divides(p, d)
    <3>1. IsStripped(Stripped(q, d), q, d)
      BY <1>1, StrippedIs
    <3> QED BY <3>1 DEF IsStripped
  <2>3. PICK l : l = Append(s, d)
    OBVIOUS
  <2>4. PICK z \in Nat : z = Len(s)
    OBVIOUS
  <2>5. l \in Seq(Nat) /\ Len(l) = z + 1 /\ l[z + 1] = d /\ \A i \in 1 .. z : l[i] = s[i]
    BY <2>3, <2>4
  <2>6. PICK new : new = [number |-> r, parts |-> l]
    OBVIOUS
  <2>7. new \in [number : Nat \ {0}, parts : Seq(Nat)] /\ new.number = r /\ new.parts = l
    BY <2>5, <2>6
  <2>8. Divides(r, n)
    BY <1>2, <1>a, <2>2, DividesTrans
  <2>9. ASSUME NEW i \in 1 .. Len(l) PROVE l[i] > 1 /\ Divides(l[i], n)
    <3>1. CASE i = z + 1
      <4>1. Divides(d, n)
        BY <1>1, <1>2, <1>5, <1>a, DividesTrans
      <4> QED BY <1>1, <2>5, <3>1, <4>1
    <3>2. CASE i # z + 1
      <4>1. i \in 1 .. z
        BY <2>5, <3>2
      <4> QED BY <1>b, <2>4, <2>5, <4>1
    <3> QED BY <3>1, <3>2
  <2>10. ASSUME NEW p, IsPrime(p), Divides(p, n) PROVE Has(l, p) \/ Divides(p, r)
    <3>1. CASE Has(s, p)
      <4>1. PICK jj \in 1 .. z : s[jj] = p
        BY <2>4, <3>1 DEF Has
      <4>2. jj \in 1 .. Len(l) /\ l[jj] = p
        BY <2>5, <4>1
      <4> QED BY <4>2 DEF Has
    <3>2. CASE Divides(p, d)
      <4>1. p = d
        BY <2>1, <2>10, <3>2 DEF IsPrime
      <4>2. z + 1 \in 1 .. Len(l)
        BY <2>5
      <4> QED BY <2>5, <4>1, <4>2 DEF Has
    <3> QED BY <1>c, <2>2, <2>10, <3>1, <3>2
  <2>11. ASSUME NEW jj \in 1 .. k PROVE ~Divides(tt[jj], r)
    <3>1. CASE jj = k
      BY <1>1, <2>2, <3>1
    <3>2. CASE jj # k
      <4>1. ~Divides(tt[jj], q) /\ tt[jj] \in Int /\ r \in Int /\ q \in Int
        BY <1>d, <1>e, <3>2
      <4> QED BY <2>2, <4>1, DividesTrans
    <3> QED BY <3>1, <3>2
  <2>12. Divided(n, tt, k, new)
    BY <2>7, <2>8, <2>9, <2>10, <2>11, Zenon DEF Divided
  <2> QED BY <1>1, <1>2, <1>3, <1>5, <2>2, <2>3, <2>6, <2>12
<1> QED BY <1>4, <1>5

\* The recursion over the trials has a solution.
LEMMA DivideExists ==
  ASSUME NEW n \in Nat \ {0}, NEW tt, TrialsOrdered(tt)
  PROVE  HasDivide(n, tt)
<1> DEFINE A == [number : Nat \ {0}, parts : Seq(Nat)]
           next(k, acc) == IF acc.number % tt[k] = 0
                           THEN [number |-> Stripped(acc.number, tt[k]), parts |-> Append(acc.parts, tt[k])]
                           ELSE acc
           b == [number |-> n, parts |-> <<>>]
<1>1. PICK m \in Nat : m = Len(tt)
  BY DEF TrialsOrdered
<1> DEFINE G == [k \in 1 .. m |-> [acc \in A |-> next(k, acc)]]
<1>2. ASSUME NEW k \in 1 .. m, NEW acc \in A PROVE next(k, acc) \in A
  <2>1. PICK d \in Nat : d = tt[k] /\ d > 1
    BY <1>1 DEF TrialsOrdered
  <2>2. Stripped(acc.number, d) \in Nat \ {0}
    <3>1. acc.number \in Nat \ {0}
      OBVIOUS
    <3> QED BY <2>1, <3>1, StrippedIs DEF IsStripped
  <2>3. Append(acc.parts, d) \in Seq(Nat)
    OBVIOUS
  <2> QED BY <2>1, <2>2, <2>3
<1>3. b \in A
  OBVIOUS
<1>4. G \in [1 .. m -> [A -> A]] /\ \A k \in 1 .. m : \A acc \in A : G[k][acc] = next(k, acc)
  <2> HIDE DEF next, A
  <2> QED BY <1>2
<1>5. PICK f : Follows(f, m, A, b, G)
  <2> HIDE DEF A, b, G
  <2> QED BY <1>3, <1>4, Recursion
<1>6. f \in [0 .. m -> A] /\ f[0] = b /\ \A k \in 1 .. m : f[k] = G[k][f[k - 1]]
  BY <1>5 DEF Follows
<1> HIDE DEF G
<1>7. ASSUME NEW k \in 0 .. m PROVE f[k] = IF k = 0 THEN b ELSE next(k, f[k - 1])
  <2>1. CASE k = 0
    BY <1>6, <2>1, Zenon
  <2>2. CASE k # 0
    <3>1. k \in 1 .. m /\ k - 1 \in 0 .. m
      BY <2>2
    <3>2. f[k - 1] \in A
      BY <1>6, <3>1
    <3> HIDE DEF A, next
    <3> QED BY <1>4, <1>6, <2>2, <3>1, <3>2, Zenon
  <2> QED BY <2>1, <2>2
<1>8. f = [k \in 0 .. m |-> f[k]]
  BY <1>6
<1>9. f = [k \in 0 .. m |-> IF k = 0 THEN b ELSE next(k, f[k - 1])]
  <2> HIDE DEF b, next
  <2> QED BY <1>7, <1>8
<1>10. f = DivideBody(n, tt, f)
  BY <1>1, <1>9, Zenon DEF DivideBody
<1> QED BY <1>10 DEF HasDivide

\* All trials have been made.
LEMMA AllDivided ==
  ASSUME NEW n \in Nat \ {0}, NEW tt, TrialsOrdered(tt), NEW f, f = DivideBody(n, tt, f)
  PROVE  Divided(n, tt, Len(tt), f[Len(tt)])
<1>1. PICK m \in Nat : m = Len(tt)
  BY DEF TrialsOrdered
<1> DEFINE T == {k \in 0 .. m : Divided(n, tt, k, f[k])}
<1>2. \A k \in 0 .. m : f[k] = IF k = 0 THEN [number |-> n, parts |-> <<>>]
        ELSE IF f[k - 1].number % tt[k] = 0
             THEN [number |-> Stripped(f[k - 1].number, tt[k]), parts |-> Append(f[k - 1].parts, tt[k])]
             ELSE f[k - 1]
  BY <1>1, Zenon DEF DivideBody
<1>3. 0 \in T
  <2>1. f[0] = [number |-> n, parts |-> <<>>]
    <3>1. 0 \in 0 .. m
      OBVIOUS
    <3> QED BY <1>2, <3>1, Zenon
  <2>2. Divides(n, n)
    BY DividesItself
  <2>3. Divided(n, tt, 0, f[0])
    BY <2>1, <2>2 DEF Divided
  <2> QED BY <2>3
<1>4. ASSUME NEW k \in 1 .. m, k - 1 \in T PROVE k \in T
  <2>1. Divided(n, tt, k - 1, f[k - 1]) /\ k \in 0 .. m /\ k # 0 /\ k \in 1 .. Len(tt)
    BY <1>1, <1>4
  <2>2. Divided(n, tt, k, f[k])
    BY <1>2, <2>1, DividedOnce, Zenon
  <2> QED BY <2>1, <2>2
<1>5. m \in T
  <2>1. m \in 0 .. m
    OBVIOUS
  <2> HIDE DEF T
  <2> QED BY <1>3, <1>4, <2>1, Induction, Zenon
<1> QED BY <1>1, <1>5

\* The factors: divisors greater than one, and among them all prime factors.
AllFactors(s, n) ==
  /\ s \in Seq(Nat)
  /\ \A i \in 1 .. Len(s) : s[i] > 1 /\ Divides(s[i], n)
  /\ \A p : IsPrime(p) /\ Divides(p, n) => Has(s, p)

\* The factors of n that are found are all its prime factors.
LEMMA PartsAre ==
  ASSUME NEW primes, IsTable(primes), NEW n \in Nat \ {0}
  PROVE  AllFactors(Parts(primes, n), n)
<1> DEFINE tt == primes \o OddsFrom(Last(primes), Limit(n))
           f == CHOOSE g : g = DivideBody(n, tt, g)
<1>2. TrialsOrdered(tt) /\ \A p : IsPrime(p) /\ p <= Limit(n) => Has(tt, p)
  <2>1. tt = Trials(primes, n)
    BY Zenon DEF Trials
  <2> HIDE DEF tt
  <2> QED BY <2>1, TrialsAre
<1>4. Parts(primes, n) = IF f[Len(tt)].number > 1 THEN Append(f[Len(tt)].parts, f[Len(tt)].number) ELSE f[Len(tt)].parts
  BY Zenon DEF Parts, DivideBody
<1> HIDE DEF tt
<1>3. f = DivideBody(n, tt, f)
  BY <1>2, DivideExists, Zenon DEF HasDivide
<1> HIDE DEF f
<1>5. PICK acc : acc = f[Len(tt)] /\ Divided(n, tt, Len(tt), acc)
  BY <1>2, <1>3, AllDivided
<1>6. PICK q \in Nat \ {0}, s \in Seq(Nat) : q = acc.number /\ s = acc.parts
  BY <1>5 DEF Divided
<1>a. Divides(q, n)
  BY <1>5, <1>6 DEF Divided
<1>b. \A i \in 1 .. Len(s) : s[i] > 1 /\ Divides(s[i], n)
  BY <1>5, <1>6 DEF Divided
<1>c. \A p : IsPrime(p) /\ Divides(p, n) => Has(s, p) \/ Divides(p, q)
  BY <1>5, <1>6 DEF Divided
<1>d. \A p : Has(tt, p) => ~Divides(p, q)
  BY <1>5, <1>6 DEF Divided, Has
<1>7. CASE q > 1
  <2>1. IsPrime(q)
    <3>1. SUFFICES ASSUME ~IsPrime(q) PROVE FALSE
      OBVIOUS
    <3>2. q <= n
      BY <1>a, DividesSize
    <3>3. PICK p : IsPrime(p) /\ Divides(p, q) /\ p < q /\ p < Limit(n)
      BY <1>7, <3>1, <3>2, SmallFactor
    <3>4. p <= Limit(n)
      <4>1. PICK r : IsRoot(n, r) /\ Limit(n) = r + 1
        BY LimitIs
      <4> QED BY <3>3, <4>1 DEF IsRoot, IsPrime
    <3> QED BY <1>2, <1>d, <3>3, <3>4
  <2>2. PICK l : l = Append(s, q)
    OBVIOUS
  <2>3. PICK z \in Nat : z = Len(s)
    OBVIOUS
  <2>4. l \in Seq(Nat) /\ Len(l) = z + 1 /\ l[z + 1] = q /\ \A i \in 1 .. z : l[i] = s[i]
    BY <2>2, <2>3
  <2>5. ASSUME NEW i \in 1 .. Len(l) PROVE l[i] > 1 /\ Divides(l[i], n)
    <3>1. CASE i = z + 1
      BY <1>7, <1>a, <2>4, <3>1
    <3>2. CASE i # z + 1
      <4>1. i \in 1 .. z
        BY <2>4, <3>2
      <4> QED BY <1>b, <2>3, <2>4, <4>1
    <3> QED BY <3>1, <3>2
  <2>6. ASSUME NEW p, IsPrime(p), Divides(p, n) PROVE Has(l, p)
    <3>1. CASE Has(s, p)
      <4>1. PICK jj \in 1 .. z : s[jj] = p
        BY <2>3, <3>1 DEF Has
      <4>2. jj \in 1 .. Len(l) /\ l[jj] = p
        BY <2>4, <4>1
      <4> QED BY <4>2 DEF Has
    <3>2. CASE Divides(p, q)
      <4>1. p = q
        BY <2>1, <2>6, <3>2 DEF IsPrime
      <4>2. z + 1 \in 1 .. Len(l)
        BY <2>4
      <4> QED BY <2>4, <4>1, <4>2 DEF Has
    <3> QED BY <1>c, <2>6, <3>1, <3>2
  <2>7. AllFactors(l, n)
    BY <2>4, <2>5, <2>6 DEF AllFactors
  <2> QED BY <1>4, <1>5, <1>6, <1>7, <2>2, <2>7
<1>8. CASE ~(q > 1)
  <2>1. q = 1
    BY <1>8
  <2>2. ASSUME NEW p, IsPrime(p) PROVE ~Divides(p, 1)
    <3>1. p \in Nat /\ p > 1 /\ 1 \in Nat \ {0}
      BY <2>2 DEF IsPrime
    <3> QED BY <3>1, DividesSize
  <2>3. AllFactors(s, n)
    BY <1>b, <1>c, <2>1, <2>2 DEF AllFactors
  <2> QED BY <1>4, <1>5, <1>6, <1>8, <2>3
<1> QED BY <1>7, <1>8
----------------------------------------------------------------------------
\* What _random_init() looks for in a multiplier: its powers are all residues but 0.
IsMultiplier(a, m) ==
  a \in 2 .. m - 1 /\ \E P : IsPowers(P, a, m) /\ IsPrimitive(P, m)

\* A multiplier that is found is a primitive root.
LEMMA MultiplierIs ==
  ASSUME NEW m, IsPrime(m), NEW s, AllFactors(s, m - 1), Multiplier(m, s) # 0
  PROVE  IsMultiplier(Multiplier(m, s), m)
<1>0. m \in Nat /\ m > 1 /\ m \in Nat \ {0} /\ m - 1 \in Nat \ {0}
  BY DEF IsPrime
<1> DEFINE good == {i \in DOMAIN s : m \div 2 # s[i] /\ s[i] * s[i] > m /\ isprimitiveroot(s[i], m, s)}
<1>1. Multiplier(m, s) = IF good = {} THEN 0 ELSE s[Min(good)]
  BY Zenon DEF Multiplier
<1>2. good \in SUBSET (1 .. Len(s)) /\ s \in Seq(Nat) /\ DOMAIN s = 1 .. Len(s)
  BY DEF AllFactors
<1>3. \A i \in good : isprimitiveroot(s[i], m, s)
  OBVIOUS
<1> HIDE DEF good
<1>4. PICK i \in 1 .. Len(s) : Multiplier(m, s) = s[i] /\ isprimitiveroot(s[i], m, s)
  <2>1. good # {} /\ good \in SUBSET Nat
    BY <1>1, <1>2
  <2>2. Min(good) \in good
    BY <2>1, LeastIs
  <2> QED BY <1>1, <1>2, <1>3, <2>1, <2>2
<1>5. PICK a \in Nat : a = s[i] /\ a > 1 /\ Divides(a, m - 1)
  BY <1>2 DEF AllFactors
<1>6. a \in 2 .. m - 1 /\ a \in 1 .. m - 1 /\ a \in Int
  <2>1. a <= m - 1
    BY <1>0, <1>5, DividesSize
  <2> QED BY <1>0, <1>5, <2>1
<1>7. \A jj \in 1 .. Len(s) : potenz(a, (m - 1) \div s[jj], m) # 1
  BY <1>2, <1>4, <1>5 DEF isprimitiveroot
<1>8. PICK P : IsPowers(P, a, m)
  BY <1>0, <1>6, PowersExist DEF HasPowers
<1>9. ASSUME NEW p \in Nat, IsPrime(p), Divides(p, m - 1) PROVE P[(m - 1) \div p] # 1
  <2>1. PICK jj \in 1 .. Len(s) : s[jj] = p
    BY <1>9 DEF AllFactors, Has
  <2>2. (m - 1) \div p \in Nat
    <3>1. PICK q \in Nat \ {0} : q = m - 1
      BY <1>0
    <3>2. p > 1 /\ p \in Nat \ {0} /\ q \in Int
      BY <1>9 DEF IsPrime
    <3>3. q % p = 0
      BY <1>9, <3>1, <3>2, DividesRest
    <3>4. q \div p \in 1 .. q - 1
      BY <3>2, <3>3, StripDown
    <3> QED BY <3>1, <3>4
  <2>3. potenz(a, (m - 1) \div p, m) = P[(m - 1) \div p]
    BY <1>0, <1>6, <1>8, <2>2, PotenzIs
  <2> QED BY <1>7, <2>1, <2>3
<1>10. \A k \in Nat \ {0} : P[k] = 1 => k >= m - 1
  <2>1. \A p \in Nat : IsPrime(p) /\ Divides(p, m - 1) => P[(m - 1) \div p] # 1
    BY <1>9
  <2> QED BY <1>6, <1>8, <2>1, PrimitiveRoot
<1>11. IsPrimitive(P, m)
  BY <1>10 DEF IsPrimitive
<1> QED BY <1>4, <1>5, <1>6, <1>8, <1>11 DEF IsMultiplier

\* The increment is a number, and the fixpoint is one.
LEMMA IncrementIs ==
  ASSUME NEW m \in Nat, m >= 3, NEW start \in Nat
  PROVE  Increment(m, start) \in Int
<1>1. PICK h \in Nat \ {0} : h = m \div 2
  OBVIOUS
<1>2. start % h \in Int
  BY <1>1, RestOf
<1>3. m \div 4 \in Int
  OBVIOUS
<1>4. PICK n \in Int : n = (start % (m \div 2)) + (m \div 4)
  BY <1>1, <1>2, <1>3
<1> QED BY <1>4 DEF Increment, Odd

\* A fixpoint that is found is a residue that leads to itself.
LEMMA FixpointIs ==
  ASSUME NEW m \in Nat \ {0}, NEW a \in 2 .. m - 1, NEW b \in Int, Fixpoint(m, a, b) # 0
  PROVE  Fixpoint(m, a, b) \in 1 .. m - 1 /\ (Fixpoint(m, a, b) * a + b) % m = Fixpoint(m, a, b)
<1> DEFINE f(x) == (x * m - b) \div (a - 1)
           hits == {x \in 1 .. a : f(x) = (f(x) * a + b) % m}
<1>1. Fixpoint(m, a, b) = IF a = 0 \/ hits = {} THEN 0 ELSE f(Min(hits))
  BY Zenon DEF Fixpoint
<1>2. hits \in SUBSET Nat /\ \A x \in hits : x \in 1 .. a /\ f(x) = (f(x) * a + b) % m
  <2>1. hits \in SUBSET (1 .. a)
    OBVIOUS
  <2>2. 1 .. a \in SUBSET Nat
    OBVIOUS
  <2>3. \A x \in hits : x \in 1 .. a /\ f(x) = (f(x) * a + b) % m
    BY Zenon
  <2> HIDE DEF hits
  <2> QED BY <2>1, <2>2, <2>3
<1>3. a # 0 /\ a - 1 \in Nat \ {0}
  OBVIOUS
<1> HIDE DEF hits
<1>4. hits # {}
  BY <1>1
<1>5. PICK x \in hits : x = Min(hits)
  BY <1>2, <1>4, LeastIs
<1>6. f(x) \in Int
  <2>1. x \in Int
    BY <1>2
  <2>2. PICK y \in Int, c \in Nat \ {0} : y = x * m - b /\ c = a - 1
    <3>1. x * m \in Int
      BY <2>1
    <3>2. x * m - b \in Int
      BY <3>1
    <3> QED BY <1>3, <3>2
  <2>3. y \div c \in Int
    BY <2>2, Division
  <2> QED BY <2>2, <2>3
<1>7. PICK fix \in Int : fix = f(x)
  BY <1>6
<1>8. fix = Fixpoint(m, a, b)
  BY <1>1, <1>3, <1>4, <1>5, <1>7, Zenon
<1>9. fix = (fix * a + b) % m
  BY <1>2, <1>7, Zenon
<1>10. fix \in 0 .. m - 1
  <2>1. PICK y \in Int : y = fix * a + b
    OBVIOUS
  <2>2. y % m \in 0 .. m - 1
    BY <2>1, RestOf
  <2> QED BY <1>9, <2>1, <2>2
<1>11. fix # 0
  BY <1>8
<1>12. fix \in 1 .. m - 1
  <2> HIDE DEF f
  <2> QED BY <1>10, <1>11
<1> QED BY <1>8, <1>9, <1>12, Zenon

\* What the search takes for its modulus, and what it has found then.
Accepted(primes, m, start) ==
  LET p == Parameters(primes, m, start)
  IN  isprime(primes, Len(primes), m) /\ p.a * p.a >= m /\ p.fix # 0

IsLinearGenerator(p) ==
  /\ IsPrime(p.m) /\ IsMultiplier(p.a, p.m) /\ p.b \in Int
  /\ p.fix \in 1 .. p.m - 1 /\ (p.fix * p.a + p.b) % p.m = p.fix

\* The parameters of an accepted modulus are those of a full period.
LEMMA AcceptedIs ==
  ASSUME NEW primes, IsTable(primes), NEW start \in Nat, NEW m \in Nat, m >= 3, Accepted(primes, m, start)
  PROVE  IsLinearGenerator(Parameters(primes, m, start)) /\ Parameters(primes, m, start).m = m
<1>1. PICK a, b, fix : /\ a = Multiplier(m, Parts(primes, m - 1)) /\ b = Increment(m, start)
                       /\ fix = Fixpoint(m, a, b)
  OBVIOUS
<1>2. PICK p : p = Parameters(primes, m, start)
  OBVIOUS
<1>3. p = [m |-> m, a |-> a, b |-> b, fix |-> fix]
  BY <1>1, <1>2, Zenon DEF Parameters
<1>4. p.m = m /\ p.a = a /\ p.b = b /\ p.fix = fix
  BY <1>3
<1>5. isprime(primes, Len(primes), m) /\ a * a >= m /\ fix # 0
  <2>1. isprime(primes, Len(primes), m) /\ p.a * p.a >= m /\ p.fix # 0
    BY <1>2, Zenon DEF Accepted
  <2> QED BY <1>4, <2>1
<1>6. IsPrime(m)
  <2>1. ~(Len(primes) < Len(primes))
    BY DEF IsTable
  <2> QED BY <1>5, <2>1, IsPrimeSound
<1>7. a # 0
  <2>1. a = 0 => a * a = 0
    OBVIOUS
  <2> QED BY <1>5, <2>1
<1>8. IsMultiplier(a, m)
  <2>1. m - 1 \in Nat \ {0}
    OBVIOUS
  <2>2. AllFactors(Parts(primes, m - 1), m - 1)
    BY <2>1, PartsAre
  <2> QED BY <1>1, <1>6, <1>7, <2>2, MultiplierIs
<1>9. b \in Int
  BY <1>1, IncrementIs
<1>10. a \in 2 .. m - 1 /\ m \in Nat \ {0}
  BY <1>8 DEF IsMultiplier
<1>11. fix \in 1 .. m - 1 /\ (fix * a + b) % m = fix
  BY <1>1, <1>5, <1>9, <1>10, FixpointIs
<1> QED BY <1>2, <1>4, <1>6, <1>8, <1>9, <1>11 DEF IsLinearGenerator

\* Such a generator, with a modulus above max, runs through all residues but the
\* fixpoint.
LEMMA LinearGenerator ==
  ASSUME NEW r, IsLinearGenerator(r), r.max \in Nat \ {0}, r.max < r.m
  PROVE  IsGenerator(r)
<1>1. PICK m, a, b, fix : m = r.m /\ a = r.a /\ b = r.b /\ fix = r.fix
  OBVIOUS
<1>2. IsPrime(m) /\ b \in Int /\ fix \in 1 .. m - 1 /\ (fix * a + b) % m = fix /\ IsMultiplier(a, m)
  BY <1>1 DEF IsLinearGenerator
<1>3. m \in Nat /\ m > 1 /\ m \in Nat \ {0} /\ a \in 1 .. m - 1 /\ a \in Int /\ fix \in 0 .. m - 1
  BY <1>2 DEF IsPrime, IsMultiplier
<1>4. PICK P : IsPowers(P, a, m) /\ IsPrimitive(P, m)
  BY <1>2 DEF IsMultiplier
<1> DEFINE M == (0 .. m - 1) \ {fix}
           s == [x \in M |-> (x * a + b) % m]
<1>5. Moving(r) = M /\ StepOf(r) = s
  BY <1>1, Zenon DEF Moving, StepOf
<1>6. ASSUME NEW x \in M PROVE (x * a + b) % m \in M
  <2>1. x \in 0 .. m - 1 /\ x # fix
    OBVIOUS
  <2>2. PICK y \in Int : y = x * a + b
    BY <1>2, <1>3, <2>1
  <2>3. y % m \in 0 .. m - 1
    BY <1>3, <2>2, RestOf
  <2>4. (x * a + b) % m # fix
    BY <1>2, <1>3, <2>1, NotToFixpoint
  <2> QED BY <2>2, <2>3, <2>4
<1>7. s \in [M -> M]
  <2> HIDE DEF M
  <2> QED BY <1>6
<1>8. ASSUME NEW o, Orbit(o, r) PROVE Returns(o, m - 1)
  <2>1. o \in [Nat -> M] /\ \A k \in Nat : o[k + 1] = s[o[k]]
    <3> HIDE DEF M, s
    <3> QED BY <1>5, <1>8 DEF Orbit
  <2>2. \A k \in Nat : o[k + 1] = (o[k] * a + b) % m
    <3>1. \A k \in Nat : o[k] \in M
      BY <2>1
    <3> HIDE DEF M
    <3> QED BY <2>1, <3>1, Zenon
  <2>3. IsLinear(o, m, a, b, fix)
    BY <2>1, <2>2, Zenon DEF IsLinear
  <2> QED BY <1>2, <1>3, <1>4, <2>3, FullPeriod
<1>9. r.m \in Nat /\ r.a \in Int /\ r.b \in Int /\ r.fix \in 1 .. r.m - 1
  BY <1>1, <1>2, <1>3
<1>10. (r.fix * r.a + r.b) % r.m = r.fix
  BY <1>1, <1>2, Zenon
<1>11. StepOf(r) \in [Moving(r) -> Moving(r)]
  BY <1>5, <1>7, Zenon
<1>12. \A o : Orbit(o, r) => Returns(o, r.m - 1)
  BY <1>1, <1>8
<1> QED BY <1>9, <1>10, <1>11, <1>12 DEF IsGenerator

\* The first number looked at, and that the search of _random_init() comes to an end:
\* some number from there on is accepted.
SearchFrom(max) ==
  LET primes   == Table(max)
      looked == IF Len(primes) > Max({Len(p_list), 2}) THEN Last(primes) ELSE 3
  IN  IF looked <= max THEN Odd(max + 1) ELSE looked
SearchEnds(start, max) == \E k \in Nat : Accepted(Table(max), SearchFrom(max) + 2 * k, start)

\* The search begins above max.
LEMMA SearchFromIs ==
  ASSUME TableInv, NEW max \in Nat \ {0}
  PROVE  SearchFrom(max) \in Nat /\ SearchFrom(max) > max /\ SearchFrom(max) >= 3
<1>1. PICK a \in Nat : a = Last(Table(max)) /\ a >= 3
  BY TableIs, LastOf
<1>2. PICK looked \in Nat : looked = (IF Len(Table(max)) > Max({Len(p_list), 2}) THEN Last(Table(max)) ELSE 3)
                            /\ looked >= 3
  BY <1>1
<1>3. SearchFrom(max) = IF looked <= max THEN Odd(max + 1) ELSE looked
  BY <1>2, Zenon DEF SearchFrom
<1>4. Odd(max + 1) \in Nat /\ Odd(max + 1) >= max + 1
  BY DEF Odd
<1> QED BY <1>2, <1>3, <1>4

\* What the recursion of the model finds when there is something to find.
SearchBody(primes, start, f) ==
  [m \in Nat |->
     LET p == Parameters(primes, m, start)
     IN  IF isprime(primes, Len(primes), m) /\ p.a * p.a >= m /\ p.fix # 0 THEN p ELSE f[m + 2]]

\* When some number is accepted the search returns the parameters of one.
LEMMA SearchIs ==
  ASSUME NEW primes, NEW start, NEW f, f = CHOOSE g : g = SearchBody(primes, start, g),
         NEW from \in Nat, NEW k \in Nat, Accepted(primes, from + 2 * k, start)
  PROVE  \E m \in Nat : m >= from /\ Accepted(primes, m, start) /\ f[from] = Parameters(primes, m, start)
<1> DEFINE T == {m \in Nat : Accepted(primes, m, start)}
           h == [m \in Nat |-> Parameters(primes, m, start)]
<1>1. PICK g : IsSearch(g, T, h)
  BY SearchExists DEF HasSearch
<1>2. ASSUME NEW e PROVE SearchBody(primes, start, e) = [m \in Nat |-> IF m \in T THEN h[m] ELSE e[m + 2]]
  <2>1. ASSUME NEW m \in Nat
        PROVE  (LET p == Parameters(primes, m, start)
                IN  IF isprime(primes, Len(primes), m) /\ p.a * p.a >= m /\ p.fix # 0 THEN p ELSE e[m + 2])
               = IF m \in T THEN h[m] ELSE e[m + 2]
    <3>1. m \in T <=> Accepted(primes, m, start)
      OBVIOUS
    <3>2. h[m] = Parameters(primes, m, start)
      OBVIOUS
    <3> HIDE DEF T, h
    <3> QED BY <3>1, <3>2, Zenon DEF Accepted
  <2> HIDE DEF T, h
  <2> QED BY <2>1, Zenon DEF SearchBody
<1>3. g = SearchBody(primes, start, g)
  <2> HIDE DEF T, h
  <2> QED BY <1>1, <1>2, Zenon DEF IsSearch
<1>4. f = SearchBody(primes, start, f)
  BY <1>3, Zenon
<1>5. IsSearch(f, T, h)
  <2> HIDE DEF T, h
  <2> QED BY <1>2, <1>4, Zenon DEF IsSearch
<1>6. from + 2 * k \in T
  OBVIOUS
<1>7. FoundBehind(f, T, h, from)
  <2> HIDE DEF T, h
  <2> QED BY <1>5, <1>6, SearchFinds
<1>8. PICK jj \in Nat : from + 2 * jj \in T /\ f[from] = h[from + 2 * jj]
  BY <1>7 DEF FoundBehind
<1>9. PICK m \in Nat : m = from + 2 * jj /\ m >= from
  <2>1. from + 2 * jj \in Nat /\ from + 2 * jj >= from
    OBVIOUS
  <2> QED BY <2>1
<1>10. m \in T /\ f[from] = h[m]
  BY <1>8, <1>9
<1>11. Accepted(primes, m, start) /\ f[from] = Parameters(primes, m, start)
  BY <1>10
<1> QED BY <1>9, <1>11

\* The generator is always one that runs through all residues but its fixpoint.
GeneratorInv == RandomInv /\ TableInv /\ (rand.max > 0 => IsGenerator(rand))

\* It holds at the start,
LEMMA GeneratorStart == RandomStart => GeneratorInv
<1> SUFFICES ASSUME RandomStart PROVE GeneratorInv
  OBVIOUS
<1>1. rand.max = 0 /\ p_list = <<>>
  BY DEF RandomStart
<1> QED BY <1>1, RandomStartInv DEF GeneratorInv, TableInv

\* _random_init() keeps it when its search ends,
LEMMA GeneratorInit ==
  ASSUME NEW start \in Nat, NEW max \in Nat, max > 0 => SearchEnds(start, max),
         GeneratorInv, random_init(start, max)
  PROVE  GeneratorInv' /\ rand'.max = max /\ drawn' = <<>>
<1>1. RandomInv'
  BY RandomInitInv DEF GeneratorInv
<1>2. drawn' = <<>>
  BY DEF random_init
<1>3. CASE max = 0
  <2>1. rand' = [rand EXCEPT !.max = 0] /\ IsParameters(rand) /\ p_list' = p_list
    BY <1>3 DEF random_init, RandomInv, GeneratorInv
  <2>2. PICK x, m, a, b, fix, v :
          rand = [max |-> x, m |-> m, a |-> a, b |-> b, fix |-> fix, value |-> v]
    BY <2>1 DEF IsParameters
  <2>3. rand'.max = 0
    BY <2>1, <2>2
  <2> QED BY <1>1, <1>2, <1>3, <2>1, <2>3 DEF GeneratorInv, TableInv
<1>4. CASE max # 0
  <2>0. max \in Nat \ {0} /\ SearchEnds(start, max) /\ TableInv
    BY <1>4 DEF GeneratorInv
  <2>1. PICK primes : primes = Table(max)
    OBVIOUS
  <2>2. IsTable(primes)
    BY <2>0, <2>1, TableIs
  <2>3. PICK from \in Nat : from = SearchFrom(max) /\ from > max /\ from >= 3
    BY <2>0, SearchFromIs
  <2> DEFINE f == CHOOSE g : g = SearchBody(Table(max), start, g)
  <2>4. /\ rand' = [max |-> max, m |-> f[SearchFrom(max)].m, a |-> f[SearchFrom(max)].a,
                    b |-> f[SearchFrom(max)].b, fix |-> f[SearchFrom(max)].fix,
                    value |-> IF start % f[SearchFrom(max)].m = f[SearchFrom(max)].fix THEN 0
                              ELSE start % f[SearchFrom(max)].m]
        /\ p_list' = primes
    BY <1>4, <2>1, Zenon DEF random_init, SearchFrom, SearchBody
  <2>5. PICK p : p = f[from]
    OBVIOUS
  <2>6. PICK m \in Nat : m >= from /\ Accepted(primes, m, start) /\ p = Parameters(primes, m, start)
    <3>1. PICK k \in Nat : Accepted(primes, from + 2 * k, start)
      BY <2>0, <2>1, <2>3 DEF SearchEnds
    <3>2. f = CHOOSE g : g = SearchBody(primes, start, g)
      BY <2>1
    <3> HIDE DEF f
    <3> QED BY <2>5, <3>1, <3>2, SearchIs
  <2>7. IsLinearGenerator(p) /\ p.m = m
    BY <2>2, <2>3, <2>6, AcceptedIs
  <2>8. PICK v : rand' = [max |-> max, m |-> p.m, a |-> p.a, b |-> p.b, fix |-> p.fix, value |-> v]
    <3> HIDE DEF f
    <3> QED BY <2>3, <2>4, <2>5, Zenon
  <2>9. rand'.max = max /\ rand'.m = p.m /\ rand'.a = p.a /\ rand'.b = p.b /\ rand'.fix = p.fix
    BY <2>8
  <2>10. IsLinearGenerator(rand')
    BY <2>7, <2>9 DEF IsLinearGenerator
  <2>11. rand'.max \in Nat \ {0} /\ rand'.max < rand'.m
    BY <2>0, <2>3, <2>6, <2>7, <2>9
  <2>12. IsGenerator(rand')
    BY <2>10, <2>11, LinearGenerator
  <2> QED BY <1>1, <1>2, <2>2, <2>4, <2>9, <2>12 DEF GeneratorInv, TableInv
<1> QED BY <1>3, <1>4

\* _random() keeps it,
LEMMA GeneratorNext ==
  ASSUME GeneratorInv, random
  PROVE  GeneratorInv' /\ rand'.max = rand.max
<1>1. RandomInv' /\ IsParameters(rand)
  BY RandomNextInv DEF GeneratorInv, RandomInv
<1>2. /\ rand'.max = rand.max
      /\ IsGenerator(rand') <=> IsGenerator(rand)
  <2>1. CASE rand.max = 0
    BY <2>1 DEF random
  <2>2. CASE rand.max # 0
    <3>1. PICK v : v = NextValue
      OBVIOUS
    <3>2. rand' = [rand EXCEPT !.value = v]
      BY <2>2, <3>1 DEF random
    <3>3. /\ rand'.max = rand.max /\ rand'.m = rand.m /\ rand'.a = rand.a
          /\ rand'.b = rand.b /\ rand'.fix = rand.fix
      BY <1>1, <3>2, ValueSet, Zenon
    <3> QED BY <3>3, SameParameters
  <2> QED BY <2>1, <2>2
<1>3. p_list' = p_list
  BY DEF random
<1> QED BY <1>1, <1>2, <1>3 DEF GeneratorInv, TableInv

\* and so does whoever leaves the generator alone.
LEMMA GeneratorStays ==
  ASSUME GeneratorInv, UNCHANGED randVars
  PROVE  GeneratorInv'
<1>1. rand' = rand /\ p_list' = p_list /\ drawn' = drawn
  BY DEF randVars
<1> QED BY <1>1 DEF GeneratorInv, RandomInv, TableInv

\* It is what the permutation needs.
LEMMA GeneratorOnce == GeneratorInv => EachNumberOnce
BY RandomOnce DEF GeneratorInv
----------------------------------------------------------------------------
\* What _work() takes for granted of the alignment: blocks are not larger than the pages
\* of one loop over the chain.
BlocksFit == \A s \in SETUPS : s.ALIGNMENT <= UNROLL * PAGE

\* The smaller of two numbers.
LEMMA MinOfTwo ==
  ASSUME NEW a \in Int, NEW b \in Int
  PROVE  Min({a, b}) = IF a <= b THEN a ELSE b
<1>1. PICK c \in {a, b} : \A x \in {a, b} : c <= x
  OBVIOUS
<1>2. Min({a, b}) \in {a, b} /\ \A x \in {a, b} : Min({a, b}) <= x
  BY <1>1, Zenon DEF Min
<1> QED BY <1>2

\* The layout of a buffer, with A, P and U for the sizes of a block, a page and a loop.
LEMMA MaskedIs ==
  ASSUME NEW m \in Nat \ {0}, PAGE \in Nat \ {0}
  PROVE  /\ Pages(m) \in Nat \ {0} /\ Masked(m) \in Nat \ {0} /\ Masked(m) <= m
         /\ Masked(m) <= Pages(m) * PAGE
         /\ m < PAGE => Masked(m) = m /\ Pages(m) = 1
         /\ m >= PAGE => Pages(m) = m \div PAGE /\ Masked(m) = Pages(m) * PAGE
<1>1. CASE m < PAGE
  BY <1>1 DEF Pages, Masked
<1>2. CASE m >= PAGE
  <2>1. PICK q \in Nat : q = m \div PAGE /\ q * PAGE <= m /\ \A e \in Nat : e * PAGE <= m => e <= q
    BY QuotientIs
  <2>2. 1 * PAGE <= m
    BY <1>2
  <2>3. q >= 1
    BY <2>1, <2>2
  <2>4. q * PAGE \in Nat /\ q * PAGE >= PAGE
    BY <2>3
  <2>5. ~(m < PAGE)
    BY <1>2
  <2>6. Pages(m) = q /\ Masked(m) = q * PAGE
    BY <2>1, <2>5 DEF Pages, Masked
  <2> QED BY <2>1, <2>3, <2>4, <2>5, <2>6
<1> QED BY <1>1, <1>2

\* A chain fits into the memory that is used, and its length is that of a chain again.
LEMMA ChainIs ==
  ASSUME NEW m \in Nat \ {0}, NEW n \in Nat, PAGE \in Nat \ {0}, Alignment \in Nat \ {0}, UNROLL \in Nat \ {0}
  PROVE  /\ Chain(m, n) \in Nat /\ Chain(m, n) * Alignment <= Masked(m)
         /\ Chain(m, Chain(m, n)) = Chain(m, n)
<1>1. PICK A \in Nat \ {0}, U \in Nat \ {0}, M \in Nat : A = Alignment /\ U = UNROLL /\ M = Masked(m)
  BY MaskedIs
<1>2. PICK B \in Nat : B = M \div A /\ B * A <= M
  BY QuotientIs
<1>3. PICK x \in Nat : x = Min({n, B}) /\ x <= B
  BY MinOfTwo
<1>4. PICK c \in Nat : c = x \div U /\ c * U <= x
  BY QuotientIs
<1>5. PICK k \in Nat : k = c * U /\ k <= B
  <2>1. c * U \in Nat /\ c * U <= B
    BY <1>3, <1>4
  <2> QED BY <2>1
<1>6. Chain(m, n) = k
  BY <1>1, <1>2, <1>3, <1>4, <1>5 DEF Chain
<1>7. Min({k, B}) = k
  BY <1>5, MinOfTwo
<1>8. k \div U = c
  <2>1. k = U * c + 0 /\ 0 \in 0 .. U - 1 /\ c \in Int
    BY <1>5
  <2> QED BY <2>1, RemainderIs
<1>9. Chain(m, k) = k
  BY <1>1, <1>2, <1>5, <1>7, <1>8 DEF Chain
<1>10. k * A <= M
  <2>1. k * A <= B * A
    BY <1>5
  <2>2. k * A \in Int /\ B * A \in Int
    OBVIOUS
  <2> QED BY <1>2, <2>1, <2>2
<1> QED BY <1>1, <1>6, <1>9, <1>10

\* A call of use_memory(): what it can rely on ...
Measurable ==
  /\ setup \in SETUPS /\ memsize \in Nat \ {0} /\ accesses = Chain(memsize, setup.ACCESSES)
  /\ accesses >= UNROLL

\* The parameters of the kernel, as far as the proofs use them.
LEMMA SetupIs ==
  ASSUME setup \in SETUPS
  PROVE  /\ Alignment \in Nat \ {0} /\ setup.ACCESSES \in Nat
         /\ setup.NUM_SHARED_CPUS \in Nat /\ setup.USE_MODE \in UseModes
         /\ setup.USE_MODE \in SharedModes <=> setup.NUM_SHARED_CPUS > 0
         /\ Alignment % PAGE = 0 \/ PAGE % Alignment = 0
         /\ PAGE \in Nat /\ PAGE > 1 /\ UNROLL \in Nat /\ UNROLL > 1
         /\ setup.NUM_RESULTS \in Nat \ {0} /\ setup.FLUSH_PT \in BOOLEAN
<1>1. SETUPS \subseteq [USE_MODE : UseModes, FLUSH_PT : BOOLEAN, ACCESSES : Nat,
                        ALIGNMENT : Nat \ {0}, RUNS : Nat, NUM_RESULTS : Nat \ {0},
                        NUM_SHARED_CPUS : Nat]
  BY LatencyKernelAssumption
<1>2. setup \in [USE_MODE : UseModes, FLUSH_PT : BOOLEAN, ACCESSES : Nat,
                 ALIGNMENT : Nat \ {0}, RUNS : Nat, NUM_RESULTS : Nat \ {0}, NUM_SHARED_CPUS : Nat]
  BY <1>1
<1>3. /\ setup.ALIGNMENT % PAGE = 0 \/ PAGE % setup.ALIGNMENT = 0
      /\ setup.USE_MODE \in SharedModes <=> setup.NUM_SHARED_CPUS > 0
  BY LatencyKernelAssumption
<1>4. PAGE \in Nat /\ PAGE > 1 /\ UNROLL \in Nat /\ UNROLL > 1
  <2>1. PAGE \in Nat \ {0, 1} /\ UNROLL \in Nat \ {0, 1}
    BY LatencyKernelAssumption
  <2> QED BY <2>1
<1> QED BY <1>2, <1>3, <1>4 DEF Alignment

\* ... the numbers of pages and blocks.
LayoutOf(num, usable, K) ==
  /\ num = Layouts.num_pages /\ usable = Layouts.usable /\ K = usable \div Alignment
  /\ Layouts.accesses = accesses
  /\ num \in 1 .. Pages(memsize)
  /\ usable <= num * PAGE
  /\ usable >= PAGE => memsize >= PAGE
  /\ usable < PAGE => num = 1
  /\ usable <= memsize
  /\ K * Alignment <= usable
  /\ Alignment <= PAGE => accesses <= K

\* There is a first block, and when blocks fit into pages there is one for each access.
LEMMA LayoutIs ==
  ASSUME BlocksFit, Measurable
  PROVE  \E num \in Nat, usable \in Nat, K \in Nat \ {0} : LayoutOf(num, usable, K)
<1>0. /\ Alignment \in Nat \ {0} /\ setup.ACCESSES \in Nat /\ PAGE \in Nat /\ PAGE > 1
      /\ UNROLL \in Nat /\ UNROLL > 1 /\ memsize \in Nat \ {0}
      /\ Alignment <= UNROLL * PAGE
  BY SetupIs DEF Measurable, BlocksFit, Alignment
<1>1. PICK A \in Nat \ {0}, P \in Nat \ {0}, U \in Nat, m \in Nat \ {0} :
        A = Alignment /\ P = PAGE /\ U = UNROLL /\ m = memsize /\ U > 1 /\ A <= U * P
  BY <1>0
<1>2. PICK M \in Nat, pg \in Nat \ {0} :
        /\ M = Masked(m) /\ pg = Pages(m) /\ M <= m /\ M <= pg * P
        /\ m < P => M = m /\ pg = 1
        /\ m >= P => M = pg * P
  BY <1>1, MaskedIs
<1>3. PICK n \in Nat : n = accesses /\ n >= U /\ n * A <= M /\ Chain(m, n) = n
  BY SMTT(30), <1>0, <1>1, <1>2, ChainIs DEF Measurable
<1>4. Layouts = [accesses |-> n, num_pages |-> IF n <= pg THEN n ELSE pg,
                 usable |-> IF n <= pg THEN n * P ELSE M]
  BY <1>1, <1>2, <1>3, Zenon DEF Layouts, Layout
<1>5. CASE n <= pg
  <2>1. PICK u \in Nat : u = n * P /\ u >= 2 * P /\ u >= A /\ u <= M /\ m >= P
    <3>1. pg >= 2
      BY <1>1, <1>3, <1>5
    <3>2. m >= P
      BY <1>2, <3>1
    <3>3. n * P <= pg * P
      BY <1>5
    <3>4. n * P >= U * P /\ U * P >= 2 * P
      BY <1>1, <1>3
    <3>5. n * P \in Nat /\ pg * P \in Nat /\ U * P \in Nat
      OBVIOUS
    <3> QED BY <1>1, <1>2, <3>2, <3>3, <3>4, <3>5
  <2>2. PICK K \in Nat : K = u \div A /\ K * A <= u /\ \A e \in Nat : e * A <= u => e <= K
    BY QuotientIs
  <2>3. K >= 1
    <3>1. 1 * A <= u
      BY <2>1
    <3> QED BY <2>2, <3>1
  <2>4. ASSUME A <= P PROVE n <= K
    <3>1. n * A <= n * P
      BY <2>4
    <3> QED BY <2>1, <2>2, <3>1
  <2>5. Layouts.accesses = n /\ Layouts.num_pages = n /\ Layouts.usable = u
    BY <1>4, <1>5, <2>1
  <2>6. /\ n \in 1 .. pg /\ u <= n * P /\ (u >= P => m >= P) /\ (u < P => n = 1) /\ u <= m
    BY <1>1, <1>2, <1>3, <1>5, <2>1
  <2>7. LayoutOf(n, u, K)
    BY <1>1, <1>2, <1>3, <2>2, <2>4, <2>5, <2>6 DEF LayoutOf
  <2> QED BY <2>3, <2>7
<1>6. CASE ~(n <= pg)
  <2>2. PICK K \in Nat : K = M \div A /\ K * A <= M /\ \A e \in Nat : e * A <= M => e <= K
    BY QuotientIs
  <2>3. n <= K /\ K >= 1
    BY <1>1, <1>3, <2>2
  <2>5. Layouts.accesses = n /\ Layouts.num_pages = pg /\ Layouts.usable = M
    BY <1>4, <1>6
  <2>6. pg * P >= P
    OBVIOUS
  <2>7. pg \in 1 .. pg /\ M <= pg * P /\ (M >= P => m >= P) /\ (M < P => pg = 1) /\ M <= m
    BY <1>2, <2>6
  <2>8. LayoutOf(pg, M, K)
    BY <1>1, <1>2, <1>3, <2>2, <2>3, <2>5, <2>7 DEF LayoutOf
  <2> QED BY <2>3, <2>8
<1> QED BY <1>5, <1>6
----------------------------------------------------------------------------
\* The chain of pointers: the block of a number drawn, the first block for -1, ...
BeginOf(d) == (d * Alignment) + Alignment

BlockAt(d) ==
  LET page == page_address[BeginOf(d) \div PAGE]
  IN  <<page[1], page[2] + (BeginOf(d) % PAGE)>>

\* ... and the i-th block of the chain.
NumberAt(i) == IF i = 0 THEN -1 ELSE drawn[i]
Node(i)     == BlockAt(NumberAt(i))

\* All pages are chosen, no one twice, and the first one is the begin of the buffer.
Chosen ==
  /\ page_address[0] = <<buffer, 0>>
  /\ \A i \in 0 .. Layouts.num_pages - 1 :
       /\ i \in DOMAIN page_address
       /\ \E q \in 0 .. Pages(memsize) - 1 : page_address[i] = <<buffer, q * PAGE>>
       /\ \A k \in 0 .. i - 1 : page_address[i] # page_address[k]

\* j pages are chosen, as they were drawn.
Choosing ==
  /\ j \in 1 .. Layouts.num_pages
  /\ 0 \in DOMAIN page_address /\ page_address[0] = <<buffer, 0>>
  /\ Layouts.num_pages > 1 => rand.max = Pages(memsize) - 1 /\ Len(drawn) = j - 1
  /\ \A i \in 1 .. j - 1 : i \in DOMAIN page_address /\ page_address[i] = <<buffer, (drawn[i] + 1) * PAGE>>

\* The chain has j links, as they were drawn.
Linked ==
  /\ Chosen
  /\ rand.max = BlocksBehindFirst /\ Len(drawn) = j /\ j \in 0 .. accesses
  /\ tmp_addr = Node(j)
  /\ \A i \in 0 .. j - 1 : Node(i) \in DOMAIN memory /\ memory[Node(i)] = Node(i + 1)

Whole == Linked /\ j = accesses /\ buffer = t

\* What is ahead of the measurement: the buffer of the target is written, and only
\* read after that.
Uses == [buffer : Measured, mode : ReadModes \cup WriteModes]
Writes(u) == u.mode \in WriteModes
ReadsOnly(s) == \A i \in 1 .. Len(s) : ~Writes(s[i])
WritesTo(s, b) ==
  \E k \in 1 .. Len(s) : /\ Writes(s[k]) /\ s[k].buffer = b
                         /\ \A i \in 1 .. Len(s) : i > k => ~Writes(s[i])

WorkInv ==
  /\ setup \in SETUPS /\ PagesInRoom
  /\ pc \in {"idle", "thread", "run", "pages", "link", "measure"}
  /\ pc # "idle" => /\ memsize \in Nat \ {0} /\ accesses = Chain(memsize, setup.ACCESSES)
                    /\ room = Pages(memsize) /\ t \in Nat
  /\ pc \in {"run", "pages", "link", "measure"} => t \in Measured /\ accesses >= UNROLL

ScriptInv ==
  /\ pc \in {"run", "pages", "link"} => script \in Seq(Uses)
  /\ pc \in {"pages", "link"} =>
       buffer \in Measured /\ (WritesTo(script, t) \/ (ReadsOnly(script) /\ buffer = t))
  /\ pc = "run" => WritesTo(script, t) \/ (ReadsOnly(script) /\ Whole)
  /\ pc = "measure" => Whole

LinkInv ==
  /\ pc = "pages" => Choosing
  /\ pc = "link" => Linked

\* Without a range to draw from _random() returns -1.
NothingDrawn == rand.max = 0 => \A i \in 1 .. Len(drawn) : drawn[i] = -1

\* The numbers drawn, whatever the range.
IsDraw ==
  \A i \in 1 .. Len(drawn) :
    /\ rand.max = 0 => drawn[i] = -1
    /\ rand.max > 0 => /\ drawn[i] \in 0 .. rand.max - 1
                       /\ \A k \in 1 .. i - 1 : drawn[k] = drawn[i] <=> Divides(rand.max, i - k)

\* The generator draws so.
LEMMA DrawIs ==
  GeneratorInv /\ NothingDrawn /\ rand.max \in Nat => IsDraw
<1> SUFFICES ASSUME GeneratorInv, NothingDrawn, rand.max \in Nat, NEW i \in 1 .. Len(drawn)
             PROVE  /\ rand.max = 0 => drawn[i] = -1
                    /\ rand.max > 0 =>
                         /\ drawn[i] \in 0 .. rand.max - 1
                         /\ \A k \in 1 .. i - 1 : drawn[k] = drawn[i] <=> Divides(rand.max, i - k)
  BY DEF IsDraw
<1>1. EachNumberOnce /\ (\E S : drawn \in Seq(S))
  BY GeneratorOnce DEF GeneratorInv, RandomInv
<1>2. Len(drawn) \in Nat /\ DOMAIN drawn = 1 .. Len(drawn)
  BY <1>1
<1>3. ASSUME rand.max > 0
      PROVE  /\ drawn[i] \in 0 .. rand.max - 1
             /\ \A k \in 1 .. i - 1 : drawn[k] = drawn[i] <=> Divides(rand.max, i - k)
  <2>1. /\ drawn[i] \in 0 .. rand.max - 1
        /\ \A k \in 1 .. i - 1 : drawn[k] = drawn[i] <=> (i - k) % rand.max = 0
    BY <1>1, <1>2, <1>3, Zenon DEF EachNumberOnce
  <2>2. PICK x \in Nat \ {0} : x = rand.max
    BY <1>3
  <2>3. ASSUME NEW k \in 1 .. i - 1
        PROVE  drawn[k] = drawn[i] <=> Divides(x, i - k)
    <3>1. PICK n \in Int : n = i - k
      BY <1>2
    <3>2. n % x = 0 <=> Divides(x, n)
      BY <2>2, DividesRest
    <3> QED BY <2>1, <2>2, <3>1, <3>2
  <2> QED BY <2>1, <2>2, <2>3
<1> QED BY <1>3 DEF NothingDrawn

\* What was drawn after a number is drawn after it again.
LEMMA DrawRepeats ==
  ASSUME IsDraw, rand.max \in Nat, Len(drawn) \in Nat,
         NEW i \in 1 .. Len(drawn), NEW k \in 1 .. Len(drawn),
         i + 1 <= Len(drawn), k + 1 <= Len(drawn), drawn[i] = drawn[k]
  PROVE  drawn[i + 1] = drawn[k + 1]
<1>1. CASE rand.max = 0
  <2>1. i + 1 \in 1 .. Len(drawn) /\ k + 1 \in 1 .. Len(drawn)
    OBVIOUS
  <2> QED BY <1>1, <2>1 DEF IsDraw
<1>2. CASE rand.max > 0
  <2>1. ASSUME NEW a \in 1 .. Len(drawn), NEW b \in 1 .. Len(drawn), a < b, b + 1 <= Len(drawn),
               drawn[a] = drawn[b]
        PROVE  drawn[a + 1] = drawn[b + 1]
    <3>1. a \in 1 .. b - 1 /\ a + 1 \in 1 .. (b + 1) - 1 /\ b + 1 \in 1 .. Len(drawn)
      BY <2>1
    <3>2. Divides(rand.max, b - a)
      BY <1>2, <2>1, <3>1 DEF IsDraw
    <3>3. (b + 1) - (a + 1) = b - a
      OBVIOUS
    <3>4. drawn[a + 1] = drawn[b + 1] <=> Divides(rand.max, (b + 1) - (a + 1))
      BY <1>2, <3>1 DEF IsDraw
    <3> QED BY <3>2, <3>3, <3>4
  <2>2. i < k \/ k < i \/ i = k
    OBVIOUS
  <2> QED BY <2>1, <2>2
<1> QED BY <1>1, <1>2

\* Two numbers of one turn are different.
LEMMA DrawDistinct ==
  ASSUME IsDraw, rand.max \in Nat, Len(drawn) \in Nat,
         NEW i \in 1 .. Len(drawn), NEW k \in 1 .. Len(drawn), i < k, k - i < rand.max
  PROVE  drawn[i] # drawn[k]
<1>1. PICK n \in Nat \ {0} : n = k - i /\ n < rand.max /\ rand.max > 0 /\ i \in 1 .. k - 1
  OBVIOUS
<1>2. ~Divides(rand.max, n)
  BY <1>1, DividesSize
<1>3. drawn[i] = drawn[k] <=> Divides(rand.max, k - i)
  BY <1>1 DEF IsDraw
<1> QED BY <1>1, <1>2, <1>3

\* The block of number d, blocks having size A, in one of num pages of size P.
IsPlace(A, P, num, usable, d) ==
  \E x \in 0 .. num - 1, r \in 0 .. P - 1, o \in Nat :
    /\ o = (d * A) + A /\ o = P * x + r /\ o \div P = x /\ o % P = r
    /\ o < usable /\ Divides(A, o)

\* Blocks that fit in are in the pages.
LEMMA PlaceIs ==
  ASSUME NEW A \in Nat \ {0}, NEW P \in Nat \ {0}, NEW num \in Nat, NEW usable \in Nat, NEW K \in Nat,
         K * A <= usable, usable <= num * P, NEW d \in -1 .. K - 2
  PROVE  IsPlace(A, P, num, usable, d)
<1>1. PICK e \in 0 .. K - 1 : e = d + 1
  OBVIOUS
<1>2. PICK o \in Nat : o = e * A
  OBVIOUS
<1>3. o = (d * A) + A
  BY <1>1, <1>2
<1>4. o < usable
  <2>1. e * A + A <= K * A
    <3>1. (K - (e + 1)) * A >= 0
      BY <1>1
    <3>2. (K - (e + 1)) * A = K * A - (e * A + A)
      BY <1>1
    <3>3. K * A \in Int /\ e * A \in Int
      BY <1>1
    <3> QED BY <3>1, <3>2, <3>3
  <2>2. K * A \in Int /\ e * A \in Int
    BY <1>1
  <2> QED BY <1>2, <2>1, <2>2
<1>5. Divides(A, o)
  <2>1. o = A * e /\ e \in Int
    BY <1>1, <1>2
  <2> QED BY <2>1 DEF Divides
<1>6. PICK x \in Int, r \in 0 .. P - 1 : x = o \div P /\ r = o % P /\ o = P * x + r
  BY Division
<1>7. x \in 0 .. num - 1
  <2>1. ASSUME x <= -1 PROVE FALSE
    <3>1. P * x <= -P
      BY <2>1
    <3>2. P * x \in Int
      OBVIOUS
    <3> QED BY <1>6, <3>1, <3>2
  <2>2. ASSUME x >= num PROVE FALSE
    <3>1. P * x >= num * P
      BY <2>2
    <3>2. P * x \in Int /\ num * P \in Int
      OBVIOUS
    <3> QED BY <1>4, <1>6, <3>1, <3>2
  <2> QED BY <2>1, <2>2
<1> QED BY <1>3, <1>4, <1>5, <1>6, <1>7 DEF IsPlace

\* The pages as numbers in the buffer.
Pagings(q, num) ==
  /\ q \in [0 .. num - 1 -> 0 .. Pages(memsize) - 1] /\ q[0] = 0
  /\ \A i \in 0 .. num - 1 : page_address[i] = <<buffer, q[i] * PAGE>>
  /\ \A i \in 0 .. num - 1, k \in 0 .. num - 1 : q[i] = q[k] => i = k

\* Chosen pages are such numbers.
LEMMA PagingIs ==
  ASSUME Chosen, NEW num \in Nat \ {0}, num = Layouts.num_pages, PAGE \in Nat \ {0}
  PROVE  \E q : Pagings(q, num)
<1>1. \A i \in 0 .. num - 1 : \E x \in 0 .. Pages(memsize) - 1 : page_address[i] = <<buffer, x * PAGE>>
  BY DEF Chosen
<1> DEFINE q == [i \in 0 .. num - 1 |->
                   CHOOSE x \in 0 .. Pages(memsize) - 1 : page_address[i] = <<buffer, x * PAGE>>]
<1>2. ASSUME NEW i \in 0 .. num - 1
      PROVE  q[i] \in 0 .. Pages(memsize) - 1 /\ page_address[i] = <<buffer, q[i] * PAGE>>
  <2>1. q[i] = CHOOSE x \in 0 .. Pages(memsize) - 1 : page_address[i] = <<buffer, x * PAGE>>
    OBVIOUS
  <2> HIDE DEF q
  <2> QED BY <1>1, <2>1, Zenon
<1>3. q \in [0 .. num - 1 -> 0 .. Pages(memsize) - 1]
  <2>1. \A i \in 0 .. num - 1 : q[i] \in 0 .. Pages(memsize) - 1
    BY <1>2
  <2> QED BY <2>1
<1> HIDE DEF q
<1>4. q[0] = 0
  <2>1. 0 \in 0 .. num - 1
    OBVIOUS
  <2>2. PICK x \in 0 .. Pages(memsize) - 1 : x = q[0] /\ page_address[0] = <<buffer, x * PAGE>>
    BY <1>2, <2>1
  <2>3. page_address[0] = <<buffer, 0>>
    BY DEF Chosen
  <2>4. x * PAGE = 0
    BY <2>2, <2>3
  <2>5. x >= 1 => x * PAGE >= PAGE
    OBVIOUS
  <2> QED BY <2>2, <2>4, <2>5
<1>5. ASSUME NEW i \in 0 .. num - 1, NEW k \in 0 .. num - 1, q[i] = q[k] PROVE i = k
  <2>1. page_address[i] = page_address[k]
    BY <1>2, <1>5
  <2>2. /\ \A h \in 0 .. i - 1 : page_address[i] # page_address[h]
        /\ \A h \in 0 .. k - 1 : page_address[k] # page_address[h]
    BY DEF Chosen
  <2>3. i \in 0 .. k - 1 \/ k \in 0 .. i - 1 \/ i = k
    OBVIOUS
  <2> QED BY <2>1, <2>2, <2>3
<1>6. Pagings(q, num)
  BY <1>2, <1>3, <1>4, <1>5 DEF Pagings
<1> QED BY <1>6

\* The larger of two sizes, a multiple of the other, and the smaller one.
LEMMA UnitIs ==
  ASSUME setup \in SETUPS
  PROVE  \E u \in Nat \ {0} : /\ u = Min({Alignment, PAGE}) /\ Divides(u, Alignment) /\ Divides(u, PAGE)
<1>1. PICK A \in Nat \ {0}, P \in Nat \ {0} :
        A = Alignment /\ P = PAGE /\ (A % P = 0 \/ P % A = 0)
  BY SetupIs
<1>2. Divides(P, A) \/ Divides(A, P)
  BY <1>1, DividesRest
<1>3. Min({A, P}) = IF A <= P THEN A ELSE P
  BY MinOfTwo
<1>4. Divides(A, A) /\ Divides(P, P)
  BY DividesItself
<1>5. CASE A <= P
  <2>1. Divides(A, P)
    <3>1. ASSUME Divides(P, A) PROVE A = P
      BY <1>5, <3>1, DividesSize
    <3> QED BY <1>2, <1>4, <3>1
  <2> QED BY <1>1, <1>3, <1>4, <1>5, <2>1
<1>6. CASE ~(A <= P)
  <2>1. Divides(P, A)
    <3>1. ASSUME Divides(A, P) PROVE FALSE
      BY <1>6, <3>1, DividesSize
    <3> QED BY <1>2, <3>1
  <2> QED BY <1>1, <1>3, <1>4, <1>6, <2>1
<1> QED BY <1>5, <1>6

\* Where a block is.
Spot(d, num, q) ==
  \E x \in 0 .. num - 1, r \in 0 .. PAGE - 1, o \in Nat, a \in Nat :
    /\ o = BeginOf(d) /\ o = PAGE * x + r /\ o < Layouts.usable
    /\ a = q[x] * PAGE + r /\ BlockAt(d) = <<buffer, a>>
    /\ a < memsize /\ Divides(Min({Alignment, PAGE}), a)

\* Every block that can be drawn, and the first one, is in the buffer and begins at a
\* multiple of the smaller of the two sizes.
LEMMA BlockIs ==
  ASSUME setup \in SETUPS, memsize \in Nat \ {0}, NEW num \in Nat, NEW usable \in Nat, NEW K \in Nat \ {0},
         LayoutOf(num, usable, K), NEW q, Pagings(q, num), NEW d \in -1 .. K - 2
  PROVE  Spot(d, num, q)
<1>1. PICK A \in Nat \ {0}, P \in Nat \ {0} : A = Alignment /\ P = PAGE
  BY SetupIs
<1>2. PICK u \in Nat \ {0} : u = Min({Alignment, PAGE}) /\ Divides(u, A) /\ Divides(u, P)
  BY <1>1, UnitIs
<1>3. K * A <= usable /\ usable <= num * P
  BY <1>1 DEF LayoutOf
<1>4. PICK x \in 0 .. num - 1, r \in 0 .. P - 1, o \in Nat :
        /\ o = (d * A) + A /\ o = P * x + r /\ o \div P = x /\ o % P = r
        /\ o < usable /\ Divides(A, o)
  <2>1. IsPlace(A, P, num, usable, d)
    BY <1>3, PlaceIs
  <2> QED BY <2>1 DEF IsPlace
<1>5. o = BeginOf(d)
  BY <1>1, <1>4 DEF BeginOf
<1>6. PICK y \in 0 .. Pages(memsize) - 1 : y = q[x] /\ page_address[x] = <<buffer, y * P>>
  BY <1>1 DEF Pagings
<1>7. PICK z \in Nat, a \in Nat : z = y * P /\ a = z + r
  <2>1. y * P \in Nat
    <3>1. y \in Nat
      BY <1>1, MaskedIs
    <3> QED BY <3>1
  <2> QED BY <2>1
<1>8. BlockAt(d) = <<buffer, a>>
  <2>1. page_address[BeginOf(d) \div PAGE] = <<buffer, z>> /\ BeginOf(d) % PAGE = r
    BY <1>1, <1>4, <1>5, <1>6, <1>7
  <2>2. BlockAt(d) = <<buffer, z + r>>
    BY <2>1 DEF BlockAt
  <2> QED BY <1>7, <2>2
<1>9. a < memsize
  <2>1. PICK pg \in Nat \ {0} : /\ pg = Pages(memsize)
                                /\ memsize < P => pg = 1
                                /\ memsize >= P => pg * P <= memsize
    <3>1. PAGE \in Nat \ {0}
      BY <1>1
    <3> QED BY <1>1, <3>1, MaskedIs
  <2>2. usable <= memsize /\ (usable >= P => memsize >= P) /\ (usable < P => num = 1)
    BY <1>1 DEF LayoutOf
  <2>3. CASE memsize >= P
    <3>1. z + P <= pg * P
      <4>1. (pg - (y + 1)) * P >= 0
        BY <1>6, <2>1
      <4>2. (pg - (y + 1)) * P = pg * P - (y * P + P)
        BY <1>6, <2>1
      <4>3. pg * P \in Int /\ y * P \in Int
        BY <1>6
      <4> QED BY <1>7, <4>1, <4>2, <4>3
    <3>2. pg * P \in Int
      OBVIOUS
    <3> QED BY <1>4, <1>7, <2>1, <2>3, <3>1, <3>2
  <2>4. CASE memsize < P
    <3>1. x = 0 /\ y = 0
      BY <1>4, <1>6, <2>1, <2>2, <2>4
    <3>2. z = 0 /\ P * x = 0
      BY <1>7, <3>1
    <3> QED BY <1>4, <1>7, <2>2, <3>2
  <2> QED BY <2>3, <2>4
<1>10. Divides(u, a)
  <2>1. Divides(u, o)
    BY <1>2, <1>4, DividesTrans
  <2>2. PICK s \in Int : s = P * x /\ Divides(u, s)
    <3>1. u \in Int /\ P \in Int /\ x \in Int
      OBVIOUS
    <3>2. Divides(u, P * x)
      BY <1>2, <3>1, DividesTimes
    <3> QED BY <3>1, <3>2
  <2>3. o = s + r
    BY <1>4, <2>2
  <2>4. Divides(u, r)
    BY <2>1, <2>2, <2>3, DividesSum
  <2>5. Divides(u, z)
    <3>1. u \in Int /\ P \in Int /\ y \in Int
      OBVIOUS
    <3>2. Divides(u, y * P)
      BY <1>2, <3>1, DividesTimes
    <3> QED BY <1>7, <3>2
  <2>6. Divides(u, z + r)
    BY <2>4, <2>5, DividesSum
  <2> QED BY <1>7, <2>6
<1>11. o < Layouts.usable
  BY <1>4 DEF LayoutOf
<1>12. a = q[x] * PAGE + r /\ o = PAGE * x + r /\ r \in 0 .. PAGE - 1
  BY <1>1, <1>4, <1>6, <1>7
<1> QED BY <1>2, <1>5, <1>8, <1>9, <1>10, <1>11, <1>12 DEF Spot

\* Blocks of different numbers are different.
LEMMA BlocksDiffer ==
  ASSUME setup \in SETUPS, memsize \in Nat \ {0}, NEW num \in Nat, NEW usable \in Nat, NEW K \in Nat \ {0},
         LayoutOf(num, usable, K), NEW q, Pagings(q, num), NEW d \in -1 .. K - 2, NEW e \in -1 .. K - 2,
         BlockAt(d) = BlockAt(e)
  PROVE  d = e
<1>1. PICK A \in Nat \ {0}, P \in Nat \ {0} : A = Alignment /\ P = PAGE
  BY SetupIs
<1>2. PICK x \in 0 .. num - 1, r \in 0 .. P - 1, o \in Nat, a \in Nat :
        o = BeginOf(d) /\ o = P * x + r /\ a = q[x] * P + r /\ BlockAt(d) = <<buffer, a>>
  BY <1>1, BlockIs DEF Spot
<1>3. PICK y \in 0 .. num - 1, s \in 0 .. P - 1, p \in Nat, b \in Nat :
        p = BeginOf(e) /\ p = P * y + s /\ b = q[y] * P + s /\ BlockAt(e) = <<buffer, b>>
  BY <1>1, BlockIs DEF Spot
<1>4. a = b
  <2>1. <<buffer, a>> = <<buffer, b>>
    BY <1>2, <1>3
  <2> QED BY <2>1
<1>5. PICK v \in Int, w \in Int : v = q[x] /\ w = q[y] /\ a = P * v + r /\ b = P * w + s
  <2>1. q[x] \in Int /\ q[y] \in Int
    <3>1. q \in [0 .. num - 1 -> 0 .. Pages(memsize) - 1]
      BY DEF Pagings
    <3> QED BY <3>1
  <2>2. q[x] * P = P * q[x] /\ q[y] * P = P * q[y]
    BY <2>1
  <2> QED BY <1>2, <1>3, <2>1, <2>2
<1>6. v = w /\ r = s
  <2>1. v = a \div P /\ r = a % P /\ w = b \div P /\ s = b % P
    BY <1>5, RemainderIs
  <2> QED BY <1>4, <2>1
<1>7. x = y
  BY <1>5, <1>6 DEF Pagings
<1>8. o = p
  BY <1>2, <1>3, <1>6, <1>7
<1>9. (d * A) + A = (e * A) + A
  BY <1>1, <1>2, <1>3, <1>8 DEF BeginOf
<1>10. (d - e) * A = 0
  <2>1. (d - e) * A = d * A - e * A /\ d * A \in Int /\ e * A \in Int
    OBVIOUS
  <2> QED BY <1>9, <2>1
<1>11. PICK h \in Int : h = d - e /\ h * A = 0
  BY <1>10
<1>12. h = 0
  <2>1. h >= 1 => h * A >= A
    OBVIOUS
  <2>2. h <= -1 => h * A <= -A
    OBVIOUS
  <2> QED BY <1>11, <2>1, <2>2
<1> QED BY <1>11, <1>12

\* The layout of the call, with the pages q.
LaidOut(num, usable, K, q) ==
  /\ LayoutOf(num, usable, K) /\ Pagings(q, num)
  /\ IsDraw /\ Len(drawn) \in Nat /\ rand.max = K - 1

\* It is there when the pages are chosen and the generator draws blocks.
LEMMA LaidOutIs ==
  ASSUME BlocksFit, Measurable, Chosen, GeneratorInv, NothingDrawn, rand.max = BlocksBehindFirst
  PROVE  \E num \in Nat, usable \in Nat, K \in Nat \ {0} : \E q : LaidOut(num, usable, K, q)
<1>1. PICK num \in Nat, usable \in Nat, K \in Nat \ {0} : LayoutOf(num, usable, K)
  BY LayoutIs
<1>2. num \in Nat \ {0} /\ num = Layouts.num_pages /\ PAGE \in Nat \ {0}
  BY <1>1, SetupIs DEF LayoutOf, Measurable
<1>3. PICK q : Pagings(q, num)
  BY <1>2, PagingIs
<1>4. rand.max = K - 1
  BY <1>1 DEF LayoutOf, BlocksBehindFirst
<1>5. rand.max \in Nat
  BY <1>4
<1>6. IsDraw
  BY <1>5, DrawIs
<1>7. Len(drawn) \in Nat
  <2>1. PICK S : drawn \in Seq(S)
    BY DEF GeneratorInv, RandomInv
  <2> QED BY <2>1
<1>8. LaidOut(num, usable, K, q)
  BY <1>1, <1>3, <1>4, <1>6, <1>7 DEF LaidOut
<1> QED BY <1>8

\* The numbers of the blocks of a chain.
LEMMA NumbersFit ==
  ASSUME NEW num \in Nat, NEW usable \in Nat, NEW K \in Nat \ {0}, NEW q, LaidOut(num, usable, K, q),
         NEW i \in 0 .. Len(drawn)
  PROVE  /\ NumberAt(i) \in -1 .. K - 2
         /\ i # 0 /\ K > 1 => NumberAt(i) # -1
<1>1. CASE i = 0
  BY <1>1 DEF NumberAt
<1>2. CASE i # 0
  <2>1. /\ i \in 1 .. Len(drawn)
        /\ rand.max = 0 => drawn[i] = -1
        /\ rand.max > 0 => drawn[i] \in 0 .. rand.max - 1
    BY <1>2 DEF LaidOut, IsDraw
  <2>2. NumberAt(i) = drawn[i] /\ rand.max = K - 1
    BY <1>2 DEF NumberAt, LaidOut
  <2> QED BY <2>1, <2>2
<1> QED BY <1>1, <1>2

\* After the same block the chain goes on in the same way.
LEMMA NodeAgain ==
  ASSUME setup \in SETUPS, memsize \in Nat \ {0},
         NEW num \in Nat, NEW usable \in Nat, NEW K \in Nat \ {0}, NEW q, LaidOut(num, usable, K, q),
         NEW i \in 0 .. Len(drawn) - 1, NEW k \in 0 .. Len(drawn) - 1, Node(i) = Node(k)
  PROVE  Node(i + 1) = Node(k + 1)
<1>0. Len(drawn) \in Nat
  BY DEF LaidOut
<1>1. i \in 0 .. Len(drawn) /\ k \in 0 .. Len(drawn)
      /\ i + 1 \in 1 .. Len(drawn) /\ k + 1 \in 1 .. Len(drawn)
  BY <1>0
<1>2. PICK d \in -1 .. K - 2, e \in -1 .. K - 2 : d = NumberAt(i) /\ e = NumberAt(k)
  BY <1>1, NumbersFit
<1>3. d = e
  <2>1. BlockAt(d) = BlockAt(e) /\ LayoutOf(num, usable, K) /\ Pagings(q, num)
    BY <1>2 DEF Node, LaidOut
  <2> QED BY <2>1, BlocksDiffer
<1>4. NumberAt(i + 1) = NumberAt(k + 1)
  <2>1. NumberAt(i + 1) = drawn[i + 1] /\ NumberAt(k + 1) = drawn[k + 1]
    BY <1>1 DEF NumberAt
  <2>2. CASE K = 1
    <3>1. rand.max = 0 /\ IsDraw
      BY <2>2 DEF LaidOut
    <3> QED BY <1>1, <2>1, <3>1 DEF IsDraw
  <2>3. CASE K > 1
    <3>1. CASE i = 0
      <4>1. k = 0
        BY <1>1, <1>2, <1>3, <2>3, <3>1, NumbersFit DEF NumberAt
      <4> QED BY <3>1, <4>1
    <3>2. CASE i # 0
      <4>1. k # 0
        BY <1>1, <1>2, <1>3, <2>3, <3>2, NumbersFit DEF NumberAt
      <4>2. /\ i \in 1 .. Len(drawn) /\ k \in 1 .. Len(drawn) /\ drawn[i] = drawn[k]
            /\ i + 1 <= Len(drawn) /\ k + 1 <= Len(drawn)
        BY <1>0, <1>2, <1>3, <3>2, <4>1 DEF NumberAt
      <4>3. IsDraw /\ rand.max \in Nat
        BY DEF LaidOut
      <4> QED BY <1>0, <2>1, <4>2, <4>3, DrawRepeats
    <3> QED BY <3>1, <3>2
  <2> QED BY <2>2, <2>3
<1> QED BY <1>4 DEF Node

\* The chain begins at the begin of the buffer.
LEMMA FirstNode ==
  ASSUME setup \in SETUPS, Chosen
  PROVE  Node(0) = <<buffer, 0>>
<1>1. PICK A \in Nat \ {0}, P \in Nat \ {0} : A = Alignment /\ P = PAGE
  BY SetupIs
<1>2. BeginOf(-1) = 0
  BY <1>1 DEF BeginOf
<1>3. 0 \div P = 0 /\ 0 % P = 0
  <2>1. 0 = P * 0 + 0 /\ 0 \in 0 .. P - 1
    OBVIOUS
  <2> QED BY <2>1, RemainderIs
<1>4. page_address[0] = <<buffer, 0>>
  BY DEF Chosen
<1>5. NumberAt(0) = -1
  BY DEF NumberAt
<1>6. Node(0) = <<buffer, 0 + 0>>
  BY <1>1, <1>2, <1>3, <1>4, <1>5 DEF Node, BlockAt
<1> QED BY <1>6

LoadBody(g) ==
  [k \in 0 .. accesses - 1 |->
     IF k = 0 THEN <<t, 0>>
     ELSE LET a == g[k - 1] IN IF a \in DOMAIN memory THEN memory[a] ELSE a]

\* The loads are those of the chain.
LEMMA LoadsAre ==
  ASSUME setup \in SETUPS, Whole, accesses \in Nat
  PROVE  /\ DOMAIN Loads = 0 .. accesses - 1
         /\ \A k \in 0 .. accesses - 1 : Loads[k] = Node(k)
<1>1. /\ \A i \in 0 .. accesses - 1 : Node(i) \in DOMAIN memory /\ memory[Node(i)] = Node(i + 1)
      /\ Node(0) = <<t, 0>>
  BY FirstNode DEF Whole, Linked
<1> DEFINE g == [k \in 0 .. accesses - 1 |-> Node(k)]
<1>2. g = LoadBody(g)
  <2>1. ASSUME NEW k \in 0 .. accesses - 1
        PROVE  g[k] = (IF k = 0 THEN <<t, 0>>
                       ELSE LET a == g[k - 1] IN IF a \in DOMAIN memory THEN memory[a] ELSE a)
    <3>1. CASE k = 0
      BY <1>1, <3>1
    <3>2. CASE k # 0
      <4>1. k - 1 \in 0 .. accesses - 1 /\ (k - 1) + 1 = k
        BY <3>2
      <4>2. Node(k - 1) \in DOMAIN memory /\ memory[Node(k - 1)] = Node(k)
        BY <1>1, <4>1
      <4>3. g[k - 1] = Node(k - 1) /\ g[k] = Node(k)
        BY <4>1
      <4> HIDE DEF g
      <4> QED BY <3>2, <4>2, <4>3
    <3> QED BY <3>1, <3>2
  <2>2. g = [k \in 0 .. accesses - 1 |-> g[k]]
    OBVIOUS
  <2> HIDE DEF g
  <2> QED BY <2>1, <2>2, Zenon DEF LoadBody
<1> DEFINE f == CHOOSE h : h = LoadBody(h)
<1>3. f = LoadBody(f)
  <2> HIDE DEF g
  <2> QED BY <1>2, Zenon
<1>4. Loads = f
  BY Zenon DEF Loads, LoadBody
<1> HIDE DEF f
<1>5. /\ DOMAIN f = 0 .. accesses - 1
      /\ \A k \in 0 .. accesses - 1 :
           f[k] = IF k = 0 THEN <<t, 0>>
                  ELSE LET a == f[k - 1] IN IF a \in DOMAIN memory THEN memory[a] ELSE a
  BY <1>3, Zenon DEF LoadBody
<1>6. ASSUME NEW n \in 0 .. accesses - 1 PROVE f[n] = Node(n)
  <2> DEFINE T == {k \in 0 .. n : f[k] = Node(k)}
  <2>1. 0 \in T
    BY <1>1, <1>5
  <2>2. ASSUME NEW k \in 1 .. n, k - 1 \in T PROVE k \in T
    <3>1. k - 1 \in 0 .. accesses - 1 /\ (k - 1) + 1 = k /\ k \in 0 .. accesses - 1 /\ k # 0
      OBVIOUS
    <3>2. f[k - 1] = Node(k - 1)
      BY <2>2
    <3>3. Node(k - 1) \in DOMAIN memory /\ memory[Node(k - 1)] = Node(k)
      BY <1>1, <3>1
    <3>4. f[k] = Node(k)
      <4> HIDE DEF T
      <4> QED BY <1>5, <3>1, <3>2, <3>3
    <3> QED BY <3>1, <3>4
  <2>3. n \in T
    <3>1. n \in 0 .. n /\ n \in Nat
      OBVIOUS
    <3> HIDE DEF T
    <3> QED BY <2>1, <2>2, <3>1, Induction, Zenon
  <2> QED BY <2>3
<1> QED BY <1>4, <1>5, <1>6

\* A whole chain is what the property says of the loads.
LEMMA WholeVisitsOnce ==
  ASSUME BlocksFit, Measurable, Whole, GeneratorInv, NothingDrawn, t \in Measured
  PROVE  /\ \A a \in Range(Loads) : /\ a \in DOMAIN memory /\ a[1] = t
                                    /\ a[2] \in 0 .. memsize - 1
                                    /\ a[2] % Min({Alignment, PAGE}) = 0
         /\ Alignment <= PAGE => IsInjective(Loads)
<1>0. /\ setup \in SETUPS /\ memsize \in Nat \ {0} /\ accesses \in Nat /\ Chosen /\ Linked
      /\ buffer = t /\ j = accesses /\ Len(drawn) = accesses
  <2>1. setup.ACCESSES \in Nat /\ PAGE \in Nat \ {0} /\ Alignment \in Nat \ {0} /\ UNROLL \in Nat \ {0}
    BY SetupIs DEF Measurable
  <2>2. accesses \in Nat
    BY <2>1, ChainIs DEF Measurable
  <2> QED BY <2>2 DEF Measurable, Whole, Linked
<1>a. PICK num \in Nat, usable \in Nat, K \in Nat \ {0} : \E q : LaidOut(num, usable, K, q)
  BY <1>0, LaidOutIs DEF Linked
<1>1. PICK q : LaidOut(num, usable, K, q)
  BY <1>a
<1>2. LayoutOf(num, usable, K) /\ Pagings(q, num) /\ rand.max = K - 1 /\ IsDraw
  BY <1>1 DEF LaidOut
<1>3. /\ DOMAIN Loads = 0 .. accesses - 1
      /\ \A k \in 0 .. accesses - 1 : Loads[k] = Node(k)
  BY <1>0, LoadsAre
<1>4. ASSUME NEW a \in Range(Loads)
      PROVE  /\ a \in DOMAIN memory /\ a[1] = t
             /\ a[2] \in 0 .. memsize - 1
             /\ a[2] % Min({Alignment, PAGE}) = 0
  <2>1. PICK k \in 0 .. accesses - 1 : a = Node(k)
    BY <1>3, Zenon DEF Range
  <2>2. a \in DOMAIN memory
    BY <1>0, <2>1 DEF Linked
  <2>3. k \in 0 .. Len(drawn)
    BY <1>0
  <2>4. PICK d \in -1 .. K - 2 : d = NumberAt(k)
    BY <1>1, <2>3, NumbersFit
  <2>5. PICK b \in Nat : /\ BlockAt(d) = <<buffer, b>> /\ b < memsize
                         /\ Divides(Min({Alignment, PAGE}), b)
    <3>1. Spot(d, num, q)
      BY <1>0, <1>2, BlockIs
    <3> QED BY <3>1, Zenon DEF Spot
  <2>6. a = <<buffer, b>>
    BY <2>1, <2>4, <2>5 DEF Node
  <2>7. PICK u \in Nat \ {0} : u = Min({Alignment, PAGE})
    BY <1>0, UnitIs
  <2>8. b % u = 0
    BY <2>5, <2>7, DividesRest
  <2>9. a[1] = t /\ a[2] = b
    BY <1>0, <2>6
  <2> QED BY <1>0, <2>2, <2>5, <2>7, <2>8, <2>9
<1>5. ASSUME Alignment <= PAGE PROVE IsInjective(Loads)
  <2>1. accesses <= K
    BY <1>2, <1>5 DEF LayoutOf
  <2>2. ASSUME NEW i \in 0 .. accesses - 1, NEW k \in 0 .. accesses - 1, i < k, Node(i) = Node(k)
        PROVE  FALSE
    <3>1. i \in 0 .. Len(drawn) /\ k \in 0 .. Len(drawn) /\ K > 1 /\ k # 0
      BY <1>0, <2>1, <2>2
    <3>2. PICK d \in -1 .. K - 2, e \in -1 .. K - 2 : d = NumberAt(i) /\ e = NumberAt(k)
      BY <1>1, <3>1, NumbersFit
    <3>3. d = e
      <4>1. BlockAt(d) = BlockAt(e)
        BY <2>2, <3>2 DEF Node
      <4> QED BY <1>0, <1>2, <4>1, BlocksDiffer
    <3>4. CASE i = 0
      <4>1. NumberAt(i) = -1 /\ NumberAt(k) # -1
        BY <1>1, <3>1, <3>4, NumbersFit DEF NumberAt
      <4> QED BY <3>2, <3>3, <4>1
    <3>5. CASE i # 0
      <4>1. drawn[i] = drawn[k]
        BY <3>1, <3>2, <3>3, <3>5 DEF NumberAt
      <4>2. /\ i \in 1 .. Len(drawn) /\ k \in 1 .. Len(drawn) /\ k - i < rand.max
            /\ rand.max \in Nat /\ Len(drawn) \in Nat
        BY <1>0, <1>2, <2>1, <3>1, <3>5
      <4>3. drawn[i] # drawn[k]
        BY <1>2, <2>2, <4>2, DrawDistinct
      <4> QED BY <4>1, <4>3
    <3> QED BY <3>4, <3>5
  <2>3. ASSUME NEW i \in 0 .. accesses - 1, NEW k \in 0 .. accesses - 1, Node(i) = Node(k)
        PROVE  i = k
    <3>1. i < k \/ k < i \/ i = k
      OBVIOUS
    <3> QED BY <2>2, <2>3, <3>1
  <2> QED BY <1>3, <2>3, Zenon DEF IsInjective
<1> QED BY <1>4, <1>5

\* What a script does after its first use.
LEMMA ScriptTail ==
  ASSUME NEW s \in Seq(Uses), s # <<>>, NEW b
  PROVE  /\ Head(s) \in Uses /\ Tail(s) \in Seq(Uses)
         /\ Writes(Head(s)) /\ WritesTo(s, b) =>
              WritesTo(Tail(s), b) \/ (ReadsOnly(Tail(s)) /\ Head(s).buffer = b)
         /\ ~Writes(Head(s)) /\ WritesTo(s, b) => WritesTo(Tail(s), b)
         /\ ReadsOnly(s) => ReadsOnly(Tail(s)) /\ ~Writes(Head(s))
<1>1. PICK n \in Nat \ {0} : n = Len(s)
  OBVIOUS
<1>2. /\ Head(s) = s[1] /\ s[1] \in Uses /\ Tail(s) \in Seq(Uses) /\ Len(Tail(s)) = n - 1
      /\ \A i \in 1 .. n - 1 : Tail(s)[i] = s[i + 1]
  BY <1>1
<1>3. PICK h, r : h = Head(s) /\ r = Tail(s)
  OBVIOUS
<1>4. ASSUME WritesTo(s, b)
      PROVE  WritesTo(r, b) \/ (ReadsOnly(r) /\ Writes(h) /\ h.buffer = b)
  <2>1. PICK k \in 1 .. n : /\ Writes(s[k]) /\ s[k].buffer = b
                            /\ \A i \in 1 .. n : i > k => ~Writes(s[i])
    BY <1>1, <1>4 DEF WritesTo
  <2>2. CASE k = 1
    <3>1. ASSUME NEW i \in 1 .. n - 1 PROVE ~Writes(r[i])
      <4>1. i + 1 \in 1 .. n /\ i + 1 > k /\ r[i] = s[i + 1]
        BY <1>2, <1>3, <2>2
      <4> QED BY <2>1, <4>1
    <3> QED BY <1>2, <1>3, <2>1, <2>2, <3>1 DEF ReadsOnly
  <2>3. CASE k # 1
    <3>1. k - 1 \in 1 .. n - 1 /\ r[k - 1] = s[k]
      <4>1. k - 1 \in 1 .. n - 1 /\ (k - 1) + 1 = k
        BY <2>3
      <4> QED BY <1>2, <1>3, <4>1
    <3>2. ASSUME NEW i \in 1 .. n - 1, i > k - 1 PROVE ~Writes(r[i])
      <4>1. i + 1 \in 1 .. n /\ i + 1 > k /\ r[i] = s[i + 1]
        BY <1>2, <1>3, <3>2
      <4> QED BY <2>1, <4>1
    <3>3. WritesTo(r, b)
      <4>1. Len(r) = n - 1
        BY <1>2, <1>3
      <4> QED BY <2>1, <3>1, <3>2, <4>1 DEF WritesTo
    <3> QED BY <3>3
  <2> QED BY <2>2, <2>3
<1>5. ASSUME ReadsOnly(s) PROVE ReadsOnly(r) /\ ~Writes(h)
  <2>1. \A i \in 1 .. n : ~Writes(s[i])
    BY <1>1, <1>5 DEF ReadsOnly
  <2>2. 1 \in 1 .. n
    OBVIOUS
  <2>3. ASSUME NEW i \in 1 .. n - 1 PROVE ~Writes(r[i])
    <3>1. i + 1 \in 1 .. n /\ r[i] = s[i + 1]
      BY <1>2, <1>3
    <3> QED BY <2>1, <3>1
  <2> QED BY <1>2, <1>3, <2>1, <2>2, <2>3 DEF ReadsOnly
<1> QED BY <1>2, <1>3, <1>4, <1>5

\* What two scripts do one after the other.
LEMMA ScriptsJoined ==
  ASSUME NEW r \in Seq(Uses), NEW s \in Seq(Uses), NEW b
  PROVE  /\ r \o s \in Seq(Uses)
         /\ WritesTo(s, b) => WritesTo(r \o s, b)
         /\ WritesTo(r, b) /\ ReadsOnly(s) => WritesTo(r \o s, b)
<1>1. PICK m \in Nat, n \in Nat : m = Len(r) /\ n = Len(s)
  OBVIOUS
<1>2. PICK z : z = r \o s
  OBVIOUS
<1>3. /\ z \in Seq(Uses) /\ Len(z) = m + n
      /\ \A i \in 1 .. m : z[i] = r[i]
      /\ \A i \in m + 1 .. m + n : z[i] = s[i - m]
  BY <1>1, <1>2
<1>4. ASSUME WritesTo(s, b) PROVE WritesTo(z, b)
  <2>1. PICK k \in 1 .. n : /\ Writes(s[k]) /\ s[k].buffer = b
                            /\ \A i \in 1 .. n : i > k => ~Writes(s[i])
    BY <1>1, <1>4 DEF WritesTo
  <2>2. k + m \in 1 .. m + n /\ z[k + m] = s[k]
    <3>1. k + m \in m + 1 .. m + n /\ (k + m) - m = k
      OBVIOUS
    <3> QED BY <1>3, <3>1
  <2>3. ASSUME NEW i \in 1 .. m + n, i > k + m PROVE ~Writes(z[i])
    <3>1. i \in m + 1 .. m + n /\ i - m \in 1 .. n /\ i - m > k
      BY <2>3
    <3> QED BY <1>3, <2>1, <3>1
  <2> QED BY <1>3, <2>1, <2>2, <2>3 DEF WritesTo
<1>5. ASSUME WritesTo(r, b), ReadsOnly(s) PROVE WritesTo(z, b)
  <2>1. PICK k \in 1 .. m : /\ Writes(r[k]) /\ r[k].buffer = b
                            /\ \A i \in 1 .. m : i > k => ~Writes(r[i])
    BY <1>1, <1>5 DEF WritesTo
  <2>2. \A i \in 1 .. n : ~Writes(s[i])
    BY <1>1, <1>5 DEF ReadsOnly
  <2>3. k \in 1 .. m + n /\ z[k] = r[k]
    BY <1>3
  <2>4. ASSUME NEW i \in 1 .. m + n, i > k PROVE ~Writes(z[i])
    <3>1. CASE i <= m
      <4>1. i \in 1 .. m
        BY <3>1
      <4> QED BY <1>3, <2>1, <2>4, <4>1
    <3>2. CASE i > m
      <4>1. i \in m + 1 .. m + n /\ i - m \in 1 .. n
        BY <3>2
      <4> QED BY <1>3, <2>2, <4>1
    <3> QED BY <3>1, <3>2
  <2> QED BY <1>3, <2>1, <2>3, <2>4 DEF WritesTo
<1> QED BY <1>2, <1>3, <1>4, <1>5

\* One use, and one that writes.
LEMMA OneUse ==
  ASSUME NEW b \in Measured, NEW mode \in ReadModes \cup WriteModes
  PROVE  /\ <<Use(b, mode)>> \in Seq(Uses)
         /\ mode \in WriteModes => WritesTo(<<Use(b, mode)>>, b)
         /\ mode \notin WriteModes => ReadsOnly(<<Use(b, mode)>>)
<1>1. PICK u \in Uses : u = Use(b, mode) /\ u.buffer = b /\ u.mode = mode
  <2>1. PICK u : u = [buffer |-> b, mode |-> mode]
    OBVIOUS
  <2>2. u \in [buffer : Measured, mode : ReadModes \cup WriteModes] /\ u.buffer = b /\ u.mode = mode
    BY <2>1
  <2> QED BY <2>1, <2>2 DEF Uses, Use
<1>2. <<u>> \in Seq(Uses) /\ Len(<<u>>) = 1 /\ <<u>>[1] = u
  OBVIOUS
<1>3. ASSUME mode \in WriteModes PROVE WritesTo(<<u>>, b)
  <2>1. Writes(u) /\ u.buffer = b
    BY <1>1, <1>3 DEF Writes
  <2>2. PICK s \in Seq(Uses) : s = <<u>> /\ Len(s) = 1 /\ s[1] = u
    BY <1>2
  <2>3. WritesTo(s, b)
    <3>1. 1 \in 1 .. Len(s) /\ \A i \in 1 .. Len(s) : ~(i > 1)
      BY <2>2
    <3> QED BY <2>1, <2>2, <3>1 DEF WritesTo
  <2> QED BY <2>2, <2>3
<1>4. ASSUME mode \notin WriteModes PROVE ReadsOnly(<<u>>)
  BY <1>1, <1>2, <1>4 DEF ReadsOnly, Writes
<1> QED BY <1>1, <1>2, <1>3, <1>4

\* The share CPUs that use the memory first, ...
LEMMA FirstSharers ==
  ASSUME setup \in SETUPS, NEW b \in Measured
  PROVE  /\ SharersFirst(b) \in Seq(Uses)
         /\ setup.USE_MODE \in {"FORWARD", "MUW"} => WritesTo(SharersFirst(b), b)
<1>1. /\ setup.NUM_SHARED_CPUS \in Nat /\ setup.USE_MODE \in UseModes
      /\ setup.USE_MODE \in SharedModes <=> setup.NUM_SHARED_CPUS > 0
  BY SetupIs
<1>2. CASE setup.USE_MODE = "FORWARD"
  <2>1. PICK n \in Nat \ {0} : n = setup.NUM_SHARED_CPUS
    BY <1>1, <1>2 DEF SharedModes, ReadModes
  <2> DEFINE s == [k \in 1 .. n |-> Use(b, IF k = 1 THEN "EXCLUSIVE" ELSE "FORWARD")]
  <2>2. SharersFirst(b) = s
    BY <1>2, <2>1 DEF SharersFirst
  <2>3. ASSUME NEW k \in 1 .. n
        PROVE  /\ s[k] \in Uses /\ s[k].buffer = b
               /\ s[k].mode = IF k = 1 THEN "EXCLUSIVE" ELSE "FORWARD"
    <3>1. s[k] = [buffer |-> b, mode |-> IF k = 1 THEN "EXCLUSIVE" ELSE "FORWARD"]
      BY DEF Use
    <3> HIDE DEF s
    <3> QED BY <3>1 DEF Uses, ReadModes, WriteModes
  <2>4. s \in Seq(Uses) /\ Len(s) = n
    <3>1. \A k \in 1 .. n : s[k] \in Uses
      BY <2>3
    <3> QED BY <3>1
  <2>5. WritesTo(s, b)
    <3>1. 1 \in 1 .. n /\ s[1].buffer = b /\ Writes(s[1])
      BY <2>3 DEF Writes, WriteModes
    <3>2. ASSUME NEW i \in 1 .. n, i > 1 PROVE ~Writes(s[i])
      <4>1. s[i].mode = "FORWARD"
        BY <2>3, <3>2
      <4> HIDE DEF s
      <4> QED BY <4>1 DEF Writes, WriteModes
    <3> HIDE DEF s
    <3> QED BY <2>4, <3>1, <3>2 DEF WritesTo
  <2> HIDE DEF s
  <2> QED BY <2>2, <2>4, <2>5
<1>3. CASE setup.USE_MODE = "MUW"
  <2>1. SharersFirst(b) = <<Use(b, "MODIFIED")>>
    BY <1>3 DEF SharersFirst
  <2>2. "MODIFIED" \in WriteModes
    BY DEF WriteModes
  <2> QED BY <2>1, <2>2, OneUse
<1>4. CASE setup.USE_MODE \notin {"FORWARD", "MUW"}
  <2>1. SharersFirst(b) = <<>>
    BY <1>4 DEF SharersFirst
  <2> QED BY <1>4, <2>1
<1> QED BY <1>2, <1>3, <1>4

\* ... and those that read it then.
LEMMA ThenSharers ==
  ASSUME setup \in SETUPS, NEW b \in Measured
  PROVE  SharersThen(b) \in Seq(Uses) /\ ReadsOnly(SharersThen(b))
<1>1. setup.NUM_SHARED_CPUS \in Nat
  BY SetupIs
<1>2. CASE setup.USE_MODE = "SHARED"
  <2>1. PICK n \in Nat : n = setup.NUM_SHARED_CPUS
    BY <1>1
  <2> DEFINE s == [k \in 1 .. n |-> Use(b, "SHARED")]
  <2>2. SharersThen(b) = s
    BY <1>2, <2>1 DEF SharersThen
  <2>3. ASSUME NEW k \in 1 .. n PROVE s[k] \in Uses /\ ~Writes(s[k])
    <3>1. s[k] = [buffer |-> b, mode |-> "SHARED"]
      BY DEF Use
    <3> HIDE DEF s
    <3> QED BY <3>1 DEF Uses, Writes, ReadModes, WriteModes
  <2>4. s \in Seq(Uses) /\ Len(s) = n
    <3>1. \A k \in 1 .. n : s[k] \in Uses
      BY <2>3
    <3> QED BY <3>1
  <2> HIDE DEF s
  <2> QED BY <2>2, <2>3, <2>4 DEF ReadsOnly
<1>3. CASE setup.USE_MODE = "OWNED"
  <2>1. SharersThen(b) = <<Use(b, "OWNED")>>
    BY <1>3 DEF SharersThen
  <2>2. "OWNED" \in ReadModes /\ "OWNED" \notin WriteModes
    BY DEF ReadModes, WriteModes
  <2> QED BY <2>1, <2>2, OneUse
<1>4. CASE setup.USE_MODE \notin {"SHARED", "OWNED"}
  <2>1. SharersThen(b) = <<>>
    BY <1>4 DEF SharersThen
  <2> QED BY <2>1 DEF ReadsOnly
<1> QED BY <1>2, <1>3, <1>4

\* In every use mode the buffer of the target is written last of all that write.
LEMMA ScriptWrites ==
  ASSUME setup \in SETUPS, NEW b \in Measured
  PROVE  Script(b) \in Seq(Uses) /\ WritesTo(Script(b), b)
<1>1. setup.USE_MODE \in UseModes /\ setup.NUM_RESULTS \in Nat \ {0}
  BY SetupIs
<1>2. PICK f : f = FlushPageTables(b)
  OBVIOUS
<1>3. f \in Seq(Uses)
  <2>1. 0 \in Measured /\ "EXCLUSIVE" \in ReadModes \cup WriteModes
    BY <1>1 DEF Measured, WriteModes
  <2>2. PICK c \in Measured, m \in ReadModes \cup WriteModes : c = 0 /\ m = "EXCLUSIVE"
    BY <2>1
  <2>3. <<Use(c, m)>> \in Seq(Uses)
    BY OneUse
  <2> QED BY <1>2, <2>2, <2>3 DEF FlushPageTables
<1>4. PICK x \in Seq(Uses) : /\ x = SharersFirst(b)
                             /\ setup.USE_MODE \in {"FORWARD", "MUW"} => WritesTo(x, b)
  BY FirstSharers
<1>5. PICK z \in Seq(Uses) : z = SharersThen(b) /\ ReadsOnly(z)
  BY ThenSharers
<1>6. /\ OwnMode \in ReadModes \cup WriteModes
      /\ setup.USE_MODE \notin {"FORWARD", "MUW"} => OwnMode \in WriteModes
      /\ setup.USE_MODE \in {"FORWARD", "MUW"} => OwnMode \notin WriteModes
  BY <1>1 DEF OwnMode, UseModes, SharedModes, ReadModes, WriteModes
<1>7. PICK y \in Seq(Uses) : /\ y = <<Use(b, OwnMode)>>
                             /\ setup.USE_MODE \notin {"FORWARD", "MUW"} => WritesTo(y, b)
                             /\ setup.USE_MODE \in {"FORWARD", "MUW"} => ReadsOnly(y)
  BY <1>6, OneUse
<1>8. PICK u \in Seq(Uses) : u = x \o y /\ WritesTo(u, b)
  BY <1>4, <1>7, ScriptsJoined
<1>9. PICK v \in Seq(Uses) : v = u \o z /\ WritesTo(v, b)
  BY <1>5, <1>8, ScriptsJoined
<1>10. f \o v \in Seq(Uses) /\ WritesTo(f \o v, b)
  BY <1>3, <1>9, ScriptsJoined
<1>11. Script(b) = f \o v
  BY <1>2, <1>4, <1>5, <1>7, <1>8, <1>9 DEF Script
<1> QED BY <1>10, <1>11
----------------------------------------------------------------------------
\* After the same block the chain goes on in the same way, wherever in it.
NodesAgain ==
  \A i \in 0 .. Len(drawn) - 1, k \in 0 .. Len(drawn) - 1 : Node(i) = Node(k) => Node(i + 1) = Node(k + 1)

\* The generator repeats itself, and so does the chain.
LEMMA NodesRepeat ==
  BlocksFit /\ Measurable /\ Chosen /\ GeneratorInv /\ NothingDrawn /\ rand.max = BlocksBehindFirst
    => NodesAgain
<1> SUFFICES ASSUME BlocksFit, Measurable, Chosen, GeneratorInv, NothingDrawn, rand.max = BlocksBehindFirst
             PROVE  NodesAgain
  OBVIOUS
<1>a. PICK num \in Nat, usable \in Nat, K \in Nat \ {0} : \E q : LaidOut(num, usable, K, q)
  BY LaidOutIs
<1>1. PICK q : LaidOut(num, usable, K, q)
  BY <1>a
<1>2. setup \in SETUPS /\ memsize \in Nat \ {0}
  BY DEF Measurable
<1> QED BY <1>1, <1>2, NodeAgain DEF NodesAgain

\* The same, of the next state.
LEMMA NodesRepeatThen ==
  BlocksFit /\ Measurable' /\ Chosen' /\ GeneratorInv' /\ NothingDrawn' /\ (rand.max = BlocksBehindFirst)'
    => NodesAgain'
<1>1. BlocksFit => BlocksFit'
  BY DEF BlocksFit
<1> QED BY <1>1, NodesRepeat, PTL

\* The numbers drawn, of the next state.
LEMMA DrawThen == GeneratorInv' /\ NothingDrawn' /\ rand'.max \in Nat => IsDraw'
<1>1. (rand.max \in Nat)' <=> rand'.max \in Nat
  OBVIOUS
<1> QED BY <1>1, DrawIs, PTL

\* A number is drawn.
LEMMA NumberDrawn ==
  ASSUME GeneratorInv, NothingDrawn, rand.max \in Nat, random
  PROVE  /\ GeneratorInv' /\ NothingDrawn' /\ rand'.max = rand.max /\ IsDraw'
         /\ Len(drawn) \in Nat /\ Len(drawn') = Len(drawn) + 1
         /\ \A i \in 1 .. Len(drawn) : drawn'[i] = drawn[i]
         /\ drawn'[Len(drawn) + 1] = Number
         /\ rand.max = 0 => Number = -1
         /\ rand.max > 0 => Number \in 0 .. rand.max - 1
<1>1. GeneratorInv' /\ rand'.max = rand.max
  BY GeneratorNext
<1>2. PICK v : v = Number
  OBVIOUS
<1>3. PICK S : drawn \in Seq(S)
  BY DEF GeneratorInv, RandomInv
<1>4. drawn' = Append(drawn, v)
  BY <1>2 DEF random
<1>5. PICK n \in Nat : n = Len(drawn)
  BY <1>3
<1>6. Len(drawn') = n + 1 /\ drawn'[n + 1] = v /\ \A i \in 1 .. n : drawn'[i] = drawn[i]
  BY <1>3, <1>4, <1>5
<1>7. rand.max = 0 => v = -1
  BY <1>2 DEF Number
<1>8. NothingDrawn'
  <2>1. ASSUME rand'.max = 0, NEW i \in 1 .. n + 1 PROVE drawn'[i] = -1
    <3>1. i \in 1 .. n \/ i = n + 1
      BY <1>5
    <3> QED BY <1>1, <1>5, <1>6, <1>7, <2>1, <3>1 DEF NothingDrawn
  <2> QED BY <1>6, <2>1 DEF NothingDrawn
<1>9. IsDraw'
  BY <1>1, <1>8, DrawThen
<1>10. rand.max > 0 => v \in 0 .. rand.max - 1
  <2>1. n + 1 \in 1 .. Len(drawn')
    BY <1>5, <1>6
  <2> QED BY <1>1, <1>6, <1>9, <2>1 DEF IsDraw
<1> QED BY <1>1, <1>2, <1>5, <1>6, <1>7, <1>8, <1>9, <1>10

\* A new sequence of numbers begins.
LEMMA DrawBegins ==
  ASSUME NEW s \in Nat, NEW max \in Nat, max > 0 => SearchEnds(s, max), GeneratorInv, random_init(s, max)
  PROVE  GeneratorInv' /\ NothingDrawn' /\ rand'.max = max /\ Len(drawn') = 0
<1>1. GeneratorInv' /\ rand'.max = max /\ drawn' = <<>>
  BY GeneratorInit
<1> QED BY <1>1 DEF NothingDrawn

\* What depends on the parameters and the size only.
LEMMA LayoutStays ==
  ASSUME setup' = setup
  PROVE  /\ Alignment' = Alignment /\ Measured' = Measured /\ Uses' = Uses /\ Addresses' = Addresses
         /\ memsize' = memsize /\ accesses' = accesses =>
              Layouts' = Layouts /\ BlocksBehindFirst' = BlocksBehindFirst
         /\ \A m, n : Chain(m, n)' = Chain(m, n)
<1>1. Alignment' = Alignment /\ Measured' = Measured /\ Addresses' = Addresses
  BY DEF Alignment, Measured, Addresses
<1>2. Uses' = Uses
  BY <1>1 DEF Uses
<1>3. ASSUME NEW m, NEW n PROVE Chain(m, n)' = Chain(m, n)
  BY <1>1 DEF Chain
<1>4. ASSUME memsize' = memsize, accesses' = accesses
      PROVE  Layouts' = Layouts /\ BlocksBehindFirst' = BlocksBehindFirst
  <2>1. Layouts' = Layouts
    BY <1>1, <1>3, <1>4 DEF Layouts, Layout, Chain
  <2> QED BY <1>1, <2>1 DEF BlocksBehindFirst
<1> QED BY <1>1, <1>2, <1>3, <1>4

\* Chosen pages stay where they are.
LEMMA ChosenStays ==
  ASSUME UNCHANGED <<setup, memsize, accesses, page_address, buffer>>
  PROVE  /\ Chosen' <=> Chosen
         /\ \A d \in Int : BlockAt(d)' = BlockAt(d)
<1>1. Alignment' = Alignment /\ Layouts' = Layouts
  BY LayoutStays
<1>2. Chosen' <=> Chosen
  BY <1>1 DEF Chosen
<1>3. ASSUME NEW d \in Int PROVE BlockAt(d)' = BlockAt(d)
  BY <1>1 DEF BlockAt, BeginOf
<1> QED BY <1>2, <1>3

\* So does the chain.
LEMMA LinkedStays ==
  ASSUME UNCHANGED <<setup, memsize, accesses, page_address, buffer, rand, drawn, j, tmp_addr, memory>>,
         Linked
  PROVE  Linked'
<1>1. Alignment' = Alignment /\ BlocksBehindFirst' = BlocksBehindFirst
  BY LayoutStays
<1>2. Chosen'
  BY ChosenStays DEF Linked
<1>3. ASSUME NEW i PROVE Node(i)' = Node(i)
  <2>1. NumberAt(i)' = NumberAt(i)
    BY DEF NumberAt
  <2>2. PICK d : d = NumberAt(i)
    OBVIOUS
  <2> QED BY <1>1, <2>1 DEF Node, BlockAt, BeginOf
<1> QED BY <1>1, <1>2, <1>3 DEF Linked
----------------------------------------------------------------------------
\* The inductive invariant.
LatencyInv == WorkInv /\ ScriptInv /\ LinkInv /\ GeneratorInv /\ NothingDrawn

\* It holds at the start.
LEMMA LatencyStart == Init => LatencyInv
<1> SUFFICES ASSUME Init PROVE LatencyInv
  OBVIOUS
<1>1. GeneratorInv /\ NothingDrawn
  <2>1. RandomStart
    BY DEF Init
  <2>2. drawn = <<>>
    BY <2>1 DEF RandomStart
  <2> QED BY <2>1, <2>2, GeneratorStart DEF NothingDrawn
<1>2. pc = "idle" /\ setup \in SETUPS /\ page_address = <<>>
  BY DEF Init
<1>3. PagesInRoom
  <2>1. DOMAIN page_address = {}
    BY <1>2
  <2> QED BY <2>1 DEF PagesInRoom, Range
<1> QED BY <1>1, <1>2, <1>3 DEF LatencyInv, WorkInv, ScriptInv, LinkInv

\* Steps that leave the pages and the generator alone, between measurements.
LEMMA Between ==
  ASSUME LatencyInv, UNCHANGED <<setup, placeVars, randVars, room>>, pc' \in {"idle", "thread"},
         pc' # "idle" => /\ memsize' \in Nat \ {0} /\ accesses' = Chain(memsize', setup.ACCESSES)
                         /\ room' = Pages(memsize') /\ t' \in Nat
  PROVE  LatencyInv'
<1>1. GeneratorInv' /\ NothingDrawn'
  BY GeneratorStays DEF LatencyInv, NothingDrawn, randVars
<1>2. PagesInRoom'
  BY LayoutStays DEF LatencyInv, WorkInv, PagesInRoom, placeVars, Range
<1>3. Chain(memsize, setup.ACCESSES)' = Chain(memsize', setup.ACCESSES)
  <2>1. Alignment' = Alignment
    BY LayoutStays
  <2> QED BY <2>1 DEF Chain
<1>4. WorkInv'
  BY <1>2, <1>3 DEF LatencyInv, WorkInv
<1> QED BY <1>1, <1>4 DEF LatencyInv, ScriptInv, LinkInv

\* _work() is called: what is left of page_address is in the room for it.
LEMMA EntryKeeps ==
  ASSUME LatencyInv, Entry
  PROVE  LatencyInv'
<1>1. PICK m \in MEMSIZES :
        /\ memsize' = m /\ accesses' = Chain(m, setup.ACCESSES) /\ room' = Room(m)
        /\ page_address' = Restrict(page_address, DOMAIN page_address \cap 0 .. Room(m) - 1)
  BY DEF Entry
<1>2. m \in Nat \ {0} /\ room' = Pages(m)
  BY <1>1, LatencyKernelAssumption DEF Room
<1>3. t' = 0 /\ pc' = "thread" /\ setup' = setup /\ UNCHANGED randVars
  BY DEF Entry
<1>4. Addresses' = Addresses
  BY <1>3, LayoutStays
<1>5. PagesInRoom'
  <2>1. PICK n : n = room' /\ n = Room(m)
    BY <1>1
  <2>2. PICK D : D = DOMAIN page_address \cap 0 .. n - 1
    OBVIOUS
  <2>3. page_address' = [x \in D |-> page_address[x]]
    BY <1>1, <2>1, <2>2 DEF Restrict
  <2>4. DOMAIN page_address' = D /\ \A x \in D : page_address'[x] = page_address[x]
    BY <2>3
  <2>5. \A x \in DOMAIN page_address : page_address[x] \in Addresses
    BY DEF LatencyInv, WorkInv, PagesInRoom, Range
  <2> QED BY <1>4, <2>1, <2>2, <2>4, <2>5 DEF PagesInRoom, Range
<1>6. Chain(memsize, setup.ACCESSES)' = Chain(m, setup.ACCESSES)
  <2>1. Alignment' = Alignment
    BY <1>3, LayoutStays
  <2> QED BY <1>1, <1>3, <2>1 DEF Chain
<1>7. WorkInv'
  BY <1>1, <1>2, <1>3, <1>5, <1>6 DEF LatencyInv, WorkInv
<1>8. GeneratorInv' /\ NothingDrawn'
  BY <1>3, GeneratorStays DEF LatencyInv, NothingDrawn, randVars
<1> QED BY <1>3, <1>7, <1>8 DEF LatencyInv, ScriptInv, LinkInv

\* A run is prepared: its script ends with the target's buffer written.
LEMMA RunBegins ==
  ASSUME LatencyInv, UNCHANGED <<setup, workVars, placeVars, randVars, t>>, pc \in {"thread", "measure"},
         pc' = "run", script' = Script(t), t \in Measured, accesses >= UNROLL
  PROVE  LatencyInv'
<1>1. /\ setup' = setup /\ memsize' = memsize /\ accesses' = accesses /\ room' = room
      /\ page_address' = page_address /\ t' = t
  BY DEF workVars, placeVars
<1>2. GeneratorInv' /\ NothingDrawn'
  BY GeneratorStays DEF LatencyInv, NothingDrawn, randVars
<1>3. Measured' = Measured /\ Uses' = Uses /\ Addresses' = Addresses
      /\ Chain(memsize, setup.ACCESSES)' = Chain(memsize, setup.ACCESSES)
  <2>1. Alignment' = Alignment
    BY <1>1, LayoutStays
  <2> QED BY <1>1, <2>1, LayoutStays DEF Chain
<1>4. PagesInRoom'
  BY <1>1, <1>3 DEF LatencyInv, WorkInv, PagesInRoom, Range
<1>5. WorkInv'
  BY <1>1, <1>3, <1>4 DEF LatencyInv, WorkInv
<1>6. Script(t) \in Seq(Uses) /\ WritesTo(Script(t), t)
  BY ScriptWrites DEF LatencyInv, WorkInv
<1>7. script' \in Seq(Uses') /\ WritesTo(script, t)'
  BY <1>1, <1>3, <1>6 DEF WritesTo
<1>8. ScriptInv'
  BY <1>7 DEF ScriptInv
<1> QED BY <1>2, <1>5, <1>8 DEF LatencyInv, LinkInv

\* The next target: its run is prepared, or there is nothing to measure.
LEMMA TargetKeeps ==
  ASSUME LatencyInv, Target
  PROVE  LatencyInv'
<1>1. /\ pc = "thread" /\ t \in Measured /\ UNCHANGED <<setup, workVars, placeVars, randVars>>
      /\ memsize \in Nat \ {0} /\ accesses = Chain(memsize, setup.ACCESSES)
      /\ room = Pages(memsize) /\ t \in Nat
  BY DEF Target, LatencyInv, WorkInv
<1>2. CASE accesses >= UNROLL
  <2>1. pc' = "run" /\ script' = Script(t) /\ t' = t
    BY <1>2 DEF Target
  <2> QED BY <1>1, <1>2, <2>1, RunBegins
<1>3. CASE ~(accesses >= UNROLL)
  <2>1. pc' = "thread" /\ t' = t + 1
    BY <1>1, <1>3 DEF Target
  <2>2. t' \in Nat /\ memsize' = memsize /\ accesses' = accesses /\ room' = room
    BY <1>1, <2>1 DEF workVars
  <2> QED BY <1>1, <2>1, <2>2, Between
<1> QED BY <1>2, <1>3

\* _work() returns.
LEMMA ReturnKeeps ==
  ASSUME LatencyInv, Return
  PROVE  LatencyInv'
<1>1. pc' = "idle" /\ UNCHANGED <<setup, placeVars, randVars, room>>
  BY DEF Return, workVars
<1> QED BY <1>1, Between

\* A measurement: the next run is prepared, or the next target is due.
LEMMA MeasureKeeps ==
  ASSUME LatencyInv, Measure
  PROVE  LatencyInv'
<1>1. /\ pc = "measure" /\ t \in Measured /\ UNCHANGED <<setup, workVars, placeVars, randVars>>
      /\ memsize \in Nat \ {0} /\ accesses = Chain(memsize, setup.ACCESSES) /\ accesses >= UNROLL
      /\ room = Pages(memsize) /\ t \in Nat
  BY DEF Measure, LatencyInv, WorkInv
<1>2. CASE iteration + 1 < runs
  <2>1. pc' = "run" /\ script' = Script(t) /\ t' = t
    BY <1>2 DEF Measure
  <2> QED BY <1>1, <2>1, RunBegins
<1>3. CASE ~(iteration + 1 < runs)
  <2>1. pc' = "thread" /\ t' = t + 1
    BY <1>3 DEF Measure
  <2>2. t' \in Nat /\ memsize' = memsize /\ accesses' = accesses /\ room' = room
    BY <1>1, <2>1 DEF workVars
  <2> QED BY <1>1, <2>1, <2>2, Between
<1> QED BY <1>2, <1>3

\* Steps within a run that leave the buffers and the generator alone.
LEMMA WithinRun ==
  ASSUME LatencyInv, UNCHANGED <<setup, workVars, placeVars, randVars, t>>,
         pc \in {"run", "link"}, pc' \in {"run", "measure"}
  PROVE  /\ GeneratorInv' /\ NothingDrawn' /\ WorkInv' /\ Uses' = Uses
         /\ Linked => Linked'
<1>1. /\ setup' = setup /\ memsize' = memsize /\ accesses' = accesses /\ room' = room
      /\ page_address' = page_address /\ t' = t /\ buffer' = buffer /\ j' = j
      /\ tmp_addr' = tmp_addr /\ memory' = memory /\ rand' = rand /\ drawn' = drawn
  BY DEF workVars, placeVars, randVars
<1>2. GeneratorInv' /\ NothingDrawn'
  BY GeneratorStays DEF LatencyInv, NothingDrawn, randVars
<1>3. Measured' = Measured /\ Uses' = Uses /\ Addresses' = Addresses
      /\ Chain(memsize, setup.ACCESSES)' = Chain(memsize, setup.ACCESSES)
  <2>1. Alignment' = Alignment
    BY <1>1, LayoutStays
  <2> QED BY <1>1, <2>1, LayoutStays DEF Chain
<1>4. PagesInRoom'
  BY <1>1, <1>3 DEF LatencyInv, WorkInv, PagesInRoom, Range
<1>5. WorkInv'
  BY <1>1, <1>3, <1>4 DEF LatencyInv, WorkInv
<1>6. Linked => Linked'
  BY <1>1, LinkedStays
<1> QED BY <1>2, <1>3, <1>5, <1>6

\* A use that reads changes nothing that the chain depends on.
LEMMA ReadMemoryKeeps ==
  ASSUME LatencyInv, ReadMemory
  PROVE  LatencyInv'
<1>1. /\ pc = "run" /\ pc' = "run" /\ script # <<>> /\ Head(script).mode \in ReadModes
      /\ script' = Tail(script) /\ UNCHANGED <<setup, workVars, placeVars, randVars, t>>
  BY DEF ReadMemory
<1>2. /\ GeneratorInv' /\ NothingDrawn' /\ WorkInv' /\ Uses' = Uses
      /\ Linked => Linked'
  BY <1>1, WithinRun
<1>3. script \in Seq(Uses) /\ (WritesTo(script, t) \/ (ReadsOnly(script) /\ Whole))
  BY <1>1 DEF LatencyInv, ScriptInv
<1>4. ~Writes(Head(script))
  BY <1>1 DEF Writes, ReadModes, WriteModes
<1>5. PICK r : r = Tail(script)
  OBVIOUS
<1>6. r \in Seq(Uses) /\ (WritesTo(r, t) \/ (ReadsOnly(r) /\ Whole))
  BY <1>1, <1>3, <1>4, <1>5, ScriptTail
<1>7. Whole => Whole'
  BY <1>1, <1>2 DEF Whole, workVars, placeVars
<1>8. script' = r /\ t' = t
  BY <1>1, <1>5
<1>9. WritesTo(script, t)' \/ (ReadsOnly(script)' /\ Whole')
  BY <1>6, <1>7, <1>8 DEF WritesTo, ReadsOnly, Writes
<1>10. ScriptInv'
  BY <1>1, <1>2, <1>6, <1>8, <1>9 DEF ScriptInv
<1> QED BY <1>1, <1>2, <1>10 DEF LatencyInv, LinkInv

\* When the script is done the chain is whole.
LEMMA FlushKeeps ==
  ASSUME LatencyInv, Flush
  PROVE  LatencyInv'
<1>1. /\ pc = "run" /\ pc' = "measure" /\ script = <<>>
      /\ UNCHANGED <<setup, workVars, placeVars, randVars, t>>
  BY DEF Flush
<1>2. /\ GeneratorInv' /\ NothingDrawn' /\ WorkInv'
      /\ Linked => Linked'
  BY <1>1, WithinRun
<1>3. Whole
  <2>1. Len(script) = 0
    BY <1>1
  <2>2. ~WritesTo(script, t)
    BY <2>1 DEF WritesTo
  <2> QED BY <1>1, <2>2 DEF LatencyInv, ScriptInv
<1>4. Whole'
  BY <1>1, <1>2, <1>3 DEF Whole, workVars, placeVars
<1> QED BY <1>1, <1>2, <1>4 DEF LatencyInv, LinkInv, ScriptInv

\* A chain with all its links is whole.
LEMMA UsedKeeps ==
  ASSUME LatencyInv, Used
  PROVE  LatencyInv'
<1>1. /\ pc = "link" /\ pc' = "run" /\ j >= accesses
      /\ UNCHANGED <<setup, workVars, placeVars, randVars, t, script>>
  BY DEF Used
<1>2. /\ GeneratorInv' /\ NothingDrawn' /\ WorkInv' /\ Uses' = Uses
      /\ Linked => Linked'
  BY <1>1, WithinRun
<1>3. script \in Seq(Uses) /\ (WritesTo(script, t) \/ (ReadsOnly(script) /\ buffer = t)) /\ Linked
  BY <1>1 DEF LatencyInv, ScriptInv, LinkInv
<1>4. j = accesses
  <2>1. accesses \in Nat
    <3>1. /\ setup \in SETUPS /\ memsize \in Nat \ {0} /\ accesses = Chain(memsize, setup.ACCESSES)
      BY <1>1 DEF LatencyInv, WorkInv
    <3>2. setup.ACCESSES \in Nat /\ PAGE \in Nat \ {0} /\ Alignment \in Nat \ {0} /\ UNROLL \in Nat \ {0}
      BY <3>1, SetupIs
    <3> QED BY <3>1, <3>2, ChainIs
  <2> QED BY <1>1, <1>3, <2>1 DEF Linked
<1>5. /\ script' = script /\ t' = t /\ buffer' = buffer /\ j' = j /\ accesses' = accesses
  BY <1>1 DEF workVars, placeVars
<1>6. WritesTo(script, t)' \/ (ReadsOnly(script)' /\ Whole')
  BY <1>2, <1>3, <1>4, <1>5 DEF WritesTo, ReadsOnly, Writes, Whole
<1>7. ScriptInv'
  BY <1>1, <1>2, <1>3, <1>5, <1>6 DEF ScriptInv
<1> QED BY <1>1, <1>2, <1>7 DEF LatencyInv, LinkInv

\* The searches of _random_init() that use_memory() asks for come to an end.
CallsReturn ==
  \A s \in SEEDS :
    /\ pc = "run" /\ memsize \div PAGE > 1 => SearchEnds(s, (memsize \div PAGE) - 1)
    /\ pc = "pages" /\ BlocksBehindFirst > 0 => SearchEnds(s, BlocksBehindFirst)

\* What holds within a run.
LEMMA WithinCall ==
  ASSUME LatencyInv, pc \in {"run", "pages", "link"}
  PROVE  /\ Measurable /\ setup \in SETUPS /\ memsize \in Nat \ {0} /\ accesses \in Nat
         /\ room = Pages(memsize) /\ t \in Measured /\ script \in Seq(Uses)
         /\ PAGE \in Nat \ {0} /\ Alignment \in Nat \ {0} /\ PagesInRoom
<1>1. Measurable /\ setup \in SETUPS /\ memsize \in Nat \ {0} /\ room = Pages(memsize)
      /\ t \in Measured /\ script \in Seq(Uses) /\ accesses = Chain(memsize, setup.ACCESSES) /\ PagesInRoom
  BY DEF LatencyInv, WorkInv, ScriptInv, Measurable
<1>2. setup.ACCESSES \in Nat /\ PAGE \in Nat \ {0} /\ Alignment \in Nat \ {0} /\ UNROLL \in Nat \ {0}
  BY <1>1, SetupIs
<1>3. accesses \in Nat
  BY <1>1, <1>2, ChainIs
<1> QED BY <1>1, <1>2, <1>3

\* The pages stay in their room when one more is put into it.
LEMMA PageAdded ==
  ASSUME LatencyInv, UNCHANGED <<setup, memsize, room>>, NEW i \in Nat, i < Pages(memsize),
         room = Pages(memsize), Pages(memsize) \in Nat,
         NEW b \in Measured, NEW o \in Nat, page_address' = Put(page_address, i, <<b, o>>)
  PROVE  /\ PagesInRoom'
         /\ i \in DOMAIN page_address' /\ page_address'[i] = <<b, o>>
         /\ \A k \in DOMAIN page_address : k \in DOMAIN page_address'
                                          /\ (k # i => page_address'[k] = page_address[k])
<1>1. PICK D, v : D = DOMAIN page_address \cup {i} /\ v = <<b, o>>
  OBVIOUS
<1>2. page_address' = [z \in D |-> IF z = i THEN v ELSE page_address[z]]
  BY <1>1 DEF Put
<1>3. DOMAIN page_address' = D /\ \A z \in D : page_address'[z] = IF z = i THEN v ELSE page_address[z]
  BY <1>2
<1>4. v \in Addresses
  BY <1>1 DEF Addresses, Measured
<1>5. \A x \in DOMAIN page_address : page_address[x] \in Addresses /\ x \in 0 .. room - 1
  BY DEF LatencyInv, WorkInv, PagesInRoom, Range
<1>6. i \in 0 .. room - 1 /\ room' = room /\ Addresses' = Addresses
  BY LayoutStays
<1>7. PagesInRoom'
  <2>1. ASSUME NEW z \in D PROVE z \in 0 .. room' - 1 /\ page_address'[z] \in Addresses'
    BY <1>1, <1>3, <1>4, <1>5, <1>6
  <2> QED BY <1>3, <2>1 DEF PagesInRoom, Range
<1> QED BY <1>1, <1>3, <1>7

\* A use that writes begins: the first page is the begin of the buffer.
LEMMA ClearMemoryKeeps ==
  ASSUME BlocksFit, CallsReturn, LatencyInv, ClearMemory
  PROVE  LatencyInv'
<1>1. /\ pc = "run" /\ pc' = "pages" /\ script # <<>> /\ Head(script).mode \in WriteModes
      /\ buffer' = Head(script).buffer /\ script' = Tail(script)
      /\ accesses' = Layouts.accesses /\ j' = 1
      /\ page_address' = Put(page_address, 0, <<buffer', 0>>)
      /\ UNCHANGED <<setup, memsize, room, t>>
  BY DEF ClearMemory
<1>2. /\ Measurable /\ setup \in SETUPS /\ memsize \in Nat \ {0} /\ accesses \in Nat
      /\ room = Pages(memsize) /\ t \in Measured /\ script \in Seq(Uses)
      /\ PAGE \in Nat \ {0} /\ Alignment \in Nat \ {0}
  BY <1>1, WithinCall
<1>3. PICK num \in Nat, usable \in Nat, K \in Nat \ {0} : LayoutOf(num, usable, K)
  BY <1>2, LayoutIs
<1>4. accesses' = accesses
  BY <1>1, <1>3 DEF LayoutOf
<1>5. PICK pg \in Nat \ {0} : pg = Pages(memsize) /\ (memsize >= PAGE => pg = memsize \div PAGE)
  BY <1>2, MaskedIs
<1>6. /\ GeneratorInv' /\ NothingDrawn'
      /\ num > 1 => rand'.max = pg - 1 /\ Len(drawn') = 0
  <2>1. CASE usable >= PAGE
    <3>1. PICK s \in SEEDS : random_init(s, (memsize \div PAGE) - 1)
      BY <1>3, <2>1 DEF ClearMemory, LayoutOf
    <3>2. memsize \div PAGE = pg
      BY <1>3, <1>5, <2>1 DEF LayoutOf
    <3>3. PICK max \in Nat : max = pg - 1
      OBVIOUS
    <3>4. s \in Nat /\ random_init(s, max) /\ (max > 0 => SearchEnds(s, max))
      BY <1>1, <3>1, <3>2, <3>3, LatencyKernelAssumption DEF CallsReturn
    <3>5. GeneratorInv' /\ NothingDrawn' /\ rand'.max = max /\ Len(drawn') = 0
      BY <3>4, DrawBegins DEF LatencyInv
    <3> QED BY <3>3, <3>5
  <2>2. CASE ~(usable >= PAGE)
    <3>1. UNCHANGED randVars
      BY <1>3, <2>2 DEF ClearMemory, LayoutOf
    <3>2. GeneratorInv' /\ NothingDrawn'
      BY <3>1, GeneratorStays DEF LatencyInv, NothingDrawn, randVars
    <3>3. num = 1
      BY <1>2, <1>3, <2>2 DEF LayoutOf
    <3> QED BY <3>2, <3>3
  <2> QED BY <2>1, <2>2
<1>7. PICK h, r : h = Head(script) /\ r = Tail(script)
  OBVIOUS
<1>8. /\ h \in Uses /\ r \in Seq(Uses) /\ Writes(h) /\ h.buffer \in Measured
      /\ WritesTo(r, t) \/ (ReadsOnly(r) /\ h.buffer = t)
  <2>1. WritesTo(script, t) \/ ReadsOnly(script)
    BY <1>1 DEF LatencyInv, ScriptInv
  <2>2. Writes(h)
    BY <1>1, <1>7 DEF Writes
  <2>3. h \in Uses /\ r \in Seq(Uses)
    BY <1>1, <1>2, <1>7, ScriptTail
  <2>4. WritesTo(r, t) \/ (ReadsOnly(r) /\ h.buffer = t)
    BY <1>1, <1>2, <1>7, <2>1, <2>2, ScriptTail
  <2>5. h.buffer \in Measured
    BY <2>3 DEF Uses
  <2> QED BY <2>2, <2>3, <2>4, <2>5
<1>9. buffer' = h.buffer /\ script' = r /\ t' = t
  BY <1>1, <1>7
<1>10. /\ Measured' = Measured /\ Uses' = Uses /\ Layouts' = Layouts
       /\ Chain(memsize, setup.ACCESSES)' = Chain(memsize, setup.ACCESSES)
  <2>1. Alignment' = Alignment
    BY <1>1, LayoutStays
  <2>2. Measured' = Measured /\ Uses' = Uses /\ Layouts' = Layouts
    BY <1>1, <1>4, LayoutStays
  <2>3. Chain(memsize, setup.ACCESSES)' = Chain(memsize, setup.ACCESSES)
    BY <1>1, <2>1 DEF Chain
  <2> QED BY <2>2, <2>3
<1>11. PICK b \in Measured : b = buffer' /\ page_address' = Put(page_address, 0, <<b, 0>>)
  BY <1>1, <1>8, <1>9
<1>12. PagesInRoom' /\ 0 \in DOMAIN page_address' /\ page_address'[0] = <<b, 0>>
  <2>1. PICK i \in Nat, o \in Nat : i = 0 /\ o = 0
    OBVIOUS
  <2>2. i < Pages(memsize) /\ Pages(memsize) \in Nat /\ page_address' = Put(page_address, i, <<b, o>>)
    BY <1>5, <1>11, <2>1
  <2>3. UNCHANGED <<setup, memsize, room>>
    BY <1>1
  <2>4. PagesInRoom' /\ i \in DOMAIN page_address' /\ page_address'[i] = <<b, o>>
    BY <1>2, <2>2, <2>3, PageAdded
  <2> QED BY <2>1, <2>4
<1>13. WorkInv'
  BY <1>1, <1>2, <1>4, <1>9, <1>10, <1>12 DEF LatencyInv, WorkInv
<1>14. ScriptInv'
  <2>1. WritesTo(script, t)' \/ (ReadsOnly(script)' /\ buffer' = t')
    BY <1>8, <1>9 DEF WritesTo, ReadsOnly, Writes
  <2> QED BY <1>1, <1>8, <1>9, <1>10, <2>1 DEF ScriptInv
<1>15. LinkInv'
  <2>1. num = Layouts'.num_pages /\ num \in 1 .. pg
    BY <1>3, <1>5, <1>10 DEF LayoutOf
  <2>2. Pages(memsize)' = pg
    BY <1>1, <1>5 DEF Pages
  <2>3. Choosing'
    BY <1>1, <1>6, <1>11, <1>12, <2>1, <2>2 DEF Choosing
  <2> QED BY <1>1, <2>3 DEF LinkInv
<1> QED BY <1>6, <1>13, <1>14, <1>15 DEF LatencyInv

\* A page that was not taken yet is put into the room for it.
LEMMA SelectPageKeeps ==
  ASSUME BlocksFit, LatencyInv, SelectPage
  PROVE  LatencyInv'
<1>1. /\ pc = "pages" /\ pc' = "pages" /\ j < Layouts.num_pages /\ random /\ j' = j + 1
      /\ page_address' = Put(page_address, j, <<buffer, (Number + 1) * PAGE>>)
      /\ UNCHANGED <<setup, workVars, t, script, buffer>>
  BY DEF SelectPage
<1>2. /\ Measurable /\ setup \in SETUPS /\ memsize \in Nat \ {0} /\ accesses \in Nat
      /\ room = Pages(memsize) /\ t \in Measured /\ script \in Seq(Uses)
      /\ PAGE \in Nat \ {0} /\ Alignment \in Nat \ {0}
  BY <1>1, WithinCall
<1>3. PICK num \in Nat, usable \in Nat, K \in Nat \ {0} : LayoutOf(num, usable, K)
  BY <1>2, LayoutIs
<1>4. PICK pg \in Nat \ {0} : pg = Pages(memsize)
  BY <1>2, MaskedIs
<1>5. num = Layouts.num_pages /\ num \in 1 .. pg
  BY <1>3, <1>4 DEF LayoutOf
<1>6. Choosing
  BY <1>1 DEF LatencyInv, LinkInv
<1>7. j \in 1 .. num - 1 /\ rand.max = pg - 1 /\ rand.max \in Nat /\ rand.max > 0 /\ Len(drawn) = j - 1
  BY <1>1, <1>4, <1>5, <1>6 DEF Choosing
<1>8. /\ GeneratorInv' /\ NothingDrawn' /\ rand'.max = rand.max
      /\ Len(drawn') = Len(drawn) + 1
      /\ \A i \in 1 .. Len(drawn) : drawn'[i] = drawn[i]
      /\ drawn'[Len(drawn) + 1] = Number
      /\ Number \in 0 .. rand.max - 1
  BY <1>1, <1>7, NumberDrawn DEF LatencyInv
<1>9. PICK v \in Nat : v = Number
  BY <1>8
<1>10. PICK o \in Nat : o = (v + 1) * PAGE
  BY <1>2
<1>11. buffer \in Measured
  BY <1>1 DEF LatencyInv, ScriptInv
<1>12. /\ memsize' = memsize /\ accesses' = accesses /\ room' = room /\ setup' = setup
       /\ t' = t /\ script' = script /\ buffer' = buffer
  BY <1>1 DEF workVars
<1>13. /\ PagesInRoom'
       /\ j \in DOMAIN page_address' /\ page_address'[j] = <<buffer, o>>
       /\ \A k \in DOMAIN page_address : k \in DOMAIN page_address'
                                        /\ (k # j => page_address'[k] = page_address[k])
  <2>1. j \in Nat /\ j < Pages(memsize) /\ Pages(memsize) \in Nat
    BY <1>4, <1>5, <1>7
  <2>2. page_address' = Put(page_address, j, <<buffer, o>>)
    BY <1>1, <1>9, <1>10
  <2> QED BY <1>2, <1>11, <1>12, <2>1, <2>2, PageAdded
<1>14. /\ Measured' = Measured /\ Uses' = Uses /\ Layouts' = Layouts
       /\ Chain(memsize, setup.ACCESSES)' = Chain(memsize, setup.ACCESSES)
  <2>1. Alignment' = Alignment
    BY <1>12, LayoutStays
  <2> QED BY <1>12, <2>1, LayoutStays DEF Chain
<1>15. WorkInv'
  BY <1>1, <1>12, <1>13, <1>14 DEF LatencyInv, WorkInv
<1>16. ScriptInv'
  <2>1. WritesTo(script, t) \/ (ReadsOnly(script) /\ buffer = t)
    BY <1>1 DEF LatencyInv, ScriptInv
  <2>2. WritesTo(script, t)' \/ (ReadsOnly(script)' /\ buffer' = t')
    BY <1>12, <2>1 DEF WritesTo, ReadsOnly, Writes
  <2> QED BY <1>1, <1>2, <1>11, <1>12, <1>14, <2>2 DEF ScriptInv
<1>17. Choosing'
  <2>1. j' \in 1 .. num /\ num = Layouts'.num_pages
    BY <1>1, <1>5, <1>7, <1>14
  <2>2. 0 \in DOMAIN page_address' /\ page_address'[0] = <<buffer', 0>>
    BY <1>6, <1>7, <1>12, <1>13 DEF Choosing
  <2>3. rand'.max = Pages(memsize)' - 1 /\ Len(drawn') = j' - 1
    BY <1>1, <1>4, <1>7, <1>8, <1>12 DEF Pages
  <2>4. ASSUME NEW i \in 1 .. j' - 1
        PROVE  i \in DOMAIN page_address' /\ page_address'[i] = <<buffer', (drawn'[i] + 1) * PAGE>>
    <3>1. CASE i = j
      <4>1. drawn'[i] = v
        BY <1>7, <1>8, <1>9, <3>1
      <4> QED BY <1>10, <1>12, <1>13, <3>1, <4>1
    <3>2. CASE i # j
      <4>1. i \in 1 .. j - 1 /\ i \in 1 .. Len(drawn)
        BY <1>1, <1>7, <3>2
      <4>2. drawn'[i] = drawn[i]
        BY <1>8, <4>1
      <4>3. i \in DOMAIN page_address /\ page_address[i] = <<buffer, (drawn[i] + 1) * PAGE>>
        BY <1>6, <4>1 DEF Choosing
      <4> QED BY <1>12, <1>13, <3>2, <4>2, <4>3
    <3> QED BY <3>1, <3>2
  <2> QED BY <2>1, <2>2, <2>3, <2>4 DEF Choosing
<1> QED BY <1>1, <1>8, <1>15, <1>16, <1>17 DEF LatencyInv, LinkInv

\* All pages are there and the pages are different.
LEMMA AllChosen ==
  ASSUME BlocksFit, LatencyInv, pc = "pages", j >= Layouts.num_pages
  PROVE  Chosen
<1>2. Measurable /\ memsize \in Nat \ {0} /\ PAGE \in Nat \ {0}
  BY WithinCall
<1>3. PICK num \in Nat, usable \in Nat, K \in Nat \ {0} : LayoutOf(num, usable, K)
  BY <1>2, LayoutIs
<1>4. PICK pg \in Nat \ {0} : pg = Pages(memsize)
  BY <1>2, MaskedIs
<1>5. num = Layouts.num_pages /\ num \in 1 .. pg
  BY <1>3, <1>4 DEF LayoutOf
<1>6. /\ j = num /\ 0 \in DOMAIN page_address /\ page_address[0] = <<buffer, 0>>
      /\ num > 1 => rand.max = pg - 1 /\ Len(drawn) = num - 1
      /\ \A i \in 1 .. num - 1 : i \in DOMAIN page_address /\ page_address[i] = <<buffer, (drawn[i] + 1) * PAGE>>
  <2>1. Choosing
    BY DEF LatencyInv, LinkInv
  <2>2. j = num
    BY <1>5, <2>1 DEF Choosing
  <2> QED BY <1>4, <1>5, <2>1, <2>2, Zenon DEF Choosing
<1>7. ASSUME num > 1 PROVE IsDraw /\ rand.max \in Nat /\ rand.max > 0 /\ Len(drawn) \in Nat
  <2>1. rand.max \in Nat /\ rand.max > 0 /\ Len(drawn) \in Nat
    BY <1>5, <1>6, <1>7
  <2> QED BY <2>1, DrawIs DEF LatencyInv
<1>8. ASSUME NEW i \in 1 .. num - 1
      PROVE  /\ drawn[i] \in 0 .. pg - 2
             /\ page_address[i] = <<buffer, (drawn[i] + 1) * PAGE>>
             /\ \A k \in 1 .. i - 1 : drawn[k] # drawn[i]
  <2>1. num > 1 /\ rand.max = pg - 1 /\ Len(drawn) = num - 1
    BY <1>6
  <2>2. i \in 1 .. Len(drawn)
    BY <2>1
  <2>3. drawn[i] \in 0 .. rand.max - 1
    BY <1>7, <2>1, <2>2 DEF IsDraw
  <2>4. ASSUME NEW k \in 1 .. i - 1 PROVE drawn[k] # drawn[i]
    <3>1. k \in 1 .. Len(drawn) /\ k < i /\ i - k < rand.max
      BY <1>5, <2>1
    <3> QED BY <1>7, <2>1, <2>2, <3>1, DrawDistinct
  <2> QED BY <1>6, <2>1, <2>3, <2>4
<1>9. ASSUME NEW i \in 0 .. num - 1
      PROVE  /\ i \in DOMAIN page_address
             /\ \E q \in 0 .. pg - 1 : page_address[i] = <<buffer, q * PAGE>>
             /\ \A k \in 0 .. i - 1 : page_address[i] # page_address[k]
  <2>1. CASE i = 0
    <3>1. 0 \in 0 .. pg - 1 /\ 0 * PAGE = 0
      BY <1>2
    <3>2. page_address[i] = <<buffer, 0 * PAGE>>
      BY <1>2, <1>6, <2>1
    <3> QED BY <1>6, <2>1, <3>1, <3>2
  <2>2. CASE i # 0
    <3>1. i \in 1 .. num - 1
      BY <2>2
    <3>2. PICK q \in 1 .. pg - 1 : q = drawn[i] + 1 /\ page_address[i] = <<buffer, q * PAGE>>
      BY <1>8, <3>1
    <3>3. ASSUME NEW k \in 0 .. i - 1, page_address[i] = page_address[k] PROVE FALSE
      <4>1. CASE k = 0
        <5>1. q * PAGE = 0
          BY <1>6, <3>2, <3>3, <4>1
        <5>2. q * PAGE >= PAGE
          BY <1>2
        <5> QED BY <1>2, <5>1, <5>2
      <4>2. CASE k # 0
        <5>1. k \in 1 .. num - 1 /\ k \in 1 .. i - 1
          BY <4>2
        <5>2. PICK p \in 1 .. pg - 1 : p = drawn[k] + 1 /\ page_address[k] = <<buffer, p * PAGE>>
          BY <1>8, <5>1
        <5>3. p # q
          <6>1. drawn[k] # drawn[i] /\ drawn[k] \in Int /\ drawn[i] \in Int
            BY <1>8, <3>1, <5>1
          <6> QED BY <3>2, <5>2, <6>1
        <5>4. p * PAGE = q * PAGE
          BY <3>2, <3>3, <5>2
        <5>5. p >= q + 1 => p * PAGE >= q * PAGE + PAGE
          BY <1>2
        <5>6. q >= p + 1 => q * PAGE >= p * PAGE + PAGE
          BY <1>2
        <5>7. p * PAGE \in Int /\ q * PAGE \in Int
          BY <1>2
        <5> QED BY <1>2, <5>3, <5>4, <5>5, <5>6, <5>7
      <4> QED BY <4>1, <4>2
    <3>4. i \in DOMAIN page_address
      BY <1>6, <3>1
    <3> QED BY <3>2, <3>3, <3>4
  <2> QED BY <2>1, <2>2
<1> QED BY <1>4, <1>5, <1>6, <1>9 DEF Chosen

\* The chain begins with the first block.
LEMMA StartChainKeeps ==
  ASSUME BlocksFit, CallsReturn, LatencyInv, StartChain
  PROVE  LatencyInv'
<1>1. /\ pc = "pages" /\ pc' = "link" /\ j >= Layouts.num_pages /\ j' = 0 /\ tmp_addr' = <<buffer, 0>>
      /\ UNCHANGED <<setup, workVars, t, script, buffer, page_address, memory>>
  BY DEF StartChain
<1>2. /\ Measurable /\ setup \in SETUPS /\ memsize \in Nat \ {0} /\ accesses \in Nat
      /\ room = Pages(memsize) /\ t \in Measured /\ script \in Seq(Uses)
      /\ PAGE \in Nat \ {0} /\ Alignment \in Nat \ {0} /\ PagesInRoom
  BY <1>1, WithinCall
<1>3. Chosen
  BY <1>1, AllChosen
<1>4. BlocksBehindFirst \in Nat
  <2>1. PICK num \in Nat, usable \in Nat, K \in Nat \ {0} : LayoutOf(num, usable, K)
    BY <1>2, LayoutIs
  <2>2. BlocksBehindFirst = K - 1
    BY <2>1 DEF LayoutOf, BlocksBehindFirst
  <2> QED BY <2>2
<1>5. PICK max \in Nat : max = BlocksBehindFirst
  BY <1>4
<1>6. GeneratorInv' /\ NothingDrawn' /\ rand'.max = max /\ Len(drawn') = 0
  <2>1. PICK s \in SEEDS : random_init(s, max)
    BY <1>5 DEF StartChain
  <2>2. s \in Nat /\ (max > 0 => SearchEnds(s, max))
    BY <1>1, <1>5, LatencyKernelAssumption DEF CallsReturn
  <2> QED BY <2>1, <2>2, DrawBegins DEF LatencyInv
<1>7. /\ memsize' = memsize /\ accesses' = accesses /\ room' = room /\ setup' = setup
      /\ t' = t /\ script' = script /\ buffer' = buffer /\ page_address' = page_address
      /\ memory' = memory
  BY <1>1 DEF workVars
<1>8. /\ Measured' = Measured /\ Uses' = Uses /\ Addresses' = Addresses
      /\ BlocksBehindFirst' = BlocksBehindFirst
      /\ Chain(memsize, setup.ACCESSES)' = Chain(memsize, setup.ACCESSES)
  <2>1. Alignment' = Alignment
    BY <1>7, LayoutStays
  <2>2. Chain(memsize, setup.ACCESSES)' = Chain(memsize, setup.ACCESSES)
    BY <1>7, <2>1 DEF Chain
  <2> QED BY <1>7, <2>2, LayoutStays
<1>9. WorkInv'
  <2>1. PagesInRoom'
    BY <1>2, <1>7, <1>8 DEF PagesInRoom, Range
  <2> QED BY <1>1, <1>7, <1>8, <2>1 DEF LatencyInv, WorkInv
<1>10. ScriptInv'
  <2>1. buffer \in Measured /\ (WritesTo(script, t) \/ (ReadsOnly(script) /\ buffer = t))
    BY <1>1 DEF LatencyInv, ScriptInv
  <2>2. WritesTo(script, t)' \/ (ReadsOnly(script)' /\ buffer' = t')
    BY <1>7, <2>1 DEF WritesTo, ReadsOnly, Writes
  <2> QED BY <1>1, <1>2, <1>7, <1>8, <2>1, <2>2 DEF ScriptInv
<1>11. Linked'
  <2>1. Chosen' /\ BlockAt(-1)' = BlockAt(-1)
    BY <1>3, <1>7, ChosenStays
  <2>2. Node(0) = <<buffer, 0>> /\ Node(0) = BlockAt(-1)
    BY <1>2, <1>3, FirstNode DEF Node, NumberAt
  <2>3. Node(j)' = <<buffer, 0>>
    BY <1>1, <2>1, <2>2 DEF Node, NumberAt
  <2>4. rand'.max = BlocksBehindFirst' /\ Len(drawn') = j' /\ j' \in 0 .. accesses'
    BY <1>1, <1>2, <1>5, <1>6, <1>7, <1>8
  <2>5. \A i \in 0 .. j' - 1 : FALSE
    BY <1>1
  <2> QED BY <1>1, <2>1, <2>3, <2>4, <2>5 DEF Linked
<1> QED BY <1>1, <1>6, <1>9, <1>10, <1>11 DEF LatencyInv, LinkInv

\* A link is added; where the chain comes to a block again it goes on as before.
LEMMA LinkKeeps ==
  ASSUME BlocksFit, LatencyInv, Link
  PROVE  LatencyInv'
<1> DEFINE page == page_address[Offset \div PAGE]
           next == <<page[1], page[2] + (Offset % PAGE)>>
<1>1. /\ pc = "link" /\ pc' = "link" /\ j < accesses /\ random /\ j' = j + 1
      /\ memory' = Put(memory, tmp_addr, next) /\ tmp_addr' = next
      /\ UNCHANGED <<setup, workVars, t, script, buffer, page_address>>
  BY Zenon DEF Link
<1>2. PICK x : x = next
  OBVIOUS
<1>3. x = BlockAt(Number)
  BY <1>2, Zenon DEF BlockAt, BeginOf, Offset
<1>4. memory' = Put(memory, tmp_addr, x) /\ tmp_addr' = x
  BY <1>1, <1>2
<1> HIDE DEF next, page
<1>5. /\ Measurable /\ setup \in SETUPS /\ memsize \in Nat \ {0} /\ accesses \in Nat
      /\ room = Pages(memsize) /\ t \in Measured /\ script \in Seq(Uses) /\ PagesInRoom
  BY <1>1, WithinCall
<1>6. Linked
  BY <1>1 DEF LatencyInv, LinkInv
<1>7. /\ Chosen /\ rand.max = BlocksBehindFirst /\ Len(drawn) = j /\ j \in 0 .. accesses
      /\ tmp_addr = Node(j)
      /\ \A i \in 0 .. j - 1 : Node(i) \in DOMAIN memory /\ memory[Node(i)] = Node(i + 1)
  BY <1>6 DEF Linked
<1>8. rand.max \in Nat
  <2>1. PICK num \in Nat, usable \in Nat, K \in Nat \ {0} : LayoutOf(num, usable, K)
    BY <1>5, LayoutIs
  <2>2. BlocksBehindFirst = K - 1
    BY <2>1 DEF LayoutOf, BlocksBehindFirst
  <2> QED BY <1>7, <2>2
<1>9. /\ GeneratorInv' /\ NothingDrawn' /\ rand'.max = rand.max
      /\ Len(drawn') = j + 1
      /\ \A i \in 1 .. j : drawn'[i] = drawn[i]
      /\ drawn'[j + 1] = Number
      /\ rand.max = 0 => Number = -1
      /\ rand.max > 0 => Number \in 0 .. rand.max - 1
  BY <1>1, <1>7, <1>8, NumberDrawn DEF LatencyInv
<1>10. Number \in Int
  BY <1>8, <1>9
<1>11. /\ memsize' = memsize /\ accesses' = accesses /\ room' = room /\ setup' = setup
       /\ t' = t /\ script' = script /\ buffer' = buffer /\ page_address' = page_address
  BY <1>1 DEF workVars
<1>12. /\ Measured' = Measured /\ Uses' = Uses /\ Addresses' = Addresses /\ Alignment' = Alignment
       /\ BlocksBehindFirst' = BlocksBehindFirst
       /\ Chain(memsize, setup.ACCESSES)' = Chain(memsize, setup.ACCESSES)
  <2>1. Alignment' = Alignment
    BY <1>11, LayoutStays
  <2>2. Chain(memsize, setup.ACCESSES)' = Chain(memsize, setup.ACCESSES)
    BY <1>11, <2>1 DEF Chain
  <2> QED BY <1>11, <2>1, <2>2, LayoutStays
<1>13. WorkInv'
  <2>1. PagesInRoom'
    BY <1>5, <1>11, <1>12 DEF PagesInRoom, Range
  <2> QED BY <1>1, <1>11, <1>12, <2>1 DEF LatencyInv, WorkInv
<1>14. ScriptInv'
  <2>1. buffer \in Measured /\ (WritesTo(script, t) \/ (ReadsOnly(script) /\ buffer = t))
    BY <1>1 DEF LatencyInv, ScriptInv
  <2>2. WritesTo(script, t)' \/ (ReadsOnly(script)' /\ buffer' = t')
    BY <1>11, <2>1 DEF WritesTo, ReadsOnly, Writes
  <2> QED BY <1>1, <1>5, <1>11, <1>12, <2>1, <2>2 DEF ScriptInv
<1>15. Chosen'
  BY <1>7, <1>11, ChosenStays
<1>16. ASSUME NEW i \in 0 .. j PROVE Node(i)' = Node(i)
  <2>1. NumberAt(i)' = NumberAt(i)
    <3>1. i = 0 \/ i \in 1 .. j
      OBVIOUS
    <3> QED BY <1>9, <3>1 DEF NumberAt
  <2> QED BY <1>11, <1>12, <2>1 DEF Node, BlockAt, BeginOf
<1>17. PICK n \in Nat \ {0}, e \in Nat : n = j + 1 /\ e = j
  BY <1>7
<1>18. Node(n)' = x
  <2>1. NumberAt(n)' = Number
    <3>1. n # 0
      OBVIOUS
    <3>2. NumberAt(n)' = drawn'[n]
      BY <3>1 DEF NumberAt
    <3> QED BY <1>9, <1>17, <3>2
  <2> QED BY <1>3, <1>11, <1>12, <2>1 DEF Node, BlockAt, BeginOf
<1>19. NodesAgain'
  <2>1. Measurable'
    BY <1>5, <1>11, <1>12 DEF Measurable
  <2>2. (rand.max = BlocksBehindFirst)'
    BY <1>7, <1>9, <1>12
  <2> QED BY <1>9, <1>15, <2>1, <2>2, NodesRepeatThen
<1>20. /\ DOMAIN memory' = DOMAIN memory \cup {Node(e)}
       /\ \A z \in DOMAIN memory \cup {Node(e)} : memory'[z] = IF z = Node(e) THEN x ELSE memory[z]
  <2>1. memory' = [z \in DOMAIN memory \cup {tmp_addr} |-> IF z = tmp_addr THEN x ELSE memory[z]]
    BY <1>4 DEF Put
  <2>2. tmp_addr = Node(e)
    BY <1>7, <1>17
  <2>3. PICK a : a = tmp_addr
    OBVIOUS
  <2>4. /\ DOMAIN memory' = DOMAIN memory \cup {a}
        /\ \A z \in DOMAIN memory \cup {a} : memory'[z] = IF z = a THEN x ELSE memory[z]
    BY <2>1, <2>3
  <2> QED BY <2>2, <2>3, <2>4
<1>21. ASSUME NEW i \in 0 .. j
       PROVE  Node(i)' \in DOMAIN memory' /\ memory'[Node(i)'] = Node(i + 1)'
  <2>1. Node(i)' = Node(i)
    BY <1>16
  <2>2. CASE i = e
    BY <1>17, <1>18, <1>20, <2>1, <2>2
  <2>3. CASE i # e
    <3>1. i \in 0 .. j - 1 /\ i + 1 \in 0 .. j
      BY <1>17, <2>3
    <3>2. Node(i) \in DOMAIN memory /\ memory[Node(i)] = Node(i + 1)
      BY <1>7, <3>1
    <3>3. Node(i + 1)' = Node(i + 1)
      BY <1>16, <3>1
    <3>4. CASE Node(i) = Node(e)
      <4>1. Node(i)' = Node(e)'
        BY <1>16, <1>17, <2>1, <3>4
      <4>2. i \in 0 .. Len(drawn') - 1 /\ e \in 0 .. Len(drawn') - 1
        BY <1>7, <1>9, <1>17
      <4>3. Node(i + 1)' = Node(e + 1)'
        BY <1>19, <4>1, <4>2 DEF NodesAgain
      <4>4. e + 1 = n
        BY <1>17
      <4>5. Node(e + 1)' = x
        BY <1>18, <4>4
      <4> QED BY <1>20, <2>1, <3>2, <3>4, <4>3, <4>5
    <3>5. CASE Node(i) # Node(e)
      BY <1>20, <2>1, <3>2, <3>3, <3>5
    <3> QED BY <3>4, <3>5
  <2> QED BY <2>2, <2>3
<1>22. Linked'
  <2>1. /\ rand'.max = BlocksBehindFirst' /\ Len(drawn') = j' /\ j' \in 0 .. accesses'
        /\ j' = n
    BY <1>1, <1>5, <1>7, <1>9, <1>11, <1>12, <1>17
  <2>2. tmp_addr' = Node(j)'
    <3>1. Node(j)' = Node(n)'
      BY <2>1 DEF Node, NumberAt, BlockAt
    <3> QED BY <1>4, <1>18, <3>1
  <2>3. \A i \in 0 .. j' - 1 : Node(i)' \in DOMAIN memory' /\ memory'[Node(i)'] = Node(i + 1)'
    BY <1>1, <1>7, <1>21
  <2> QED BY <1>15, <2>1, <2>2, <2>3 DEF Linked
<1> QED BY <1>1, <1>9, <1>13, <1>14, <1>22 DEF LatencyInv, LinkInv

\* A step of the environment does.
LEMMA LatencyStays ==
  ASSUME LatencyInv, UNCHANGED vars
  PROVE  LatencyInv'
<1>1. /\ setup' = setup /\ memsize' = memsize /\ accesses' = accesses /\ room' = room
      /\ page_address' = page_address /\ t' = t /\ buffer' = buffer /\ j' = j /\ script' = script
      /\ tmp_addr' = tmp_addr /\ memory' = memory /\ rand' = rand /\ drawn' = drawn /\ pc' = pc
  BY DEF vars, workVars, placeVars, randVars
<1>2. GeneratorInv' /\ NothingDrawn'
  <2>1. UNCHANGED randVars
    BY DEF vars
  <2> QED BY <1>1, <2>1, GeneratorStays DEF LatencyInv, NothingDrawn
<1>3. /\ Measured' = Measured /\ Uses' = Uses /\ Addresses' = Addresses /\ Layouts' = Layouts
      /\ Chain(memsize, setup.ACCESSES)' = Chain(memsize, setup.ACCESSES)
  <2>1. Alignment' = Alignment
    BY <1>1, LayoutStays
  <2>2. Chain(memsize, setup.ACCESSES)' = Chain(memsize, setup.ACCESSES)
    BY <1>1, <2>1 DEF Chain
  <2> QED BY <1>1, <2>2, LayoutStays
<1>4. WorkInv'
  <2>1. PagesInRoom'
    BY <1>1, <1>3 DEF LatencyInv, WorkInv, PagesInRoom, Range
  <2> QED BY <1>1, <1>3, <2>1 DEF LatencyInv, WorkInv
<1>5. (Linked => Linked') /\ (Whole => Whole')
  <2>1. Linked => Linked'
    BY <1>1, LinkedStays
  <2> QED BY <1>1, <2>1 DEF Whole
<1>6. Choosing => Choosing'
  <2>1. Pages(memsize)' = Pages(memsize)
    BY <1>1 DEF Pages
  <2> QED BY <1>1, <1>3, <2>1 DEF Choosing
<1>7. (WritesTo(script, t) => WritesTo(script, t)') /\ (ReadsOnly(script) => ReadsOnly(script)')
  BY <1>1 DEF WritesTo, ReadsOnly, Writes
<1>8. ScriptInv' /\ LinkInv'
  BY <1>1, <1>3, <1>5, <1>6, <1>7 DEF LatencyInv, ScriptInv, LinkInv
<1> QED BY <1>2, <1>4, <1>8 DEF LatencyInv

\* Every step keeps the invariant.
LEMMA LatencyNext ==
  ASSUME BlocksFit, CallsReturn, LatencyInv, [Next]_vars
  PROVE  LatencyInv'
<1>1. CASE Entry
  BY <1>1, EntryKeeps
<1>2. CASE Target
  BY <1>2, TargetKeeps
<1>3. CASE Return
  BY <1>3, ReturnKeeps
<1>4. CASE ReadMemory
  BY <1>4, ReadMemoryKeeps
<1>5. CASE ClearMemory
  BY <1>5, ClearMemoryKeeps
<1>6. CASE SelectPage
  BY <1>6, SelectPageKeeps
<1>7. CASE StartChain
  BY <1>7, StartChainKeeps
<1>8. CASE Link
  BY <1>8, LinkKeeps
<1>9. CASE Used
  BY <1>9, UsedKeeps
<1>10. CASE Flush
  BY <1>10, FlushKeeps
<1>11. CASE Measure
  BY <1>11, MeasureKeeps
<1>12. CASE UNCHANGED vars
  BY <1>12, LatencyStays
<1> QED BY <1>1, <1>2, <1>3, <1>4, <1>5, <1>6, <1>7, <1>8, <1>9, <1>10, <1>11, <1>12 DEF Next

\* Everywhere the numbers are drawn once in a turn, ...
LEMMA LatencyOnce == LatencyInv => EachNumberOnce
BY GeneratorOnce DEF LatencyInv

\* ... and the chain that is followed visits its blocks once.
LEMMA LatencyVisits == BlocksFit /\ LatencyInv => ChainVisitsOnce
<1> SUFFICES ASSUME BlocksFit, LatencyInv PROVE ChainVisitsOnce
  OBVIOUS
<1>1. PagesInRoom
  BY DEF LatencyInv, WorkInv
<1>2. ASSUME pc = "measure"
      PROVE  /\ \A a \in Range(Loads) : /\ a \in DOMAIN memory /\ a[1] = t
                                       /\ a[2] \in 0 .. memsize - 1
                                       /\ a[2] % Min({Alignment, PAGE}) = 0
             /\ Alignment <= PAGE => IsInjective(Loads)
  <2>1. Measurable /\ t \in Measured /\ Whole /\ GeneratorInv /\ NothingDrawn
    BY <1>2 DEF LatencyInv, WorkInv, ScriptInv, Measurable
  <2> QED BY <2>1, WholeVisitsOnce
<1> QED BY <1>1, <1>2, Zenon DEF ChainVisitsOnce

\* Provided that the searches of _random_init() end, each number comes once in a turn.
THEOREM NumbersOnce ==
  ASSUME BlocksFit
  PROVE  Spec /\ []CallsReturn => []EachNumberOnce
<1>1. BlocksFit
  OBVIOUS
<1>2. Init => LatencyInv
  BY LatencyStart
<1>3. LatencyInv /\ CallsReturn /\ [Next]_vars => LatencyInv'
  BY <1>1, LatencyNext
<1>4. LatencyInv => EachNumberOnce
  BY LatencyOnce
<1> QED BY <1>2, <1>3, <1>4, PTL DEF Spec

\* And then the loads of a measurement follow one chain through the target's buffer, and
\* no two of them are in one block.
THEOREM BlocksVisitedOnce ==
  ASSUME BlocksFit
  PROVE  Spec /\ []CallsReturn => []ChainVisitsOnce
<1>1. BlocksFit
  OBVIOUS
<1>2. Init => LatencyInv
  BY LatencyStart
<1>3. LatencyInv /\ CallsReturn /\ [Next]_vars => LatencyInv'
  BY <1>1, LatencyNext
<1>4. LatencyInv => ChainVisitsOnce
  BY <1>1, LatencyVisits
<1> QED BY <1>2, <1>3, <1>4, PTL DEF Spec

\* The powers of a number.
ArePowers(P, x) == P \in [Nat -> Nat] /\ P[0] = 1 /\ \A k \in Nat : P[k + 1] = x * P[k]

LEMMA PowerIs ==
  ASSUME NEW x \in Nat
  PROVE  ArePowers(Power(x), x)
<1> DEFINE Body(f) == [n \in Nat |-> IF n = 0 THEN 1 ELSE x * f[n - 1]]
           p == CHOOSE f : f = Body(f)
           s == [y \in Nat |-> x * y]
<1>1. Power(x) = p
  BY DEF Power
<1>2. PICK o \in [Nat -> Nat] : o[0] = 1 /\ \A k \in Nat : o[k + 1] = s[o[k]]
  <2>1. s \in [Nat -> Nat] /\ 1 \in Nat
    OBVIOUS
  <2> HIDE DEF s
  <2>2. HasIteration(Nat, 1, s)
    BY <2>1, NatRecursion
  <2> QED BY <2>2 DEF HasIteration
<1>3. o = Body(o)
  <2>1. ASSUME NEW n \in Nat PROVE o[n] = Body(o)[n]
    <3>1. CASE n = 0
      BY <1>2, <3>1
    <3>2. CASE n # 0
      <4>1. n - 1 \in Nat /\ (n - 1) + 1 = n /\ o[n - 1] \in Nat
        BY <3>2
      <4>2. o[(n - 1) + 1] = s[o[n - 1]]
        BY <1>2, <4>1
      <4> QED BY <3>2, <4>1, <4>2
    <3> QED BY <3>1, <3>2
  <2>2. o = [n \in Nat |-> o[n]]
    OBVIOUS
  <2> QED BY <2>1, <2>2
<1>4. p = Body(p)
  BY <1>3
<1> HIDE DEF p
<1>5. p[0] = 1
  BY <1>4
<1>6. ASSUME NEW k \in Nat PROVE p[k + 1] = x * p[k]
  <2>1. p[k + 1] = IF k + 1 = 0 THEN 1 ELSE x * p[(k + 1) - 1]
    BY <1>4
  <2>2. k + 1 # 0 /\ (k + 1) - 1 = k
    OBVIOUS
  <2> QED BY <2>1, <2>2
<1>7. ASSUME NEW n \in Nat PROVE p[n] \in Nat
  <2> DEFINE T == {k \in 0 .. n : p[k] \in Nat}
  <2>1. 0 \in T
    BY <1>5
  <2>2. ASSUME NEW k \in 1 .. n, k - 1 \in T PROVE k \in T
    <3>1. p[k - 1] \in Nat /\ k - 1 \in Nat /\ (k - 1) + 1 = k
      BY <2>2
    <3>2. p[k] = x * p[k - 1]
      BY <1>6, <3>1
    <3> QED BY <3>1, <3>2
  <2>3. n \in 0 .. n
    OBVIOUS
  <2> HIDE DEF T
  <2>4. n \in T
    BY <2>1, <2>2, <2>3, Induction, Zenon
  <2> QED BY <2>4 DEF T
<1>8. p \in [Nat -> Nat]
  <2>1. p = [n \in Nat |-> p[n]]
    BY <1>4, Zenon
  <2> QED BY <1>7, <2>1
<1> QED BY <1>1, <1>5, <1>6, <1>8 DEF ArePowers

\* They grow with the number,
LEMMA PowerGrows ==
  ASSUME NEW x \in Nat, NEW y \in Nat, x <= y, NEW n \in Nat,
         NEW P, ArePowers(P, x), NEW Q, ArePowers(Q, y)
  PROVE  P[n] <= Q[n]
<1> DEFINE T == {k \in 0 .. n : P[k] <= Q[k]}
<1>1. 0 \in T
  BY DEF ArePowers
<1>2. ASSUME NEW k \in 1 .. n, k - 1 \in T PROVE k \in T
  <2>2. k - 1 \in Nat /\ (k - 1) + 1 = k
    OBVIOUS
  <2>1. PICK p \in Nat, q \in Nat : p = P[k - 1] /\ q = Q[k - 1] /\ p <= q
    BY <1>2, <2>2 DEF ArePowers
  <2>3. P[(k - 1) + 1] = x * p /\ Q[(k - 1) + 1] = y * q
    BY <2>1, <2>2 DEF ArePowers
  <2>4. x * p <= y * q
    <3>1. PICK d \in Nat, e \in Nat : y = x + d /\ q = p + e
      <4>1. y - x \in Nat /\ q - p \in Nat /\ y = x + (y - x) /\ q = p + (q - p)
        BY <2>1
      <4> QED BY <4>1
    <3>2. y * q = x * p + x * e + d * p + d * e
      BY <3>1
    <3>3. x * p \in Nat /\ x * e \in Nat /\ d * p \in Nat /\ d * e \in Nat
      OBVIOUS
    <3> QED BY <3>2, <3>3
  <2> QED BY <2>2, <2>3, <2>4
<1>3. n \in 0 .. n
  OBVIOUS
<1> HIDE DEF T
<1>4. n \in T
  BY <1>1, <1>2, <1>3, Induction, Zenon
<1> QED BY <1>4 DEF T

\* are not 0,
LEMMA PowerPositive ==
  ASSUME NEW x \in Nat \ {0}, NEW n \in Nat, NEW P, ArePowers(P, x)
  PROVE  P[n] > 0
<1> DEFINE T == {k \in 0 .. n : P[k] > 0}
<1>1. 0 \in T
  BY DEF ArePowers
<1>2. ASSUME NEW k \in 1 .. n, k - 1 \in T PROVE k \in T
  <2>1. k - 1 \in Nat /\ (k - 1) + 1 = k
    OBVIOUS
  <2>2. PICK p \in Nat \ {0} : p = P[k - 1]
    BY <1>2, <2>1 DEF ArePowers
  <2>3. P[(k - 1) + 1] = x * p
    BY <2>1, <2>2 DEF ArePowers
  <2>4. x * p > 0
    OBVIOUS
  <2> QED BY <2>1, <2>3, <2>4
<1>3. n \in 0 .. n
  OBVIOUS
<1> HIDE DEF T
<1>4. n \in T
  BY <1>1, <1>2, <1>3, Induction, Zenon
<1> QED BY <1>4 DEF T

\* and differ from number to number;
LEMMA PowerAbove ==
  ASSUME NEW x \in Nat, NEW n \in Nat \ {0},
         NEW P, ArePowers(P, x), NEW Q, ArePowers(Q, x + 1)
  PROVE  Q[n] > P[n]
<1>1. PICK k \in Nat : n = k + 1
  <2>1. n - 1 \in Nat /\ n = (n - 1) + 1
    OBVIOUS
  <2> QED BY <2>1
<1>2. PICK p \in Nat, q \in Nat : p = P[k] /\ q = Q[k]
  BY DEF ArePowers
<1>3. x <= x + 1 /\ x + 1 \in Nat \ {0} /\ x + 1 \in Nat
  OBVIOUS
<1>4. p <= q /\ q > 0
  BY <1>2, <1>3, PowerGrows, PowerPositive
<1>5. P[n] = x * p /\ Q[n] = (x + 1) * q
  BY <1>1, <1>2 DEF ArePowers
<1>6. PICK e \in Nat : q = p + e
  <2>1. q - p \in Nat /\ q = p + (q - p)
    BY <1>4
  <2> QED BY <2>1
<1>7. (x + 1) * q = x * p + x * e + q
  BY <1>6
<1>8. x * p \in Nat /\ x * e \in Nat
  OBVIOUS
<1> QED BY <1>4, <1>5, <1>7, <1>8

\* a product of powers is a power.
LEMMA PowerOfSum ==
  ASSUME NEW x \in Nat, NEW i \in Nat, NEW k \in Nat, NEW P, ArePowers(P, x)
  PROVE  P[k + i] = P[k] * P[i]
<1> DEFINE T == {h \in 0 .. k : P[h + i] = P[h] * P[i]}
<1>0. PICK r \in Nat : r = P[i]
  BY DEF ArePowers
<1>1. 0 \in T
  BY <1>0 DEF ArePowers
<1>2. ASSUME NEW h \in 1 .. k, h - 1 \in T PROVE h \in T
  <2>3. h - 1 \in Nat /\ (h - 1) + 1 = h /\ ((h - 1) + i) + 1 = h + i /\ (h - 1) + i \in Nat
    OBVIOUS
  <2>1. PICK p \in Nat, q \in Nat : p = P[h - 1] /\ q = P[(h - 1) + i]
    BY <2>3 DEF ArePowers
  <2>2. q = p * r
    BY <1>0, <1>2, <2>1
  <2>4. P[(h - 1) + 1] = x * p /\ P[((h - 1) + i) + 1] = x * q
    BY <2>1, <2>3 DEF ArePowers
  <2>5. x * (p * r) = (x * p) * r
    OBVIOUS
  <2>6. P[h + i] = P[h] * r
    BY <2>2, <2>3, <2>4, <2>5
  <2> QED BY <1>0, <2>6
<1>3. k \in 0 .. k
  OBVIOUS
<1> HIDE DEF T
<1>4. k \in T
  BY <1>1, <1>2, <1>3, Induction, Zenon
<1> QED BY <1>4 DEF T

\* Between two powers of neighbours there is every number up to a power.
IsPowerRoot(x, n, M, z) == x \in 0 .. M /\ Power(x)[n] <= z /\ Power(x + 1)[n] > z
HasPowerRoot(n, M, z) == \E x : IsPowerRoot(x, n, M, z)

LEMMA PowerRoot ==
  ASSUME NEW M \in Nat, NEW n \in Nat \ {0}, NEW z \in Nat, z <= Power(M)[n]
  PROVE  HasPowerRoot(n, M, z)
<1>0. \A x \in Nat : ArePowers(Power(x), x)
  BY PowerIs
<1>1. \A x \in Nat : Power(x)[n] \in Nat /\ Power(x + 1)[n] > Power(x)[n]
  <2> TAKE x \in Nat
  <2>1. ArePowers(Power(x), x) /\ ArePowers(Power(x + 1), x + 1)
    BY <1>0
  <2>2. PICK P, Q : P = Power(x) /\ Q = Power(x + 1)
    OBVIOUS
  <2>3. P[n] \in Nat /\ Q[n] > P[n]
    BY <2>1, <2>2, PowerAbove DEF ArePowers
  <2> QED BY <2>2, <2>3
<1> DEFINE U == {x \in 0 .. M : Power(x + 1)[n] > z}
<1>2. M \in U
  <2>1. Power(M)[n] \in Nat /\ Power(M + 1)[n] \in Nat /\ Power(M + 1)[n] > Power(M)[n]
    BY <1>1
  <2> QED BY <2>1
<1>3. PICK x \in U : \A y \in U : x <= y
  <2>1. U \in SUBSET Nat
    OBVIOUS
  <2> HIDE DEF U
  <2> QED BY <1>2, <2>1, LeastNumber
<1>4. Power(x)[n] <= z
  <2>1. CASE x = 0
    <3>1. PICK k \in Nat : n = k + 1
      <4>1. n - 1 \in Nat /\ n = (n - 1) + 1
        OBVIOUS
      <4> QED BY <4>1
    <3>2. PICK P : P = Power(0)
      OBVIOUS
    <3>3. ArePowers(P, 0)
      BY <1>0, <3>2
    <3>4. P[k] \in Nat /\ P[k + 1] = 0 * P[k]
      BY <3>3 DEF ArePowers
    <3>5. P[n] = 0
      BY <3>1, <3>4
    <3> QED BY <2>1, <3>2, <3>5
  <2>2. CASE x # 0
    <3>1. x - 1 \in 0 .. M /\ (x - 1) + 1 = x /\ ~(x <= x - 1)
      BY <2>2
    <3>2. x - 1 \notin U
      BY <1>3, <3>1
    <3>3. ~(Power((x - 1) + 1)[n] > z)
      BY <3>1, <3>2
    <3>4. ~(Power(x)[n] > z)
      BY <3>1, <3>3
    <3>5. Power(x)[n] \in Nat
      BY <1>1
    <3> QED BY <3>4, <3>5
  <2> QED BY <2>1, <2>2
<1> QED BY <1>4 DEF IsPowerRoot, HasPowerRoot
----------------------------------------------------------------------------
(***************************************************************************)
(* The lists of module ProblemSizes.                                       *)
(***************************************************************************)
\* The largest element of a list that is not empty.
LEMMA MaxOfList ==
  ASSUME NEW l \in Seq(Int), l # <<>>
  PROVE  Max(Range(l)) \in Int /\ \A k \in 1 .. Len(l) : l[k] <= Max(Range(l))
<1>0. Len(l) \in Nat \ {0} /\ DOMAIN l = 1 .. Len(l)
  OBVIOUS
<1>1. PICK n \in Nat : Len(l) = n + 1
  <2>1. Len(l) - 1 \in Nat /\ Len(l) = (Len(l) - 1) + 1
    BY <1>0
  <2> QED BY <2>1
<1> DEFINE T == {h \in 0 .. n : \E i \in 1 .. h + 1 : \A k \in 1 .. h + 1 : l[k] <= l[i]}
<1>2. 0 \in T
  <2>1. 1 \in 1 .. Len(l) /\ l[1] \in Int
    BY <1>0
  <2>2. 1 \in 1 .. 0 + 1 /\ \A k \in 1 .. 0 + 1 : k = 1
    OBVIOUS
  <2>3. \A k \in 1 .. 0 + 1 : l[k] <= l[1]
    BY <2>1, <2>2
  <2> QED BY <2>2, <2>3
<1>3. ASSUME NEW h \in 1 .. n, h - 1 \in T PROVE h \in T
  <2>0. (h - 1) + 1 = h
    OBVIOUS
  <2>1. PICK i \in 1 .. h : \A k \in 1 .. h : l[k] <= l[i]
    BY <1>3, <2>0
  <2>2. \A k \in 1 .. h + 1 : k \in 1 .. h \/ k = h + 1
    OBVIOUS
  <2>3. \A k \in 1 .. h + 1 : l[k] \in Int
    BY <1>0, <1>1
  <2>4. i \in 1 .. h + 1 /\ h + 1 \in 1 .. h + 1
    OBVIOUS
  <2>5. CASE l[h + 1] <= l[i]
    <3>1. \A k \in 1 .. h + 1 : l[k] <= l[i]
      BY <2>1, <2>2, <2>5
    <3>2. h \in 0 .. n
      OBVIOUS
    <3> QED BY <2>4, <3>1, <3>2
  <2>6. CASE ~(l[h + 1] <= l[i])
    <3>1. \A k \in 1 .. h + 1 : l[k] <= l[h + 1]
      BY <2>1, <2>2, <2>3, <2>4, <2>6
    <3>2. h \in 0 .. n
      OBVIOUS
    <3> QED BY <2>4, <3>1, <3>2
  <2> QED BY <2>5, <2>6
<1>4. n \in T
  <2>1. n \in 0 .. n
    OBVIOUS
  <2> HIDE DEF T
  <2> QED BY <1>2, <1>3, <2>1, Induction, Zenon
<1>5. PICK i \in 1 .. Len(l) : \A k \in 1 .. Len(l) : l[k] <= l[i]
  BY <1>1, <1>4
<1>6. l[i] \in Range(l) /\ \A x \in Range(l) : l[i] >= x
  BY <1>0, <1>5 DEF Range
<1>7. Max(Range(l)) \in Range(l) /\ \A x \in Range(l) : Max(Range(l)) >= x
  BY <1>6, Zenon DEF Max
<1>8. \A x \in Range(l) : x \in Int
  BY <1>0 DEF Range
<1>9. \A k \in 1 .. Len(l) : l[k] \in Range(l)
  BY <1>0 DEF Range
<1> QED BY <1>7, <1>8, <1>9

\* The text of the settings.
Written(s) == s.list \in Seq(Int)

LEMMA TextIs == source \in Sources => Written(source)
<1> SUFFICES ASSUME source \in Sources PROVE source.list \in Seq(Int)
  BY DEF Written
<1>1. CASE source \in [list : Seq(Nat \cup Characters), MIN : {0}, MAX : {0}, STEPS : {0}]
  <2>1. source.list \in Seq(Nat \cup Characters)
    BY <1>1
  <2>2. Nat \cup Characters \subseteq Int
    BY DEF Characters, DASH, SLASH, COMMA, BLANK, DOT, LETTER
  <2>3. PICK A, l : A = Nat \cup Characters /\ l = source.list
    OBVIOUS
  <2>4. l \in Seq(A) /\ \A x \in A : x \in Int
    BY <2>1, <2>2, <2>3
  <2>5. Len(l) \in Nat /\ l \in [1 .. Len(l) -> Int]
    <3>1. Len(l) \in Nat /\ l \in [1 .. Len(l) -> A]
      BY <2>4
    <3>2. l = [k \in 1 .. Len(l) |-> l[k]] /\ \A k \in 1 .. Len(l) : l[k] \in A
      BY <3>1
    <3>3. \A k \in 1 .. Len(l) : l[k] \in Int
      BY <2>4, <3>2
    <3>4. [k \in 1 .. Len(l) |-> l[k]] \in [1 .. Len(l) -> Int]
      BY <3>3, Zenon
    <3> QED BY <3>1, <3>2, <3>4, Zenon
  <2> QED BY <2>3, <2>5, SequenceOf
<1>2. CASE source \in [list : {<<>>}, MIN : Nat \ {0}, MAX : Nat \ {0}, STEPS : (Nat \ {0}) \cup {Missing}]
  <2>1. source.list = <<>>
    BY <1>2, Zenon
  <2>2. <<>> \in Seq(Int)
    OBVIOUS
  <2> QED BY <2>1, <2>2, Zenon
<1> QED BY <1>1, <1>2 DEF Sources

\* A character of the text, or its end, is a number.
LEMMA AtIs ==
  ASSUME Written(source), NEW i \in Nat \ {0}
  PROVE  At(i) \in Int
<1>1. text \in Seq(Int)
  BY DEF Written, text
<1>2. CASE i <= Len(text)
  BY <1>1, <1>2 DEF At
<1>3. CASE ~(i <= Len(text))
  BY <1>3 DEF At, END
<1> QED BY <1>2, <1>3

\* The index never runs back.
LEMMA SkipBlanksIs ==
  ASSUME Written(source), NEW i \in Nat \ {0}
  PROVE  SkipBlanks(i) \in Nat /\ SkipBlanks(i) >= i
<1>1. Len(text) \in Nat
  BY DEF Written, text
<1> DEFINE top == Max({i, Len(text) + 1})
           U == {h \in i .. top : At(h) # BLANK}
<1>2. top \in Nat /\ top >= i /\ top >= Len(text) + 1 /\ (top = i \/ top = Len(text) + 1)
  <2>1. i \in Int /\ Len(text) + 1 \in Int
    BY <1>1
  <2>2. top = IF i >= Len(text) + 1 THEN i ELSE Len(text) + 1
    BY <2>1, MaxOfTwo
  <2> HIDE DEF top
  <2> QED BY <1>1, <2>2
<1> HIDE DEF top
<1>3. top \in U
  <2>1. ~(top <= Len(text)) /\ top \in i .. top
    BY <1>1, <1>2
  <2> QED BY <2>1 DEF At, END, BLANK
<1>4. U \in SUBSET Nat /\ \A h \in U : h >= i
  BY <1>2
<1>5. SkipBlanks(i) = Min(U)
  BY DEF SkipBlanks, top
<1> HIDE DEF U
<1>6. PICK m \in U : \A h \in U : m <= h
  BY <1>3, <1>4, LeastNumber
<1>7. Min(U) \in U
  BY <1>6, Zenon DEF Min
<1> QED BY <1>4, <1>5, <1>7

\* What a range stands for is a list of numbers.
LEMMA ExpandedIs ==
  ASSUME NEW from \in Int, NEW to \in Int, NEW raise \in Nat \ {0}, NEW neg
  PROVE  Expanded(from, to, raise, neg) \in Seq(Int)
<1>1. <<from>> \in Seq(Int)
  OBVIOUS
<1>2. CASE (neg /\ from < to + raise) \/ (~neg /\ to < from + raise)
  BY <1>1, <1>2 DEF Expanded
<1>3. ASSUME NEW d \in Nat, NEW f \in [1 .. d \div raise + 1 -> Int]
      PROVE  f \in Seq(Int)
  <2>1. d \div raise \in Nat
    BY QuotientIs
  <2>2. PICK n \in Nat : n = d \div raise + 1
    BY <2>1
  <2> QED BY <2>2, SequenceOf
<1>4. CASE neg /\ ~(from < to + raise)
  <2>1. from - to \in Nat
    BY <1>4
  <2>2. Down(from, to, raise) \in [1 .. (from - to) \div raise + 1 -> Int]
    <3>1. \A k \in 1 .. (from - to) \div raise + 1 : from - (k - 1) * raise \in Int
      OBVIOUS
    <3> QED BY <3>1 DEF Down
  <2>3. Down(from, to, raise) \in Seq(Int)
    BY <1>3, <2>1, <2>2
  <2> QED BY <1>4, <2>3 DEF Expanded
<1>5. CASE ~neg /\ ~(to < from + raise)
  <2>1. to - from \in Nat
    BY <1>5
  <2>2. Up(from, to, raise) \in [1 .. (to - from) \div raise + 1 -> Int]
    <3>1. \A k \in 1 .. (to - from) \div raise + 1 : from + (k - 1) * raise \in Int
      OBVIOUS
    <3> QED BY <3>1 DEF Up
  <2>3. Up(from, to, raise) \in Seq(Int)
    BY <1>3, <2>1, <2>2
  <2> QED BY <1>5, <2>3 DEF Expanded
<1> QED BY <1>2, <1>4, <1>5

\* A list of numbers with one more.
LEMMA ListGrows ==
  ASSUME NEW l \in Seq(Int), NEW r \in Seq(Int)
  PROVE  l \o r \in Seq(Int)
OBVIOUS

\* The parser leaves a list of numbers.
LEMMA ParserKeeps ==
  ASSUME Written(source), li \in Nat \ {0}, list \in Seq(Int), bi_parselist
  PROVE  li' \in Nat \ {0} /\ list' \in Seq(Int)
<1>0. /\ \A i \in Nat \ {0} : At(i) \in Int
      /\ \A i \in Nat \ {0} : SkipBlanks(i) \in Nat /\ SkipBlanks(i) >= i
  BY AtIs, SkipBlanksIs
<1>1. \A i \in Nat \ {0} : i + 1 \in Nat \ {0} /\ SkipBlanks(i) \in Nat \ {0}
  BY <1>0
<1>2. SkipBlanks(li + 1) \in Nat \ {0} /\ RangeEnd \in Nat \ {0}
  <2>1. PICK d \in Nat \ {0} : d = SkipBlanks(li + 1)
    BY <1>1
  <2>2. RangeEnd = IF At(d + 1) = BLANK THEN d + 2 ELSE d + 1
    BY <2>1 DEF RangeEnd
  <2> QED BY <2>1, <2>2
<1>3. BehindRange \in Nat \ {0} /\ Sign \in Nat \ {0} /\ Place \in Nat \ {0}
  <2>1. BehindRange \in Nat \ {0}
    BY <1>1, <1>2 DEF BehindRange
  <2>2. Sign \in Nat \ {0}
    BY <1>1, <2>1 DEF Sign
  <2>3. Place \in Nat \ {0}
    BY <2>2 DEF Place
  <2> QED BY <2>1, <2>2, <2>3
<1>4. At(li) \in Int /\ At(RangeEnd) \in Int /\ At(Place) \in Int
  BY <1>0, <1>2, <1>3
<1>5. Raise \in Nat \ {0}
  <2>1. Max({1, At(Place)}) = IF 1 >= At(Place) THEN 1 ELSE At(Place)
    BY <1>4, MaxOfTwo
  <2> QED BY <1>4, <2>1 DEF Raise
<1>6. CASE SkipCharacter
  BY <1>1, <1>6 DEF SkipCharacter
<1>7. CASE NumberZero \/ NumberFloat \/ RangeEndZero \/ RangeFloat \/ Parsed
  BY <1>7 DEF NumberZero, NumberFloat, RangeEndZero, RangeFloat, Parsed, Goto, parser
<1>8. CASE NumberAlone
  BY <1>2, <1>4, <1>8 DEF NumberAlone
<1>9. CASE NumberDropped
  BY <1>2, <1>9 DEF NumberDropped
<1>10. CASE RangeWithoutEnd
  BY <1>2, <1>10 DEF RangeWithoutEnd
<1>11. CASE RangeByOne
  <2>1. PICK e \in Seq(Int) : e = Expanded(At(li), At(RangeEnd), 1, negraise)
    <3>1. 1 \in Nat \ {0}
      OBVIOUS
    <3> QED BY <1>4, <3>1, ExpandedIs
  <2>2. list' = list \o e /\ li' = BehindRange
    BY <1>11, <2>1 DEF RangeByOne
  <2> QED BY <1>3, <2>2, ListGrows
<1>12. CASE RangeByStep
  <2>2. CASE At(Place) = END \/ At(Place + 1) = DOT
    BY <1>12, <2>2 DEF RangeByStep, Goto, parser
  <2>3. CASE ~(At(Place) = END \/ At(Place + 1) = DOT)
    <3>1. PICK neg : neg = (At(Sign) = DASH)
      OBVIOUS
    <3>2. PICK e \in Seq(Int) : e = Expanded(At(li), At(RangeEnd), Raise, neg)
      BY <1>4, <1>5, ExpandedIs
    <3>3. list' = list \o e /\ li' = Place + 1
      BY <1>12, <2>3, <3>1, <3>2 DEF RangeByStep
    <3> QED BY <1>1, <1>3, <3>3, ListGrows
  <2> QED BY <2>2, <2>3
<1> QED BY <1>6, <1>7, <1>8, <1>9, <1>10, <1>11, <1>12 DEF bi_parselist

\* The ends and the steps of a range.
LEMMA RangeIs ==
  ASSUME source \in Sources
  PROVE  /\ source.STEPS \in Int
         /\ source.STEPS > 0 =>
              source.MIN \in Nat \ {0} /\ source.MAX \in Nat \ {0} /\ source.STEPS \in Nat \ {0}
<1>1. CASE source \in [list : Seq(Nat \cup Characters), MIN : {0}, MAX : {0}, STEPS : {0}]
  <2>1. source.STEPS = 0
    BY <1>1, Zenon
  <2> QED BY <2>1
<1>2. CASE source \in [list : {<<>>}, MIN : Nat \ {0}, MAX : Nat \ {0}, STEPS : (Nat \ {0}) \cup {Missing}]
  <2>1. source.MIN \in Nat \ {0} /\ source.MAX \in Nat \ {0} /\ source.STEPS \in (Nat \ {0}) \cup {Missing}
    BY <1>2, Zenon
  <2> QED BY <2>1 DEF Missing
<1> QED BY <1>1, <1>2 DEF Sources

\* A size of a range is not larger than its end.
LEMMA GeometricIs ==
  ASSUME source \in Sources, source.STEPS > 0, source.MIN <= source.MAX,
         NEW i \in Nat, i < source.STEPS - 1
  PROVE  GeometricSize(i) \in 0 .. source.MAX
<1>1. PICK n \in Nat \ {0}, a \in Nat \ {0}, b \in Nat \ {0} :
        n = source.STEPS - 1 /\ a = source.MIN /\ b = source.MAX /\ i < n /\ a <= b
  BY RangeIs
<1>2. PICK h \in Nat : h = n - i
  <2>1. n - i \in Nat
    BY <1>1
  <2> QED BY <2>1
<1>3. PICK P, Q : P = Power(a) /\ Q = Power(b)
  OBVIOUS
<1>4. ArePowers(P, a) /\ ArePowers(Q, b)
  BY <1>3, PowerIs
<1>5. PICK p \in Nat, q \in Nat, r \in Nat : p = P[h] /\ q = Q[h] /\ r = Q[i]
  BY <1>4 DEF ArePowers
<1>6. p <= q
  BY <1>1, <1>4, <1>5, PowerGrows
<1>7. PICK z \in Nat : z = p * r
  OBVIOUS
<1>8. Q[n] = q * r
  <2>1. h + i = n
    BY <1>1, <1>2
  <2>2. Q[h + i] = Q[h] * Q[i]
    BY <1>4, PowerOfSum
  <2> QED BY <1>5, <2>1, <2>2
<1>9. z <= q * r
  <2>1. PICK d \in Nat : q = p + d
    <3>1. q - p \in Nat /\ q = p + (q - p)
      BY <1>6
    <3> QED BY <3>1
  <2>2. q * r = z + d * r
    BY <1>7, <2>1
  <2>3. d * r \in Nat
    OBVIOUS
  <2> QED BY <2>2, <2>3
<1>10. z <= Power(b)[n]
  BY <1>3, <1>8, <1>9
<1>11. PICK x \in 0 .. b : Power(x)[n] <= z /\ Power(x + 1)[n] > z
  <2>1. HasPowerRoot(n, b, z)
    BY <1>10, PowerRoot
  <2> QED BY <2>1 DEF HasPowerRoot, IsPowerRoot
<1>12. Max({source.MIN, source.MAX}) = b
  BY <1>1, MaxOfTwo
<1>13. z = Power(source.MIN)[n - i] * Power(source.MAX)[i]
  BY <1>1, <1>2, <1>3, <1>5, <1>7
<1>14. GeometricSize(i) = CHOOSE y \in 0 .. b : Power(y)[n] <= z /\ Power(y + 1)[n] > z
  BY <1>1, <1>12, <1>13 DEF GeometricSize
<1>15. (CHOOSE y \in 0 .. b : Power(y)[n] <= z /\ Power(y + 1)[n] > z) \in 0 .. b
  BY <1>11, Zenon
<1> QED BY <1>1, <1>14, <1>15

\* The list that a range and a number of steps stand for.
LEMMA GeometricList ==
  ASSUME source \in Sources, source.STEPS > 0, source.MIN <= source.MAX
  PROVE  Geometric \in Seq(Int) /\ \A k \in 1 .. Len(Geometric) : Geometric[k] <= source.MAX
<1>1. PICK s \in Nat \ {0}, b \in Nat \ {0} : s = source.STEPS /\ b = source.MAX
  BY RangeIs
<1>2. PICK f : f = Geometric
  OBVIOUS
<1>3. f = [i \in 1 .. s |-> IF i = s THEN b ELSE GeometricSize(i - 1)]
  BY <1>1, <1>2 DEF Geometric
<1>4. ASSUME NEW i \in 1 .. s PROVE f[i] \in 0 .. b
  <2>1. CASE i = s
    BY <1>3, <2>1
  <2>2. CASE i # s
    <3>1. i - 1 \in Nat /\ i - 1 < source.STEPS - 1
      BY <1>1, <2>2
    <3>2. GeometricSize(i - 1) \in 0 .. b
      BY <1>1, <3>1, GeometricIs
    <3> QED BY <1>3, <2>2, <3>2
  <2> QED BY <2>1, <2>2
<1>5. f \in [1 .. s -> Int]
  <2>1. f = [i \in 1 .. s |-> f[i]]
    BY <1>3
  <2> QED BY <1>4, <2>1
<1>6. f \in Seq(Int) /\ Len(f) = s
  BY <1>5, SequenceOf
<1> QED BY <1>1, <1>2, <1>4, <1>6
----------------------------------------------------------------------------
(***************************************************************************)
(* The sizes are bounded by what the buffers are allocated for, and those  *)
(* in random order are the given ones, at the places that are drawn.       *)
(***************************************************************************)
Drawing == ppc = "draw" \/ (ppc = "done" /\ order)

SizesType ==
  /\ source \in Sources /\ li \in Nat \ {0} /\ list \in Seq(Int) /\ MAX \in Int
  /\ problemarray1 \in Seq(Int) /\ problemarray2 \in Seq(Int) /\ GeneratorInv

Bounded == \A k \in 1 .. Len(problemarray1) : problemarray1[k] <= MAX

DrawnOrder ==
  /\ rand.max = Len(problemarray1) /\ Len(drawn) = Len(problemarray2)
  /\ Len(problemarray2) <= Len(problemarray1)
  /\ \A k \in 1 .. Len(problemarray2) : problemarray2[k] = problemarray1[drawn[k] + 1]

SizesInvIn ==
  /\ SizesType /\ Bounded
  /\ ppc \in {"parse", "sizes", "exit", "crash", "overrun"} => problemarray1 = <<>>
  /\ ppc \notin {"draw", "done"} => problemarray2 = <<>>
  /\ Drawing => DrawnOrder
  /\ ppc = "done" /\ order => Len(problemarray2) = Len(problemarray1)

\* For a range whose ends are in order.
SizesInv == source.MIN <= source.MAX => SizesInvIn

\* The searches for random numbers come to an end.
SearchesEnd ==
  ppc = "random" /\ Len(problemarray1) > 0 => \A s \in STARTS : SearchEnds(s, Len(problemarray1))

\* The invariant holds at first,
LEMMA SizesStart ==
  ASSUME source \in Sources, InitSizes
  PROVE  SizesInvIn
<1>1. GeneratorInv
  BY GeneratorStart DEF InitSizes
<1>2. <<>> \in Seq(Int) /\ Len(<<>>) = 0
  OBVIOUS
<1>3. ppc \in {"parse", "sizes"}
  BY DEF InitSizes
<1> QED BY <1>1, <1>2, <1>3 DEF InitSizes, SizesInvIn, SizesType, Bounded, Drawing

\* is not lost while nothing changes,
LEMMA SizesStay ==
  ASSUME SizesInvIn, UNCHANGED allSizes
  PROVE  SizesInvIn'
<1>1. /\ source' = source /\ order' = order /\ ppc' = ppc /\ li' = li /\ list' = list
      /\ MAX' = MAX /\ problemarray1' = problemarray1 /\ problemarray2' = problemarray2
      /\ UNCHANGED randVars /\ rand' = rand /\ drawn' = drawn
  BY DEF allSizes, parser, sizes, randVars
<1>2. GeneratorInv'
  BY <1>1, GeneratorStays DEF SizesInvIn, SizesType
<1> QED BY <1>1, <1>2 DEF SizesInvIn, SizesType, Bounded, Drawing, DrawnOrder

\* and is kept by the parser,
LEMMA SizesParse ==
  ASSUME SizesInvIn, bi_parselist
  PROVE  SizesInvIn'
<1>1. /\ source' = source /\ order' = order /\ UNCHANGED randVars
      /\ MAX' = MAX /\ problemarray1' = problemarray1 /\ problemarray2' = problemarray2
  BY DEF bi_parselist, sizes
<1>2. GeneratorInv'
  BY <1>1, GeneratorStays DEF SizesInvIn, SizesType
<1>3. li' \in Nat \ {0} /\ list' \in Seq(Int)
  <2>1. Written(source) /\ li \in Nat \ {0} /\ list \in Seq(Int)
    BY TextIs DEF SizesInvIn, SizesType
  <2> QED BY <2>1, ParserKeeps
<1>4. ppc = "parse" /\ ppc' \in {"parse", "sizes", "exit", "crash", "overrun"}
  BY DEF bi_parselist, SkipCharacter, NumberZero, NumberAlone, NumberFloat, NumberDropped,
         RangeWithoutEnd, RangeEndZero, RangeFloat, RangeByOne, RangeByStep, Parsed, Goto, IsRange, Reads
<1> QED BY <1>1, <1>2, <1>3, <1>4 DEF SizesInvIn, SizesType, Bounded, Drawing

\* by the end of the list, a range or no settings at all,
LEMMA SizesTaken ==
  ASSUME SizesInvIn, source.MIN <= source.MAX, TakeList \/ TakeRange \/ NoSizes
  PROVE  SizesInvIn'
<1>1. /\ source' = source /\ order' = order /\ UNCHANGED randVars /\ li' = li /\ list' = list
      /\ problemarray2' = problemarray2 /\ ppc = "sizes" /\ ppc' = "random"
  BY DEF TakeList, TakeRange, NoSizes, parser, sizes
<1>2. GeneratorInv'
  BY <1>1, GeneratorStays DEF SizesInvIn, SizesType
<1>3. ASSUME problemarray1' \in Seq(Int), MAX' \in Int, \A k \in 1 .. Len(problemarray1') : problemarray1'[k] <= MAX'
      PROVE  SizesInvIn'
  BY <1>1, <1>2, <1>3 DEF SizesInvIn, SizesType, Bounded, Drawing
<1>4. CASE TakeList
  <2>1. problemarray1' = list /\ MAX' = (IF list = <<>> THEN 0 ELSE Max(Range(list))) /\ list \in Seq(Int)
    BY <1>4 DEF TakeList, bi_get_list_maxelement, SizesInvIn, SizesType
  <2>2. CASE list = <<>>
    BY <1>3, <2>1, <2>2
  <2>3. CASE list # <<>>
    BY <1>3, <2>1, <2>3, MaxOfList
  <2> QED BY <2>2, <2>3
<1>5. CASE TakeRange
  <2>1. problemarray1' = Geometric /\ MAX' = source.MAX /\ source.STEPS > 0 /\ source \in Sources
    BY <1>5 DEF TakeRange, SizesInvIn, SizesType
  <2>2. source.MAX \in Int
    BY <2>1, RangeIs
  <2> QED BY <1>3, <2>1, <2>2, GeometricList
<1>6. CASE NoSizes
  <2>1. problemarray1' = problemarray1 /\ MAX' = MAX
    BY <1>6 DEF NoSizes, sizes
  <2> QED BY <1>3, <2>1 DEF SizesInvIn, SizesType, Bounded
<1> QED BY <1>4, <1>5, <1>6

\* by the start of a random order,
LEMMA SizesOrder ==
  ASSUME SizesInvIn, SearchesEnd, RandomOrder
  PROVE  SizesInvIn'
<1>0. ppc = "random" /\ problemarray2 = <<>> /\ Len(problemarray2) = 0 /\ ppc' \in {"done", "draw"}
  BY DEF RandomOrder, SizesInvIn
<1>1. /\ source' = source /\ li' = li /\ list' = list
      /\ MAX' = MAX /\ problemarray1' = problemarray1 /\ problemarray2' = problemarray2
  BY DEF RandomOrder, parser, sizes
<1>2. CASE order' = FALSE /\ UNCHANGED randVars
  <2>1. GeneratorInv' /\ ppc' \in {"done", "draw"}
    BY <1>0, <1>2, GeneratorStays DEF SizesInvIn, SizesType
  <2>2. ppc' = "done"
    BY <1>2 DEF RandomOrder
  <2> QED BY <1>0, <1>1, <1>2, <2>1, <2>2 DEF SizesInvIn, SizesType, Bounded, Drawing
<1>3. CASE order' = TRUE /\ ppc' = "draw" /\ \E tv_usec \in STARTS : random_init(tv_usec, Len(problemarray1))
  <2>1. PICK s \in STARTS : random_init(s, Len(problemarray1))
    BY <1>3
  <2>2. PICK n \in Nat : n = Len(problemarray1)
    BY DEF SizesInvIn, SizesType
  <2>3. s \in Nat /\ (n > 0 => SearchEnds(s, n)) /\ random_init(s, n) /\ GeneratorInv
    BY <1>0, <2>1, <2>2, ProblemSizesAssumption DEF SearchesEnd, SizesInvIn, SizesType
  <2>4. GeneratorInv' /\ rand'.max = n /\ drawn' = <<>>
    BY <2>3, GeneratorInit
  <2>5. Len(drawn') = 0 /\ 1 .. Len(problemarray2) = {} /\ Len(problemarray2) <= n
    BY <1>0, <2>2, <2>4
  <2>6. DrawnOrder'
    BY <1>0, <1>1, <2>2, <2>4, <2>5 DEF DrawnOrder
  <2> QED BY <1>0, <1>1, <1>3, <2>4, <2>6 DEF SizesInvIn, SizesType, Bounded, Drawing
<1> QED BY <1>2, <1>3 DEF RandomOrder

\* and by each draw.
LEMMA SizesDraw ==
  ASSUME SizesInvIn, Draw
  PROVE  SizesInvIn'
<1>0. ppc = "draw" /\ DrawnOrder
  BY DEF Draw, SizesInvIn, Drawing
<1>1. /\ source' = source /\ order' = order /\ li' = li /\ list' = list
      /\ MAX' = MAX /\ problemarray1' = problemarray1
  BY DEF Draw, parser
<1>2. CASE ~(Len(problemarray2) < Len(problemarray1))
  <2>1. ppc' = "done" /\ problemarray2' = problemarray2 /\ UNCHANGED randVars
    BY <1>2 DEF Draw
  <2>2. rand' = rand /\ drawn' = drawn /\ GeneratorInv'
    BY <2>1, GeneratorStays DEF SizesInvIn, SizesType, randVars
  <2>3. DrawnOrder'
    BY <1>0, <1>1, <2>1, <2>2 DEF DrawnOrder
  <2>4. Len(problemarray2) \in Nat /\ Len(problemarray1) \in Nat
    BY DEF SizesInvIn, SizesType
  <2>5. Len(problemarray2) = Len(problemarray1)
    BY <1>0, <1>2, <2>4 DEF DrawnOrder
  <2> QED BY <1>0, <1>1, <2>1, <2>2, <2>3, <2>5 DEF SizesInvIn, SizesType, Bounded, Drawing
<1>3. CASE Len(problemarray2) < Len(problemarray1)
  <2>1. ppc' = ppc /\ random /\ problemarray2' = Append(problemarray2, problemarray1[Number + 1])
    BY <1>3 DEF Draw
  <2>2. GeneratorInv' /\ rand'.max = rand.max
    BY <2>1, GeneratorNext DEF SizesInvIn, SizesType
  <2>3. PICK n \in Nat \ {0}, l \in Nat : n = Len(problemarray1) /\ l = Len(problemarray2) /\ l < n
    <3>1. Len(problemarray2) \in Nat /\ Len(problemarray1) \in Nat
      BY DEF SizesInvIn, SizesType
    <3> QED BY <1>3, <3>1
  <2>4. PICK S : drawn \in Seq(S)
    BY DEF SizesInvIn, SizesType, GeneratorInv, RandomInv
  <2>5. PICK d : d = Number
    OBVIOUS
  <2>6. drawn' = Append(drawn, d) /\ Len(drawn) = l /\ rand.max = n
    BY <1>0, <2>1, <2>3, <2>5 DEF random, DrawnOrder
  <2>7. /\ Len(drawn') = l + 1 /\ drawn'[l + 1] = d /\ \A k \in 1 .. l : drawn'[k] = drawn[k]
        /\ DOMAIN drawn' = 1 .. l + 1
    BY <2>4, <2>6
  <2>8. EachNumberOnce'
    <3>1. GeneratorInv => EachNumberOnce
      BY GeneratorOnce
    <3>2. (GeneratorInv => EachNumberOnce)'
      BY GeneratorOnce, PTL
    <3> QED BY <2>2, <3>2
  <2>9. d \in 0 .. n - 1
    <3>1. rand'.max = n /\ n > 0 /\ l + 1 \in DOMAIN drawn'
      BY <2>2, <2>6, <2>7
    <3>2. drawn'[l + 1] \in 0 .. rand'.max - 1
      BY <2>8, <3>1 DEF EachNumberOnce
    <3> QED BY <2>7, <3>1, <3>2
  <2>10. PICK v \in Int : v = problemarray1[d + 1]
    <3>1. d + 1 \in 1 .. n /\ problemarray1 \in Seq(Int)
      BY <2>9 DEF SizesInvIn, SizesType
    <3> QED BY <2>3, <3>1
  <2>11. problemarray2' = Append(problemarray2, v) /\ problemarray2 \in Seq(Int)
    BY <2>1, <2>5, <2>10 DEF SizesInvIn, SizesType
  <2>12. /\ problemarray2' \in Seq(Int) /\ Len(problemarray2') = l + 1
         /\ problemarray2'[l + 1] = v /\ \A k \in 1 .. l : problemarray2'[k] = problemarray2[k]
    BY <2>3, <2>11
  <2>13. \A k \in 1 .. l + 1 : problemarray2'[k] = problemarray1[drawn'[k] + 1]
    <3>1. \A k \in 1 .. l : problemarray2[k] = problemarray1[drawn[k] + 1]
      BY <1>0, <2>3 DEF DrawnOrder
    <3>2. \A k \in 1 .. l + 1 : k \in 1 .. l \/ k = l + 1
      OBVIOUS
    <3>3. ASSUME NEW k \in 1 .. l + 1 PROVE problemarray2'[k] = problemarray1[drawn'[k] + 1]
      <4>1. CASE k \in 1 .. l
        BY <2>7, <2>12, <3>1, <4>1, Zenon
      <4>2. CASE k = l + 1
        BY <2>7, <2>10, <2>12, <4>2, Zenon
      <4> QED BY <3>2, <4>1, <4>2
    <3> QED BY <3>3
  <2>14. DrawnOrder'
    <3>1. rand'.max = Len(problemarray1') /\ Len(drawn') = Len(problemarray2')
          /\ Len(problemarray2') <= Len(problemarray1')
      BY <1>1, <2>2, <2>3, <2>6, <2>7, <2>12
    <3>2. \A k \in 1 .. Len(problemarray2') : problemarray2'[k] = problemarray1'[drawn'[k] + 1]
      BY <1>1, <2>12, <2>13
    <3> QED BY <3>1, <3>2 DEF DrawnOrder
  <2> QED BY <1>0, <1>1, <2>1, <2>2, <2>12, <2>14 DEF SizesInvIn, SizesType, Bounded, Drawing
<1> QED BY <1>2, <1>3

\* Drawing the positions of p one by one, each once, gives a sequence q with the same
\* elements, each as often.
Rearranges(n, p, q, d) ==
  /\ \A k \in 1 .. n : d[k] \in 1 .. n /\ q[k] = p[d[k]]
  /\ \A i \in 1 .. n : \A k \in 1 .. n : i # k => d[i] # d[k]

CountOf(n, q, s) == Cardinality({k \in 1 .. n : q[k] = s})

LEMMA Rearranged ==
  ASSUME NEW n \in Nat, NEW p, NEW q, NEW d, Rearranges(n, p, q, d), NEW s
  PROVE  CountOf(n, q, s) = CountOf(n, p, s)
<1>0. /\ \A k \in 1 .. n : d[k] \in 1 .. n /\ q[k] = p[d[k]]
      /\ \A i \in 1 .. n : \A k \in 1 .. n : i # k => d[i] # d[k]
  BY DEF Rearranges
<1> DEFINE N == 1 .. n
           A == {k \in N : q[k] = s}
           B == {k \in N : p[k] = s}
           f == [k \in N |-> d[k]]
           g == [k \in A |-> d[k]]
<1>1. IsFiniteSet(N) /\ A \in SUBSET N /\ B \in SUBSET N
  BY FS_Interval
<1>2. f \in Injection(N, N)
  BY <1>0 DEF Injection, IsInjective
<1>3. f \in Surjection(N, N)
  <2> HIDE DEF f, N
  <2> QED BY <1>1, <1>2, FS_Injection
<1>4. g \in Bijection(A, B)
  <2>1. \A k \in A : d[k] \in B
    BY <1>0
  <2>2. \A b \in B : \E k \in A : d[k] = b
    <3> SUFFICES ASSUME NEW b \in B PROVE \E k \in A : d[k] = b
      OBVIOUS
    <3>1. PICK k \in N : f[k] = b
      <4> HIDE DEF f
      <4> QED BY <1>3 DEF Surjection
    <3>2. d[k] = b /\ q[k] = p[b]
      BY <1>0, <3>1
    <3> QED BY <3>1, <3>2
  <2>3. \A i \in A : \A k \in A : i # k => d[i] # d[k]
    BY <1>0
  <2> HIDE DEF A, B
  <2> QED BY <2>1, <2>2, <2>3 DEF Bijection, Injection, IsInjective, Surjection
<1>5. IsFiniteSet(A) /\ ExistsBijection(A, B)
  <2>1. IsFiniteSet(A)
    <3> HIDE DEF A, N
    <3> QED BY <1>1, FS_Subset
  <2> HIDE DEF A, B, g
  <2> QED BY <1>4, <2>1 DEF ExistsBijection
<1>6. Cardinality(B) = Cardinality(A)
  <2> HIDE DEF A, B
  <2> QED BY <1>5, FS_Bijection
<1>7. CountOf(n, q, s) = Cardinality(A) /\ CountOf(n, p, s) = Cardinality(B)
  BY Zenon DEF CountOf
<1> QED BY <1>6, <1>7

\* The invariant implies the property.
LEMMA SizesKeptIn ==
  ASSUME SizesInv
  PROVE  SizesKept
<1> SUFFICES ASSUME ppc = "done", source.MIN <= source.MAX
             PROVE  /\ \A k \in DOMAIN problemarray1 : SizeOf(k) <= MAX
                    /\ \A s \in Range(problemarray1) :
                         Times(s, [k \in DOMAIN problemarray1 |-> SizeOf(k)]) = Times(s, problemarray1)
  BY DEF SizesKept
<1>1. SizesInvIn
  BY DEF SizesInv
<1>2. PICK n \in Nat : n = Len(problemarray1) /\ DOMAIN problemarray1 = 1 .. n
  BY <1>1 DEF SizesInvIn, SizesType
<1>3. \A k \in 1 .. n : problemarray1[k] <= MAX
  BY <1>1, <1>2 DEF SizesInvIn, Bounded
<1>4. CASE ~order
  <2>1. \A k \in 1 .. n : SizeOf(k) = problemarray1[k]
    BY <1>4 DEF SizeOf
  <2>2. problemarray1 = [k \in 1 .. n |-> problemarray1[k]]
    BY <1>1, <1>2 DEF SizesInvIn, SizesType
  <2>3. [k \in DOMAIN problemarray1 |-> SizeOf(k)] = problemarray1
    BY <1>2, <2>1, <2>2
  <2> QED BY <1>2, <1>3, <2>1, <2>3
<1>5. CASE order
  <2>1. DrawnOrder /\ Len(problemarray2) = n /\ GeneratorInv
    BY <1>1, <1>2, <1>5 DEF SizesInvIn, SizesType, Drawing
  <2>2. PICK S : drawn \in Seq(S)
    BY <2>1 DEF GeneratorInv, RandomInv
  <2>3. Len(drawn) = n /\ DOMAIN drawn = 1 .. n /\ rand.max = n
    BY <1>2, <2>1, <2>2 DEF DrawnOrder
  <2>4. EachNumberOnce
    BY <2>1, GeneratorOnce
  <2> DEFINE d == [k \in 1 .. n |-> drawn[k] + 1]
             q == [k \in 1 .. n |-> SizeOf(k)]
  <2>5. ASSUME NEW k \in 1 .. n PROVE d[k] \in 1 .. n /\ q[k] = problemarray1[d[k]]
    <3>1. drawn[k] \in 0 .. n - 1
      BY <2>3, <2>4 DEF EachNumberOnce
    <3>2. SizeOf(k) = problemarray1[drawn[k] + 1]
      BY <1>5, <2>1 DEF SizeOf, DrawnOrder
    <3> QED BY <3>1, <3>2
  <2>6. ASSUME NEW i \in 1 .. n, NEW k \in 1 .. n, i # k PROVE d[i] # d[k]
    <3>1. ASSUME NEW a \in 1 .. n, NEW b \in 1 .. n, a < b PROVE drawn[a] # drawn[b]
      <4>1. IsDraw /\ rand.max \in Nat /\ Len(drawn) \in Nat
        <5>1. rand.max = 0 => n = 0
          BY <2>3
        <5> QED BY <2>1, <2>3, <3>1, DrawIs DEF NothingDrawn
      <4>2. b - a < rand.max /\ a \in 1 .. Len(drawn) /\ b \in 1 .. Len(drawn)
        BY <2>3, <3>1
      <4> QED BY <3>1, <4>1, <4>2, DrawDistinct
    <3>2. drawn[i] # drawn[k]
      <4>1. i < k \/ k < i
        BY <2>6
      <4> QED BY <3>1, <4>1
    <3>3. drawn[i] \in 0 .. n - 1 /\ drawn[k] \in 0 .. n - 1
      BY <2>3, <2>4 DEF EachNumberOnce
    <3> QED BY <3>2, <3>3
  <2>7. \A k \in 1 .. n : SizeOf(k) <= MAX
    BY <1>3, <2>5
  <2>8. ASSUME NEW s PROVE Times(s, q) = Times(s, problemarray1)
    <3>1. DOMAIN q = 1 .. n
      OBVIOUS
    <3> HIDE DEF d, q
    <3>2. Cardinality({k \in 1 .. n : q[k] = s}) = Cardinality({k \in 1 .. n : problemarray1[k] = s})
      <4>1. \A k \in 1 .. n : d[k] \in 1 .. n /\ q[k] = problemarray1[d[k]]
        BY <2>5
      <4>2. \A i \in 1 .. n : \A k \in 1 .. n : i # k => d[i] # d[k]
        BY <2>6
      <4>3. PICK p, r, e : p = problemarray1 /\ r = q /\ e = d
        OBVIOUS
      <4>4. Rearranges(n, p, r, e)
        BY <4>1, <4>2, <4>3 DEF Rearranges
      <4>5. CountOf(n, r, s) = CountOf(n, p, s)
        BY <4>4, Rearranged
      <4> QED BY <4>3, <4>5 DEF CountOf
    <3> QED BY <1>2, <3>1, <3>2 DEF Times
  <2>9. [k \in DOMAIN problemarray1 |-> SizeOf(k)] = q
    BY <1>2
  <2> HIDE DEF d, q
  <2> QED BY <1>2, <2>7, <2>8, <2>9
<1> QED BY <1>4, <1>5

\* For a range whose ends are in order no size is larger than the buffers, and in random
\* order each size is measured as often as the settings name it, provided that the
\* searches of _random_init() end.
THEOREM SizesAreKept == SpecSizes /\ []SearchesEnd => []SizesKept
<1>1. source \in Sources /\ InitSizes => SizesInv
  BY SizesStart DEF SizesInv
<1>2. SizesInv /\ SearchesEnd /\ [FindSizes]_allSizes => SizesInv'
  <2> SUFFICES ASSUME SizesInv, SearchesEnd, [FindSizes]_allSizes PROVE SizesInv'
    OBVIOUS
  <2>1. source' = source
    BY DEF FindSizes, bi_parselist, TakeList, TakeRange, NoSizes, RandomOrder, Draw, allSizes
  <2>2. ASSUME source.MIN <= source.MAX PROVE SizesInvIn'
    <3>1. SizesInvIn
      BY <2>2 DEF SizesInv
    <3> QED BY <2>2, <3>1, SizesStay, SizesParse, SizesTaken, SizesOrder, SizesDraw DEF FindSizes
  <2> QED BY <2>1, <2>2 DEF SizesInv
<1>3. SizesInv => SizesKept
  BY SizesKeptIn
<1> QED BY <1>1, <1>2, <1>3, PTL DEF SpecSizes
==============================================================================
