------------------------- MODULE PermutationRandom -------------------------
(***************************************************************************)
(* The generator that the latency kernel takes its random order from: the  *)
(* linear congruential sequence r' = (a*r + b) % m for a prime m and a     *)
(* primitive root a runs through all residues but its fixpoint, and        *)
(* _random() hides the fixpoint and what is too large.                     *)
(*                                                                         *)
(* The table of primes is kept from call to call.  It is filled from 5 on  *)
(* whenever it grows, so that it can hold primes twice.                    *)
(***************************************************************************)
EXTENDS Integers, Sequences, FiniteSets, SequencesExt, FiniteSetsExt

VARIABLES
  rand,     \* parameters and state of the generator
  p_list,   \* the table of primes found so far
  drawn     \* history: the numbers returned since _random_init()

randVars == <<rand, p_list, drawn>>

Least(S) == IF S = {} THEN 0 ELSE Min(S)
Odd(n)   == IF n % 2 = 0 THEN n + 1 ELSE n

\* (int)trunc(sqrt(n)) + 1
Limit(n) == 1 + CHOOSE r \in 0 .. n : r * r <= n /\ (r + 1) * (r + 1) > n

\* The order in which the loops reach odd numbers.
OddsFrom(a, b) == [k \in 1 .. Max({0, (b - a + 2) \div 2}) |-> a + 2 * (k - 1)]
----------------------------------------------------------------------------
\* isprime(): the first prime of the table that decides, else a free place in it,
\* else division by the numbers behind it.
isprime(list, p_list_max, v) ==
  LET decides == {i \in DOMAIN list : list[i] > Limit(v) \/ v % list[i] = 0}
      first   == list[Least(decides)]
  IN  IF decides # {} /\ first <= Limit(v) THEN v = first
      ELSE \/ Len(list) < p_list_max
           \/ \A d \in Range(OddsFrom(Last(list), Limit(v))) : v % d # 0

TableSize(max) == (Limit(max) \div 2) + 1

\* The table for max: primes from 5 on are added until it is full.
Table(max) ==
  LET size == Max({Len(p_list), TableSize(max)})
      fill[v \in Nat] ==
        IF v < 5 THEN IF p_list = <<>> THEN <<2, 3>> ELSE p_list
        ELSE LET list == fill[v - 2] IN IF isprime(list, size, v) THEN Append(list, v) ELSE list
      until[v \in Nat] == IF Len(fill[v]) = size THEN fill[v] ELSE until[v + 2]
  IN  until[3]

\* isfactor() for the table and for the odd numbers behind it: the prime factors of n.
Stripped(n, f) ==
  LET strip[q \in 1 .. n] == IF q % f = 0 THEN strip[q \div f] ELSE q
  IN  strip[n]

Parts(list, n) ==
  LET trials == list \o OddsFrom(Last(list), Limit(n))
      divide[k \in 0 .. Len(trials)] ==
        IF k = 0 THEN [number |-> n, parts |-> <<>>]
        ELSE LET acc == divide[k - 1]
             IN  IF acc.number % trials[k] = 0
                 THEN [number |-> Stripped(acc.number, trials[k]),
                       parts  |-> Append(acc.parts, trials[k])]
                 ELSE acc
      all == divide[Len(trials)]
  IN  IF all.number > 1 THEN Append(all.parts, all.number) ELSE all.parts

\* (x^y) % m, bit by bit from the highest of y.
potenz(x, y, m) ==
  LET power[e \in 0 .. y] ==
        IF e = 0 THEN 1
        ELSE LET half == power[e \div 2]
             IN  (((half * half) % m) * (IF e % 2 = 1 THEN x ELSE 1)) % m
  IN  power[y]

isprimitiveroot(v, m, parts) ==
  \A i \in DOMAIN parts : potenz(v, (m - 1) \div parts[i], m) # 1

\* Mutant: any large factor is taken.
MultiplierUntested(m, parts) ==
  LET good == {i \in DOMAIN parts : m \div 2 # parts[i] /\ parts[i] * parts[i] > m}
  IN  IF good = {} THEN 0 ELSE parts[Min(good)]

\* The first large prime factor of m - 1 that is a primitive root of m, or 0.
Multiplier(m, parts) ==
  LET good == {i \in DOMAIN parts : /\ m \div 2 # parts[i] /\ parts[i] * parts[i] > m
                                    /\ isprimitiveroot(parts[i], m, parts)}
  IN  IF good = {} THEN 0 ELSE parts[Min(good)]

Increment(m, start) == Odd((start % (m \div 2)) + (m \div 4))

\* The fixpoint, by trial of all multiples of m.
Fixpoint(m, a, b) ==
  LET f(x) == (x * m - b) \div (a - 1)
      hits == {x \in 1 .. a : f(x) = (f(x) * a + b) % m}
  IN  IF a = 0 \/ hits = {} THEN 0 ELSE f(Min(hits))

\* The parameters for the modulus m; a = 0 if there are none.
Parameters(list, m, start) ==
  LET a == Multiplier(m, Parts(list, m - 1))
      b == Increment(m, start)
  IN  [m |-> m, a |-> a, b |-> b, fix |-> Fixpoint(m, a, b)]

\* _random_init(): the first prime above max (or above what was looked at to fill
\* the table) that has parameters.
random_init(start, max) ==
  IF max = 0 THEN rand' = [rand EXCEPT !.max = 0] /\ drawn' = <<>> /\ UNCHANGED p_list
  ELSE
    LET list   == Table(max)
        looked == IF Len(list) > Max({Len(p_list), 2}) THEN Last(list) ELSE 3
        search[m \in Nat] ==
          LET p == Parameters(list, m, start)
          IN  IF isprime(list, Len(list), m) /\ p.a * p.a >= m /\ p.fix # 0 THEN p ELSE search[m + 2]
        p == search[IF looked <= max THEN Odd(max + 1) ELSE looked]
    IN  /\ rand' = [max |-> max, m |-> p.m, a |-> p.a, b |-> p.b, fix |-> p.fix,
                    value |-> IF start % p.m = p.fix THEN 0 ELSE start % p.m]
        /\ p_list' = list
        /\ drawn' = <<>>

TooLarge(v) == \/ v > rand.max /\ rand.fix < rand.max
               \/ v >= rand.max /\ rand.fix >= rand.max

\* The next number of the sequence that is small enough.
NextValue ==
  LET next[v \in 0 .. rand.m - 1] ==
        LET w == (v * rand.a + rand.b) % rand.m IN IF TooLarge(w) THEN next[w] ELSE w
  IN  next[rand.value]

\* The fixpoint is hidden.
Hidden(v) == IF v < rand.fix THEN v ELSE v - 1
Number == IF rand.max = 0 THEN -1 ELSE Hidden(NextValue)

\* _random() returns Number.
random ==
  /\ rand' = IF rand.max = 0 THEN rand ELSE [rand EXCEPT !.value = NextValue]
  /\ drawn' = Append(drawn, Number)
  /\ UNCHANGED p_list

RandomStart ==
  /\ rand = [max |-> 0, m |-> 1, a |-> 0, b |-> 0, fix |-> 0, value |-> 0]
  /\ p_list = <<>> /\ drawn = <<>>
----------------------------------------------------------------------------
\* "ensure that each number < random_max is eventually returned (generate
\* permutation of 0..random_max-1)": no number comes twice before all have come, and
\* then the sequence begins again.
EachNumberOnce ==
  \A i \in DOMAIN drawn : rand.max > 0 =>
    /\ drawn[i] \in 0 .. rand.max - 1
    /\ \A k \in 1 .. i - 1 : drawn[k] = drawn[i] <=> (i - k) % rand.max = 0
============================================================================
