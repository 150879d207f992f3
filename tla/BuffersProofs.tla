--------------------------- MODULE BuffersProofs ---------------------------
(***************************************************************************)
(* What is proved of the modules Detection, Buffers, MeasuredLoop and      *)
(* PmuModule: the buffers, whatever the caches and threads, and the loops  *)
(* that sweep or measure them, for data sets of every size, any number of  *)
(* threads and runs, and any times.                                        *)
(***************************************************************************)
EXTENDS Buffers, MeasuredLoop, NumberFacts, SequenceTheorems

----------------------------------------------------------------------------
(***************************************************************************)
(* Helpers of the community modules.                                       *)
(***************************************************************************)
LEMMA MinIs ==
  ASSUME NEW S \in SUBSET Int, NEW p \in S, \A q \in S : p <= q
  PROVE  Min(S) = p
<1>1. Min(S) \in S /\ \A q \in S : Min(S) <= q
  BY Zenon DEF Min
<1>2. Min(S) \in Int /\ p \in Int /\ Min(S) <= p /\ p <= Min(S)
  BY <1>1
<1> QED BY <1>2

LEMMA MaxIs ==
  ASSUME NEW S \in SUBSET Int, NEW p \in S, \A q \in S : p >= q
  PROVE  Max(S) = p
<1>1. Max(S) \in S /\ \A q \in S : Max(S) >= q
  BY Zenon DEF Max
<1>2. Max(S) \in Int /\ p \in Int /\ Max(S) <= p /\ p <= Max(S)
  BY <1>1
<1> QED BY <1>2

LEMMA MinOfTwo ==
  ASSUME NEW a \in Int, NEW b \in Int
  PROVE  Min({a, b}) = (IF a < b THEN a ELSE b)
<1>1. CASE a < b
  BY <1>1, MinIs
<1>2. CASE b <= a
  BY <1>2, MinIs
<1> QED BY <1>1, <1>2
----------------------------------------------------------------------------
(***************************************************************************)
(* The text that describes a cache.                                        *)
(***************************************************************************)
LEMMA NextComma ==
  ASSUME NEW T, NEW text \in Seq(T), NEW beg \in Nat \ {0}, NEW to \in Int,
         to - 2 \in beg .. Len(text), text[to - 2] = "comma",
         \A q \in beg .. to - 3 : text[q] # "comma"
  PROVE  AfterComma(text, beg) = to
<1> DEFINE commas == {q \in beg .. Len(text) : text[q] = "comma"}
<1>1. Len(text) \in Nat
  OBVIOUS
<1>2. commas \in SUBSET Int /\ to - 2 \in commas /\ \A q \in commas : to - 2 <= q
  BY <1>1
<1>4. AfterComma(text, beg) = Min(commas) + 2
  BY <1>2 DEF AfterComma
<1> HIDE DEF commas
<1>3. Min(commas) = to - 2
  BY <1>2, MinIs
<1> QED BY <1>3, <1>4

LEMMA NoComma ==
  ASSUME NEW T, NEW text \in Seq(T), NEW beg \in Nat, \A q \in beg .. Len(text) : text[q] # "comma"
  PROVE  AfterComma(text, beg) = 0
BY DEF AfterComma

LEMMA AfterCommaType ==
  ASSUME NEW T, NEW text \in Seq(T), NEW beg \in Nat
  PROVE  AfterComma(text, beg) \in Nat
<1> DEFINE commas == {q \in beg .. Len(text) : text[q] = "comma"}
<1>1. commas \in SUBSET Nat
  OBVIOUS
<1>2. AfterComma(text, beg) = IF beg = 0 \/ commas = {} THEN 0 ELSE Min(commas) + 2
  BY DEF AfterComma
<1> HIDE DEF commas
<1>3. CASE commas = {}
  BY <1>2, <1>3
<1>4. CASE commas # {}
  <2>1. PICK p \in commas : \A q \in commas : p <= q
    BY <1>1, <1>4, LeastNumber
  <2>2. Min(commas) = p
    BY <1>1, <2>1, MinIs
  <2> QED BY <1>1, <1>2, <2>2
<1> QED BY <1>3, <1>4

\* Field() passes the commas one after the other.
FieldPasses(f, text, n) ==
  /\ f \in [0 .. n -> Nat] /\ f[0] = 1 /\ Field(text, n) = f[n]
  /\ \A k \in 1 .. n : f[k] = AfterComma(text, f[k - 1])

LEMMA FieldSteps ==
  ASSUME NEW T, NEW text \in Seq(T), NEW n \in Nat
  PROVE  \E f : FieldPasses(f, text, n)
<1> DEFINE Step(b)  == AfterComma(text, b)
           Body(f) == [k \in 0 .. n |-> IF k = 0 THEN 1 ELSE Step(f[k - 1])]
           field   == CHOOSE f : f = Body(f)
<1>1. Field(text, n) = field[n]
  BY DEF Field
<1>0. \A b \in Nat : Step(b) \in Nat
  BY AfterCommaType
<1> HIDE DEF Step
<1>2. PICK G \in [1 .. n -> [Nat -> Nat]] : \A k \in 1 .. n : \A b \in Nat : G[k][b] = Step(b)
  <2> DEFINE G == [k \in 1 .. n |-> [b \in Nat |-> Step(b)]]
  <2>1. G \in [1 .. n -> [Nat -> Nat]] /\ \A k \in 1 .. n : \A b \in Nat : G[k][b] = Step(b)
    BY <1>0
  <2> HIDE DEF G
  <2> QED BY <2>1
<1>3. PICK f : f \in [0 .. n -> Nat] /\ f[0] = 1 /\ \A k \in 1 .. n : f[k] = G[k][f[k - 1]]
  <2>1. \E f : Follows(f, n, Nat, 1, G)
    BY <1>2, Recursion
  <2> QED BY <2>1 DEF Follows
<1>4. \A k \in 1 .. n : f[k] = Step(f[k - 1])
  <2> SUFFICES ASSUME NEW k \in 1 .. n PROVE f[k] = Step(f[k - 1])
    OBVIOUS
  <2>1. k - 1 \in 0 .. n
    OBVIOUS
  <2> QED BY <1>2, <1>3, <2>1
<1>5. f = Body(f)
  <2>1. ASSUME NEW k \in 0 .. n PROVE f[k] = Body(f)[k]
    BY <1>3, <1>4
  <2>2. f = [k \in 0 .. n |-> f[k]]
    BY <1>3
  <2> QED BY <2>1, <2>2
<1>6. field = Body(field)
  BY <1>5
<1> HIDE DEF field
<1>7. field[0] = 1 /\ \A k \in 1 .. n : field[k] = Step(field[k - 1])
  <2>1. ASSUME NEW k \in 0 .. n PROVE field[k] = IF k = 0 THEN 1 ELSE Step(field[k - 1])
    BY <1>6
  <2> HIDE DEF Body
  <2> QED BY <2>1
<1>8. \A k \in 0 .. n : field[k] \in Nat
  <2>1. \A k \in 1 .. n : field[k - 1] \in Nat => field[k] \in Nat
    BY <1>7, <1>0
  <2>2. field[0] \in Nat
    BY <1>7
  <2> HIDE DEF Body
  <2> QED BY <2>1, <2>2, StaysIn, Zenon
<1>9. field \in [0 .. n -> Nat]
  BY <1>6, <1>8
<1> QED BY <1>1, <1>7, <1>9 DEF Step, FieldPasses

LEMMA Fields ==
  ASSUME NEW T, NEW text \in Seq(T)
  PROVE  \E f1, f2, f3, f4 \in Nat :
           /\ f1 = AfterComma(text, 1) /\ f2 = AfterComma(text, f1)
           /\ f3 = AfterComma(text, f2) /\ f4 = AfterComma(text, f3)
           /\ Field(text, 1) = f1 /\ Field(text, 2) = f2 /\ Field(text, 3) = f3 /\ Field(text, 4) = f4
<1>2. PICK f : FieldPasses(f, text, 1)
  BY FieldSteps
<1>3. PICK g : FieldPasses(g, text, 2)
  BY FieldSteps
<1>4. PICK h : FieldPasses(h, text, 3)
  BY FieldSteps
<1>5. PICK i : FieldPasses(i, text, 4)
  BY FieldSteps
<1>6. Field(text, 1) \in Nat /\ Field(text, 1) = AfterComma(text, 1)
  BY <1>2 DEF FieldPasses
<1>7. Field(text, 2) \in Nat /\ Field(text, 2) = AfterComma(text, Field(text, 1))
  BY <1>3, <1>6 DEF FieldPasses
<1>8. Field(text, 3) \in Nat /\ Field(text, 3) = AfterComma(text, Field(text, 2))
  BY <1>4, <1>6, <1>7 DEF FieldPasses
<1>9. Field(text, 4) \in Nat /\ Field(text, 4) = AfterComma(text, Field(text, 3))
  BY <1>5, <1>6, <1>7, <1>8 DEF FieldPasses
<1> QED BY <1>6, <1>7, <1>8, <1>9


\* The words of a text in which some values may be missing, and where they are.
WordsAt(text, s, t, u, size, ways, line) ==
  /\ Len(text) = u + 3
  /\ text[1] = "head" /\ text[2] = "comma"
  /\ size => text[3] = "blank" /\ text[4] = "size"
  /\ ways => text[s + 1] = "comma" /\ text[s + 2] = "blank" /\ text[s + 3] = "ways"
  /\ line => text[t + 1] = "comma" /\ text[t + 2] = "blank" /\ text[t + 3] = "line"
  /\ text[u + 1] = "comma" /\ text[u + 2] = "blank" /\ text[u + 3] = "cpus"

IsInfo(text, W, size, ways, line) ==
  LET s == IF size THEN 4 ELSE 2
      t == IF ways THEN s + 3 ELSE s
      u == IF line THEN t + 3 ELSE t
  IN text \in Seq(W) /\ WordsAt(text, s, t, u, size, ways, line)

LEMMA Joined ==
  ASSUME NEW W, NEW s \in Seq(W), NEW t \in Seq(W)
  PROVE  /\ s \o t \in Seq(W) /\ Len(s \o t) = Len(s) + Len(t)
         /\ \A k \in 1 .. Len(s) : (s \o t)[k] = s[k]
         /\ \A k \in 1 .. Len(t) : (s \o t)[Len(s) + k] = t[k]
<1>1. ASSUME NEW k \in 1 .. Len(t) PROVE (s \o t)[Len(s) + k] = t[k]
  BY ConcatProperties
<1> QED BY <1>1, ConcatProperties

LEMMA InfoShape ==
  ASSUME NEW cache
  PROVE  \E W : IsInfo(cache_info(cache), W, "size" \in cache.files, "ways" \in cache.files, "line" \in cache.files)
<1>1. PICK W : W = {"head", "comma", "blank", "size", "ways", "line", "cpus"}
  OBVIOUS
<1>2. /\ <<"head", "comma">> \in Seq(W) /\ <<"blank", "size">> \in Seq(W) /\ <<"comma", "blank", "ways">> \in Seq(W)
      /\ <<"comma", "blank", "line">> \in Seq(W) /\ <<"comma", "blank", "cpus">> \in Seq(W)
      /\ <<>> \in Seq(W)
  BY <1>1
<1>3. PICK A \in Seq(W), E \in Seq(W) : A = <<"head", "comma">> /\ E = <<"comma", "blank", "cpus">>
  BY <1>2, Zenon
<1>4. PICK B \in Seq(W) : B = IF "size" \in cache.files THEN <<"blank", "size">> ELSE <<>>
  BY <1>2, Zenon
<1>5. PICK C \in Seq(W) : C = IF "ways" \in cache.files THEN <<"comma", "blank", "ways">> ELSE <<>>
  BY <1>2, Zenon
<1>6. PICK D \in Seq(W) : D = IF "line" \in cache.files THEN <<"comma", "blank", "line">> ELSE <<>>
  BY <1>2, Zenon
<1>7. PICK S \in Seq(W) : S = A \o B
  BY Joined
<1>8. PICK T \in Seq(W) : T = S \o C
  BY Joined
<1>9. PICK U \in Seq(W) : U = T \o D
  BY Joined
<1>10. PICK V \in Seq(W) : V = U \o E
  BY Joined
<1>11. V = cache_info(cache)
  BY <1>3, <1>4, <1>5, <1>6, <1>7, <1>8, <1>9, <1>10 DEF cache_info, Part
<1>12. Len(A) = 2 /\ A[1] = "head" /\ A[2] = "comma"
  BY <1>3
<1>13. Len(B) = (IF "size" \in cache.files THEN 2 ELSE 0)
       /\ ("size" \in cache.files => B[1] = "blank" /\ B[2] = "size")
  BY <1>4
<1>14. Len(C) = (IF "ways" \in cache.files THEN 3 ELSE 0)
       /\ ("ways" \in cache.files => C[1] = "comma" /\ C[2] = "blank" /\ C[3] = "ways")
  BY <1>5
<1>15. Len(D) = (IF "line" \in cache.files THEN 3 ELSE 0)
       /\ ("line" \in cache.files => D[1] = "comma" /\ D[2] = "blank" /\ D[3] = "line")
  BY <1>6
<1>16. Len(E) = 3 /\ E[1] = "comma" /\ E[2] = "blank" /\ E[3] = "cpus"
  BY <1>3
<1>17. Len(S) = Len(A) + Len(B) /\ (\A k \in 1 .. Len(A) : S[k] = A[k]) /\ \A k \in 1 .. Len(B) : S[Len(A) + k] = B[k]
  BY <1>7, Joined
<1>18. Len(T) = Len(S) + Len(C) /\ (\A k \in 1 .. Len(S) : T[k] = S[k]) /\ \A k \in 1 .. Len(C) : T[Len(S) + k] = C[k]
  BY <1>8, Joined
<1>19. Len(U) = Len(T) + Len(D) /\ (\A k \in 1 .. Len(T) : U[k] = T[k]) /\ \A k \in 1 .. Len(D) : U[Len(T) + k] = D[k]
  BY <1>9, Joined
<1>20. Len(V) = Len(U) + Len(E) /\ (\A k \in 1 .. Len(U) : V[k] = U[k]) /\ \A k \in 1 .. Len(E) : V[Len(U) + k] = E[k]
  BY <1>10, Joined
<1>21. ASSUME NEW k \in 1 .. Len(S) PROVE V[k] = S[k]
  BY <1>18, <1>19, <1>20
<1>22. ASSUME NEW k \in 1 .. Len(T) PROVE V[k] = T[k]
  BY <1>18, <1>19, <1>20
<1>23. Len(A) \in Nat /\ Len(B) \in Nat /\ Len(S) \in Nat /\ Len(T) \in Nat /\ Len(U) \in Nat
  OBVIOUS
<1>24. V[1] = "head" /\ V[2] = "comma"
  BY SMTT(30), <1>12, <1>13, <1>17, <1>21, <1>23
<1>25. "size" \in cache.files => V[3] = "blank" /\ V[4] = "size"
  BY <1>12, <1>13, <1>17, <1>21, <1>23
<1>26. "ways" \in cache.files => V[Len(S) + 1] = "comma" /\ V[Len(S) + 2] = "blank" /\ V[Len(S) + 3] = "ways"
  BY SMTT(30), <1>14, <1>18, <1>22, <1>23
<1>27. "line" \in cache.files => V[Len(T) + 1] = "comma" /\ V[Len(T) + 2] = "blank" /\ V[Len(T) + 3] = "line"
  BY <1>15, <1>19, <1>20, <1>23
<1>28. V[Len(U) + 1] = "comma" /\ V[Len(U) + 2] = "blank" /\ V[Len(U) + 3] = "cpus"
  BY <1>16, <1>20, <1>23
<1>29. Len(S) = IF "size" \in cache.files THEN 4 ELSE 2
  BY <1>12, <1>13, <1>17
<1>30. Len(T) = IF "ways" \in cache.files THEN Len(S) + 3 ELSE Len(S)
  BY <1>14, <1>18, <1>23
<1>31. Len(U) = IF "line" \in cache.files THEN Len(T) + 3 ELSE Len(T)
  BY <1>15, <1>19, <1>23
<1>32. Len(V) = Len(U) + 3
  BY <1>16, <1>20
<1>33. WordsAt(V, Len(S), Len(T), Len(U), "size" \in cache.files, "ways" \in cache.files, "line" \in cache.files)
  BY <1>24, <1>25, <1>26, <1>27, <1>28, <1>32 DEF WordsAt
<1>34. IsInfo(V, W, "size" \in cache.files, "ways" \in cache.files, "line" \in cache.files)
  BY <1>10, <1>29, <1>30, <1>31, <1>33 DEF IsInfo
<1> QED BY <1>11, <1>34

LEMMA CommaBehind ==
  ASSUME NEW W, NEW text \in Seq(W), NEW beg \in Nat \ {0}, beg + 1 <= Len(text),
         text[beg] # "comma", text[beg + 1] = "comma"
  PROVE  AfterComma(text, beg) = beg + 3
<1>1. \A q \in beg .. (beg + 3) - 3 : q = beg
  OBVIOUS
<1>2. (beg + 3) - 2 \in beg .. Len(text) /\ (beg + 3) - 2 = beg + 1 /\ beg + 3 \in Int
  OBVIOUS
<1> QED BY <1>1, <1>2, NextComma

LEMMA CommaBehindWord ==
  ASSUME NEW W, NEW text \in Seq(W), NEW beg \in Nat \ {0}, beg + 2 <= Len(text),
         text[beg] # "comma", text[beg + 1] # "comma", text[beg + 2] = "comma"
  PROVE  AfterComma(text, beg) = beg + 4
<1>1. \A q \in beg .. (beg + 4) - 3 : q = beg \/ q = beg + 1
  OBVIOUS
<1>2. (beg + 4) - 2 \in beg .. Len(text) /\ (beg + 4) - 2 = beg + 2 /\ beg + 4 \in Int
  OBVIOUS
<1> QED BY <1>1, <1>2, NextComma

LEMMA FullInfo ==
  ASSUME NEW text, NEW W, IsInfo(text, W, TRUE, TRUE, TRUE)
  PROVE  /\ Reads(text, 1, "size") /\ Reads(text, 3, "line") /\ Reads(text, 4, "cpus")
         /\ Field(text, 2) # 0 /\ Field(text, 4) # 0
<1>1. /\ text \in Seq(W) /\ Len(text) = 13
      /\ text[1] = "head" /\ text[2] = "comma" /\ text[3] = "blank" /\ text[4] = "size"
      /\ text[5] = "comma" /\ text[6] = "blank" /\ text[7] = "ways"
      /\ text[8] = "comma" /\ text[9] = "blank" /\ text[10] = "line"
      /\ text[11] = "comma" /\ text[12] = "blank" /\ text[13] = "cpus"
  BY DEF IsInfo, WordsAt
<1>2. AfterComma(text, 1) = 4
  BY SMTT(30), <1>1, CommaBehind
<1>3. AfterComma(text, 4) = 7
  BY SMTT(30), <1>1, CommaBehind
<1>4. AfterComma(text, 7) = 10
  BY <1>1, CommaBehind
<1>5. AfterComma(text, 10) = 13
  BY SMTT(30), <1>1, CommaBehind
<1>6. Field(text, 1) = 4 /\ Field(text, 2) = 7 /\ Field(text, 3) = 10 /\ Field(text, 4) = 13
  BY <1>1, <1>2, <1>3, <1>4, <1>5, Fields
<1> QED BY <1>1, <1>6 DEF Reads

LEMMA NoCommaBehind ==
  ASSUME NEW W, NEW text \in Seq(W), NEW beg \in Nat, beg = Len(text) \/ beg + 1 = Len(text) \/ beg = 0,
         beg > 0 => text[beg] # "comma" /\ text[Len(text)] # "comma"
  PROVE  AfterComma(text, beg) = 0
<1>1. CASE beg = 0
  BY <1>1 DEF AfterComma
<1>2. CASE beg > 0
  <2>1. \A q \in beg .. Len(text) : q = beg \/ q = Len(text)
    BY <1>2
  <2> QED BY <1>2, <2>1, NoComma
<1> QED BY <1>1, <1>2

LEMMA PartialInfo ==
  ASSUME NEW text, NEW W, NEW size \in BOOLEAN, NEW ways \in BOOLEAN, NEW line \in BOOLEAN,
         IsInfo(text, W, size, ways, line), ~(size /\ ways /\ line)
  PROVE  Field(text, 4) = 0
<1>0. text \in Seq(W)
  BY DEF IsInfo, WordsAt
<1> DEFINE After(beg) == AfterComma(text, beg)
<1>1. CASE size /\ (ways \/ line)
  <2>1. /\ Len(text) = 10
        /\ text[1] = "head" /\ text[2] = "comma" /\ text[3] = "blank" /\ text[4] = "size"
        /\ text[5] = "comma" /\ text[6] = "blank" /\ text[7] \in {"ways", "line"}
        /\ text[8] = "comma" /\ text[9] = "blank" /\ text[10] = "cpus"
    BY <1>1 DEF IsInfo, WordsAt
  <2>2. After(1) = 4
    BY <1>0, <2>1, CommaBehind
  <2>3. After(4) = 7
    BY <1>0, <2>1, CommaBehind
  <2>4. After(7) = 10
    BY <1>0, <2>1, CommaBehind
  <2>5. After(10) = 0
    BY <1>0, <2>1, NoCommaBehind
  <2> QED BY <1>0, <2>2, <2>3, <2>4, <2>5, Fields
<1>2. CASE size /\ ~ways /\ ~line
  <2>1. /\ Len(text) = 7
        /\ text[1] = "head" /\ text[2] = "comma" /\ text[3] = "blank" /\ text[4] = "size"
        /\ text[5] = "comma" /\ text[6] = "blank" /\ text[7] = "cpus"
    BY <1>2 DEF IsInfo, WordsAt
  <2>2. After(1) = 4
    BY <1>0, <2>1, CommaBehind
  <2>3. After(4) = 7
    BY <1>0, <2>1, CommaBehind
  <2>4. After(7) = 0
    BY <1>0, <2>1, NoCommaBehind
  <2>5. After(0) = 0
    BY <1>0, NoCommaBehind
  <2> QED BY <1>0, <2>2, <2>3, <2>4, <2>5, Fields
<1>3. CASE ~size /\ ways /\ line
  <2>1. /\ Len(text) = 11
        /\ text[1] = "head" /\ text[2] = "comma" /\ text[3] = "comma" /\ text[4] = "blank"
        /\ text[5] = "ways" /\ text[6] = "comma" /\ text[7] = "blank" /\ text[8] = "line"
        /\ text[9] = "comma" /\ text[10] = "blank" /\ text[11] = "cpus"
    BY <1>3 DEF IsInfo, WordsAt
  <2>2. After(1) = 4
    BY <1>0, <2>1, CommaBehind
  <2>3. After(4) = 8
    BY <1>0, <2>1, CommaBehindWord
  <2>4. After(8) = 11
    BY <1>0, <2>1, CommaBehind
  <2>5. After(11) = 0
    BY <1>0, <2>1, NoCommaBehind
  <2> QED BY <1>0, <2>2, <2>3, <2>4, <2>5, Fields
<1>4. CASE ~size /\ ways # line
  <2>1. /\ Len(text) = 8
        /\ text[1] = "head" /\ text[2] = "comma" /\ text[3] = "comma" /\ text[4] = "blank"
        /\ text[5] \in {"ways", "line"} /\ text[6] = "comma" /\ text[7] = "blank" /\ text[8] = "cpus"
    BY <1>4 DEF IsInfo, WordsAt
  <2>2. After(1) = 4
    BY <1>0, <2>1, CommaBehind
  <2>3. After(4) = 8
    BY <1>0, <2>1, CommaBehindWord
  <2>4. After(8) = 0
    BY <1>0, <2>1, NoCommaBehind
  <2>5. After(0) = 0
    BY <1>0, NoCommaBehind
  <2> QED BY <1>0, <2>2, <2>3, <2>4, <2>5, Fields
<1>5. CASE ~size /\ ~ways /\ ~line
  <2>1. /\ Len(text) = 5
        /\ text[1] = "head" /\ text[2] = "comma" /\ text[3] = "comma" /\ text[4] = "blank"
        /\ text[5] = "cpus"
    BY <1>5 DEF IsInfo, WordsAt
  <2>2. After(1) = 4
    BY <1>0, <2>1, CommaBehind
  <2>3. After(4) = 0
    <3>1. \A q \in 4 .. Len(text) : text[q] # "comma"
      BY <2>1
    <3> QED BY <1>0, <3>1, NoComma
  <2>4. After(0) = 0
    BY <1>0, NoCommaBehind
  <2> QED BY <1>0, <2>2, <2>3, <2>4, Fields
<1> QED BY <1>1, <1>2, <1>3, <1>4, <1>5

\* A data cache is read only if sysfs has all of its files, and then as it is.
LEMMA ReadsAll ==
  ASSUME NEW cache \in Caches
  PROVE  /\ cache.files = Files => /\ ~Crashes(cache)
                                   /\ Reads(cache_info(cache), 1, "size") 
                                   /\ Reads(cache_info(cache), 3, "line")
                                   /\ Reads(cache_info(cache), 4, "cpus")
         /\ cache.files # Files /\ HoldsData(cache) => Crashes(cache)
<1>1. PICK W : IsInfo(cache_info(cache), W, "size" \in cache.files, "ways" \in cache.files, "line" \in cache.files)
  BY InfoShape
<1>2. cache.files \subseteq Files
  BY DEF Caches
<1>3. CASE cache.files = Files
  <2>1. IsInfo(cache_info(cache), W, TRUE, TRUE, TRUE)
    BY <1>1, <1>3 DEF Files, IsInfo
  <2> QED BY <1>3, <2>1, FullInfo DEF Crashes
<1>4. CASE cache.files # Files
  <2>1. ~("size" \in cache.files /\ "ways" \in cache.files /\ "line" \in cache.files)
    BY <1>2, <1>4 DEF Files
  <2>2. Field(cache_info(cache), 4) = 0
    <3>1. PICK size \in BOOLEAN, ways \in BOOLEAN, line \in BOOLEAN :
            /\ size <=> "size" \in cache.files
            /\ ways <=> "ways" \in cache.files
            /\ line <=> "line" \in cache.files
      BY Zenon
    <3>2. IsInfo(cache_info(cache), W, size, ways, line) /\ ~(size /\ ways /\ line)
      BY <1>1, <2>1, <3>1 DEF IsInfo, WordsAt
    <3> QED BY <3>2, PartialInfo
  <2> QED BY <1>4, <2>2 DEF Crashes
<1> QED BY <1>3, <1>4
----------------------------------------------------------------------------
(***************************************************************************)
(* The caches as they are found.                                           *)
(***************************************************************************)
Infos ==
  [vendor : Vendors, Cachelevels : 0 .. 4, size : [Levels -> Nat], Cache_shared : [Levels -> Nat],
   Cacheline_size : [Levels -> Nat], Cacheflushsize : Nat, Total_D_Cache_Size : Nat,
   D_Cache_Size_per_Core : Nat]

\* The data caches that have been read.
Seen == {k \in 1 .. index : HoldsData(machine.caches[k])}

AsRead(k) ==
  LET c == machine.caches[k]
      l == c.level
  IN /\ cpuinfo.Cachelevels >= l
     /\ cpuinfo.size[l] = SizeOf(c)
     /\ cpuinfo.Cacheline_size[l] = c.line
     /\ cpuinfo.Cache_shared[l] \in 1 .. TEXTROOM
     /\ cpuinfo.Cache_shared[l] = c.cpus \/ c.cpus > TEXTROOM

NotSeen(l) ==
  (\A k \in Seen : machine.caches[k].level # l) =>
    cpuinfo.size[l] = 0 /\ cpuinfo.Cacheline_size[l] = 0 /\ cpuinfo.Cache_shared[l] = 0

Types == machine \in MACHINES /\ index \in 0 .. Len(machine.caches) /\ cpuinfo \in Infos
           /\ cpuinfo.vendor = machine.vendor

Found ==
  /\ \A k \in Seen : AsRead(k)
  /\ \A l \in Levels : NotSeen(l)

\* Until the settings are read.
Detected == {"detect", "settings", "replace"}

FoundInv ==
  /\ Types
  /\ pc \in {"caches"} \cup Detected => Found
  /\ pc \in Detected => index = Len(machine.caches)
  /\ pc = "crash" => \E c \in Range(machine.caches) : ~Described(c) \/ c.cpus > LISTROOM

LEMMA MachineType ==
  ASSUME NEW m \in MACHINES
  PROVE  /\ m.vendor \in Vendors /\ m.caches \in Seq(Caches) /\ Len(m.caches) \in Nat
         /\ \A k \in 1 .. Len(m.caches) : m.caches[k] \in Caches /\ m.caches[k] \in Range(m.caches)
         /\ \A c \in Range(m.caches) : c \in Caches
         /\ \A j, k \in 1 .. Len(m.caches) :
              (/\ HoldsData(m.caches[j]) /\ HoldsData(m.caches[k])
               /\ m.caches[j].level = m.caches[k].level) => j = k
<1>1. m.vendor \in Vendors /\ m.caches \in Seq(Caches)
  BY DetectionAssumption
<1>2. \A k \in 1 .. Len(m.caches) : m.caches[k] \in Caches /\ m.caches[k] \in Range(m.caches)
  BY <1>1 DEF Range
<1>3. \A c \in Range(m.caches) : c \in Caches
  BY <1>1 DEF Range
<1>4. DOMAIN m.caches = 1 .. Len(m.caches) /\ Len(m.caches) \in Nat
  BY <1>1
<1> QED BY <1>1, <1>2, <1>3, <1>4, DetectionAssumption

LEMMA FoundInitially == ASSUME InitDetection PROVE FoundInv
<1>1. machine.vendor \in Vendors /\ Len(machine.caches) \in Nat
  BY MachineType DEF InitDetection
<1>2. cpuinfo \in Infos /\ cpuinfo.vendor = machine.vendor
  BY <1>1 DEF InitDetection, NoInfo, Infos, Levels
<1>3. Types
  BY <1>1, <1>2 DEF InitDetection, Types
<1>4. Seen = {} /\ \A l \in Levels : NotSeen(l)
  BY DEF InitDetection, NoInfo, Seen, NotSeen
<1> QED BY <1>3, <1>4 DEF InitDetection, FoundInv, Found, Detected

\* What is known of a cache that has been described is stored as it is.
LEMMA ReadDataCache ==
  ASSUME NEW cache, cache = machine.caches[index + 1],
         Types, index < Len(machine.caches), HoldsData(cache), ~Crashes(cache)
  PROVE  /\ cache \in Caches
         /\ cache_size(index) \in Nat
         /\ cache_size(index) = SizeOf(cache)
         /\ cacheline_length(cache) = cache.line
         /\ \A n \in cache_shared(cache) : n \in 1 .. TEXTROOM /\ (n = cache.cpus \/ cache.cpus > TEXTROOM)
<1>1. index + 1 \in 1 .. Len(machine.caches) /\ cache \in Caches
  BY MachineType DEF Types
<1>2. /\ Reads(cache_info(cache), 1, "size") /\ Reads(cache_info(cache), 3, "line")
      /\ Reads(cache_info(cache), 4, "cpus")
  BY <1>1, ReadsAll
<1>3. cache.size \in Nat \ {0} /\ cache.cpus \in Nat \ {0}
  BY <1>1 DEF Caches
<1>4. cache_size(index) = IF machine.vendor = "0x70" /\ index = 2 THEN L2_FT2000 ELSE cache.size
  BY <1>2 DEF cache_size
<1>5. L2_FT2000 \in Nat \ {0} /\ TEXTROOM \in Nat \ {0} /\ LISTROOM \in Nat \ {0} /\ TEXTROOM <= LISTROOM
  BY DetectionAssumption
<1>6. cache_size(index) \in Nat /\ cache_size(index) = SizeOf(cache)
  <2>1. Len(machine.caches) \in Nat /\ index \in Nat
    BY MachineType DEF Types
  <2>2. FixedSize(cache.level) <=> machine.vendor = "0x70" /\ index + 1 = 3
    <3>1. CASE Len(machine.caches) > 2
      <4>1. 3 \in 1 .. Len(machine.caches)
        BY <2>1, <3>1
      <4>2. HoldsData(machine.caches[3]) /\ machine.caches[3].level = cache.level <=> index + 1 = 3
        BY <1>1, <4>1, MachineType DEF Types
      <4> QED BY <3>1, <4>2 DEF FixedSize
    <3>2. CASE ~(Len(machine.caches) > 2)
      BY <1>1, <2>1, <3>2 DEF FixedSize
    <3> QED BY <3>1, <3>2
  <2> QED BY <1>1, <1>3, <1>4, <1>5, <2>1, <2>2 DEF SizeOf
<1>7. cacheline_length(cache) = cache.line
  BY <1>2 DEF cacheline_length
<1>8. Min({cache.cpus, TEXTROOM}) = IF cache.cpus < TEXTROOM THEN cache.cpus ELSE TEXTROOM
  BY <1>3, <1>5, MinOfTwo
<1>9. \A n \in cache_shared(cache) : n \in 1 .. TEXTROOM /\ (n = cache.cpus \/ cache.cpus > TEXTROOM)
  BY <1>2, <1>3, <1>5, <1>8 DEF cache_shared
<1> QED BY <1>1, <1>6, <1>7, <1>9

LEMMA SeenType ==
  ASSUME Types, NEW k \in Seen
  PROVE  /\ k \in 1 .. Len(machine.caches) /\ machine.caches[k] \in Caches
         /\ machine.caches[k].level \in Levels /\ HoldsData(machine.caches[k])
<1>1. Len(machine.caches) \in Nat /\ index \in 0 .. Len(machine.caches)
  BY MachineType DEF Types
<1>2. k \in 1 .. Len(machine.caches) /\ HoldsData(machine.caches[k])
  BY <1>1 DEF Seen
<1>3. machine.caches[k] \in Caches
  BY <1>2, MachineType DEF Types
<1> QED BY <1>2, <1>3 DEF Caches

LEMMA ReadKeeps == ASSUME FoundInv, ReadCache PROVE FoundInv'
<1>0. Types /\ Found /\ Len(machine.caches) \in Nat /\ index < Len(machine.caches)
  BY MachineType DEF FoundInv, ReadCache, Types
<1> PICK c : c = machine.caches[index + 1]
  OBVIOUS
<1> PICK n \in Nat : n = index
  BY <1>0 DEF Types
<1>1. /\ Types /\ Found /\ n + 1 \in 1 .. Len(machine.caches) /\ c \in Caches
      /\ c.level \in 1 .. 4 /\ Len(machine.caches) \in Nat
      /\ pc' = "caches" /\ machine' = machine /\ index' = n + 1
  <2>1. n + 1 \in 1 .. Len(machine.caches)
    BY <1>0
  <2>2. c \in Caches
    BY <1>0, <2>1, MachineType DEF Types
  <2> QED BY <1>0, <2>1, <2>2 DEF ReadCache, Caches, Levels
<1>2. cpuinfo \in Infos /\ cpuinfo.vendor = machine.vendor /\ cpuinfo.Cachelevels \in 0 .. 4
  BY <1>1 DEF Types, Infos
<1>3. /\ Max({cpuinfo.Cachelevels, c.level}) \in 0 .. 4
      /\ Max({cpuinfo.Cachelevels, c.level}) >= cpuinfo.Cachelevels
      /\ Max({cpuinfo.Cachelevels, c.level}) >= c.level
  BY <1>1, <1>2, MaxOfTwo
<1>4. CASE HoldsData(c)
  <2>1. PICK shared \in cache_shared(c) :
          cpuinfo' = [cpuinfo EXCEPT !.Cachelevels = Max({@, c.level}), !.size[c.level] = cache_size(index),
                        !.Cache_shared[c.level] = shared, !.Cacheline_size[c.level] = cacheline_length(c)]
    BY <1>4 DEF ReadCache
  <2>2. PICK size \in Nat, line \in Nat, levels \in 0 .. 4 :
          /\ size = cache_size(index) /\ line = cacheline_length(c) /\ levels = Max({cpuinfo.Cachelevels, c.level})
          /\ size = SizeOf(c)
          /\ line = c.line
          /\ shared \in 1 .. TEXTROOM /\ (shared = c.cpus \/ c.cpus > TEXTROOM)
    <3>1. c.line \in Nat /\ ~Crashes(c) /\ index < Len(machine.caches)
      BY <1>1 DEF Caches, ReadCache
    <3>2. /\ cache_size(index) \in Nat
          /\ cache_size(index) = SizeOf(c)
          /\ cacheline_length(c) = c.line
          /\ shared \in 1 .. TEXTROOM /\ (shared = c.cpus \/ c.cpus > TEXTROOM)
      BY <1>1, <1>4, <2>1, <3>1, ReadDataCache
    <3> QED BY <1>3, <3>1, <3>2
  <2>3. /\ cpuinfo'.Cachelevels = levels
        /\ cpuinfo'.vendor = cpuinfo.vendor
        /\ \A l \in Levels :
             /\ cpuinfo'.size[l] = IF l = c.level THEN size ELSE cpuinfo.size[l]
             /\ cpuinfo'.Cacheline_size[l] = IF l = c.level THEN line ELSE cpuinfo.Cacheline_size[l]
             /\ cpuinfo'.Cache_shared[l] = IF l = c.level THEN shared ELSE cpuinfo.Cache_shared[l]
    BY <1>2, <2>1, <2>2 DEF Infos
  <2>4. cpuinfo' \in Infos
    <3>1. shared \in Nat
      BY <2>2
    <3>2. c.level \in Levels
      BY <1>1 DEF Levels
    <3> QED BY ZenonT(30), <1>2, <2>1, <2>2, <3>1, <3>2 DEF Infos
  <2>5. Types'
    BY <1>1, <1>2, <2>3, <2>4 DEF Types
  <2>6. Seen' = Seen \cup {n + 1}
    BY <1>1, <1>4 DEF Seen
  <2>7. ASSUME NEW k \in Seen' PROVE AsRead(k)'
    <3>1. CASE machine.caches[k].level = c.level
      <4>1. machine.caches[k] = c
        BY SMTT(30), <1>1, <1>4, <2>7, <3>1, MachineType DEF Seen, Types
      <4>2. cpuinfo'.Cachelevels >= c.level /\ SizeOf(c)' = SizeOf(c) /\ c.level \in Levels
        BY <1>1, <1>3, <2>2, <2>3 DEF SizeOf, FixedSize, Levels
      <4>3. /\ cpuinfo'.size[c.level] = size /\ cpuinfo'.Cacheline_size[c.level] = line
            /\ cpuinfo'.Cache_shared[c.level] = shared
        BY <2>3, <4>2
      <4>4. machine.caches[k]' = c
        BY <1>1, <4>1
      <4> QED BY <2>2, <4>2, <4>3, <4>4 DEF AsRead
    <3>2. CASE machine.caches[k].level # c.level
      <4>1. k \in Seen /\ AsRead(k)
        BY <1>1, <2>6, <3>2 DEF Found
      <4>2. machine.caches[k].level \in Levels
        BY <1>1, <4>1, SeenType
      <4>3. cpuinfo'.Cachelevels >= machine.caches[k].level
        BY <1>2, <1>3, <2>2, <2>3, <4>1, <4>2 DEF AsRead, Levels
      <4> QED BY <1>1, <2>3, <3>2, <4>1, <4>2, <4>3 DEF AsRead, SizeOf, FixedSize
    <3> QED BY <3>1, <3>2
  <2>8. ASSUME NEW l \in Levels PROVE NotSeen(l)'
    BY <1>1, <2>3, <2>6 DEF Found, NotSeen
  <2> QED BY <1>1, <2>5, <2>7, <2>8 DEF FoundInv, Found, Detected
<1>5. CASE ~HoldsData(c)
  <2>1. cpuinfo' = [cpuinfo EXCEPT !.Cachelevels = Max({@, c.level})]
    BY <1>5 DEF ReadCache
  <2>2. PICK levels \in 0 .. 4 : levels = Max({cpuinfo.Cachelevels, c.level})
    BY <1>3
  <2>3. /\ cpuinfo' \in Infos /\ cpuinfo'.vendor = cpuinfo.vendor /\ cpuinfo'.Cachelevels = levels
        /\ cpuinfo'.size = cpuinfo.size /\ cpuinfo'.Cacheline_size = cpuinfo.Cacheline_size
        /\ cpuinfo'.Cache_shared = cpuinfo.Cache_shared
    BY <1>2, <2>1, <2>2 DEF Infos
  <2>4. Seen' = Seen
    BY <1>1, <1>5 DEF Seen
  <2>5. ASSUME NEW k \in Seen' PROVE AsRead(k)'
    <3>1. k \in Seen /\ AsRead(k)
      BY <1>1, <2>4 DEF Found
    <3>2. machine.caches[k].level \in Levels
      BY <1>1, <3>1, SeenType
    <3>3. cpuinfo'.Cachelevels >= machine.caches[k].level
      BY <1>2, <1>3, <2>2, <2>3, <3>1, <3>2 DEF AsRead, Levels
    <3> QED BY <1>1, <2>3, <3>1, <3>2, <3>3 DEF AsRead, SizeOf, FixedSize
  <2>6. ASSUME NEW l \in Levels PROVE NotSeen(l)'
    BY <1>1, <2>3, <2>4 DEF Found, NotSeen
  <2> QED BY <1>1, <1>2, <2>3, <2>5, <2>6 DEF FoundInv, Found, Detected, Types
<1> QED BY <1>4, <1>5

----------------------------------------------------------------------------
(***************************************************************************)
(* Sums, quotients and maxima.                                             *)
(***************************************************************************)
LEMMA SumIs ==
  ASSUME NEW size \in [Levels -> Int], NEW levels
  PROVE  SumOver(size, levels) =
           (IF 1 \in levels THEN size[1] ELSE 0) + (IF 2 \in levels THEN size[2] ELSE 0)
           + (IF 3 \in levels THEN size[3] ELSE 0) + (IF 4 \in levels THEN size[4] ELSE 0)
<1> DEFINE At(i)   == IF i \in levels THEN size[i] ELSE 0
           Body(f) == [i \in 0 .. 4 |-> IF i = 0 THEN 0 ELSE f[i - 1] + At(i)]
           sum     == CHOOSE f : f = Body(f)
<1>1. SumOver(size, levels) = sum[4]
  BY DEF SumOver
<1>2. \A i \in 1 .. 4 : At(i) \in Int
  BY DEF Levels
<1> HIDE DEF At
<1>3. PICK f : f = Body(f)
  <2> DEFINE g == [i \in 0 .. 4 |-> IF i = 0 THEN 0 ELSE IF i = 1 THEN At(1) ELSE IF i = 2 THEN At(1) + At(2)
                                    ELSE IF i = 3 THEN At(1) + At(2) + At(3) ELSE At(1) + At(2) + At(3) + At(4)]
  <2>1. ASSUME NEW i \in 0 .. 4 PROVE g[i] = Body(g)[i]
    <3>1. i = 0 \/ i = 1 \/ i = 2 \/ i = 3 \/ i = 4
      BY <2>1
    <3> QED BY <1>2, <3>1
  <2>2. g = Body(g)
    BY <2>1
  <2> HIDE DEF g
  <2> QED BY <2>2
<1>4. sum = Body(sum)
  BY <1>3
<1> HIDE DEF sum
<1>5. ASSUME NEW i \in 0 .. 4 PROVE sum[i] = IF i = 0 THEN 0 ELSE sum[i - 1] + At(i)
  BY <1>4
<1> HIDE DEF Body
<1>6. sum[0] = 0 /\ sum[1] = sum[0] + At(1) /\ sum[2] = sum[1] + At(2) /\ sum[3] = sum[2] + At(3)
      /\ sum[4] = sum[3] + At(4)
  BY <1>5
<1>7. sum[4] = At(1) + At(2) + At(3) + At(4)
  BY <1>2, <1>6
<1> QED BY <1>1, <1>7 DEF At

LEMMA SumNat ==
  ASSUME NEW size \in [Levels -> Nat], NEW levels
  PROVE  SumOver(size, levels) \in Nat
<1>1. size \in [Levels -> Int] /\ size[1] \in Nat /\ size[2] \in Nat /\ size[3] \in Nat /\ size[4] \in Nat
  BY DEF Levels
<1> QED BY <1>1, SumIs

\* A set of numbers that is bounded has a largest element.
LEMMA MaxBelow ==
  ASSUME NEW S \in SUBSET Nat, S # {}, NEW n \in Nat, \A q \in S : q <= n
  PROVE  Max(S) \in S /\ \A q \in S : Max(S) >= q
<1> DEFINE T == {n - q : q \in S}
<1>1. T \in SUBSET Nat /\ T # {}
  <2>1. \A q \in S : n - q \in Nat
    OBVIOUS
  <2> QED BY <2>1
<1> HIDE DEF T
<1>2. PICK m \in T : \A t \in T : m <= t
  BY <1>1, LeastNumber
<1>3. PICK p \in S : m = n - p
  BY DEF T
<1>4. \A q \in S : n - q \in T
  BY DEF T
<1>5. \A q \in S : p >= q
  BY <1>2, <1>3, <1>4
<1> QED BY <1>5, MaxIs

\* The largest value of a function on some levels.
LEMMA MaxOver ==
  ASSUME NEW levels \in SUBSET Levels, NEW value, \A i \in levels : value[i] \in Nat
  PROVE  LET m == Max({0} \cup {value[i] : i \in levels})
         IN  /\ m \in Nat /\ (m = 0 \/ \E i \in levels : m = value[i])
             /\ \A i \in levels : m >= value[i]
<1> DEFINE v(i) == IF i \in levels THEN value[i] ELSE 0
           n    == v(1) + v(2) + v(3) + v(4)
           S    == {0} \cup {value[i] : i \in levels}
<1>1. v(1) \in Nat /\ v(2) \in Nat /\ v(3) \in Nat /\ v(4) \in Nat
  BY DEF Levels
<1>2. S \in SUBSET Nat /\ S # {} /\ n \in Nat
  BY <1>1
<1>3. ASSUME NEW i \in levels PROVE value[i] <= n
  <2>1. value[i] = v(i)
    BY <1>3
  <2>2. i = 1 \/ i = 2 \/ i = 3 \/ i = 4
    BY <1>3 DEF Levels
  <2> HIDE DEF v
  <2> QED BY <1>1, <2>1, <2>2
<1>4. \A q \in S : q <= n
  BY <1>2, <1>3
<1> HIDE DEF n
<1>5. Max(S) \in S /\ \A q \in S : Max(S) >= q
  BY <1>2, <1>4, MaxBelow
<1> QED BY <1>2, <1>5

LEMMA MaxLevel ==
  ASSUME NEW S \in SUBSET (0 .. 4), S # {}
  PROVE  Max(S) \in S /\ \A q \in S : Max(S) >= q
BY MaxBelow

\* A percentage grows with what it is taken of.
LEMMA Percent ==
  ASSUME NEW a \in Nat, NEW b \in Nat, a <= b, NEW e \in Nat
  PROVE  /\ (a * e) \div 100 <= (b * e) \div 100 /\ (a * e) \div 100 \in Nat
         /\ (a * e) \div 100 <= (2 * (b * e)) \div 100
<1>1. a * e \in Nat /\ b * e \in Nat /\ a * e <= b * e
  OBVIOUS
<1> QED BY <1>1

LEMMA CrashKeeps == ASSUME FoundInv, CrashAtCache PROVE FoundInv'
<1> PICK c : c = machine.caches[index + 1]
  OBVIOUS
<1>1. Types /\ index < Len(machine.caches) /\ (Crashes(c) \/ c.cpus > LISTROOM)
  BY DEF FoundInv, CrashAtCache
<1>2. index + 1 \in 1 .. Len(machine.caches)
  BY <1>1, MachineType DEF Types
<1>3. c \in Caches /\ c \in Range(machine.caches)
  BY <1>1, <1>2, MachineType DEF Types
<1>4. ~Described(c) \/ c.cpus > LISTROOM
  BY <1>1, <1>3, ReadsAll DEF Described
<1> QED BY <1>1, <1>3, <1>4 DEF FoundInv, CrashAtCache, Types, Detected, Described

LEMMA AllReadKeeps == ASSUME FoundInv, CachesRead PROVE FoundInv'
<1>1. Found'
  BY DEF FoundInv, CachesRead, Found, Seen, AsRead, NotSeen, SizeOf, FixedSize
<1> QED BY <1>1 DEF FoundInv, CachesRead, Types, Detected

\* What is stored when all caches are read.
LEMMA DetectedCaches ==
  ASSUME FoundInv, pc \in Detected, NEW l \in Levels
  PROVE  /\ DataCaches(machine, l) = {} => cpuinfo.size[l] = 0 /\ cpuinfo.Cacheline_size[l] = 0
         /\ \A c \in DataCaches(machine, l) :
              /\ c \in Caches /\ cpuinfo.Cachelevels >= l
              /\ cpuinfo.size[l] = SizeOf(c) /\ cpuinfo.Cacheline_size[l] = c.line
              /\ cpuinfo.Cache_shared[l] \in 1 .. TEXTROOM
              /\ cpuinfo.Cache_shared[l] = c.cpus \/ c.cpus > TEXTROOM
<1>1. Types /\ Found /\ index = Len(machine.caches) /\ Len(machine.caches) \in Nat
  BY MachineType DEF FoundInv, Types
<1>2. \A c \in DataCaches(machine, l) : \E k \in Seen : c = machine.caches[k] /\ c.level = l
  <2>1. machine.caches \in Seq(Caches)
    BY <1>1, MachineType DEF Types
  <2> QED BY <1>1, <2>1 DEF DataCaches, Range, Seen
<1>3. ASSUME NEW k \in Seen, machine.caches[k].level = l PROVE machine.caches[k] \in DataCaches(machine, l)
  BY <1>1, <1>3, SeenType, MachineType DEF DataCaches, Types
<1>4. CASE DataCaches(machine, l) = {}
  BY <1>1, <1>3, <1>4 DEF Found, NotSeen
<1>5. ASSUME NEW c \in DataCaches(machine, l)
      PROVE  /\ c \in Caches /\ cpuinfo.Cachelevels >= l
             /\ cpuinfo.size[l] = SizeOf(c) /\ cpuinfo.Cacheline_size[l] = c.line
             /\ cpuinfo.Cache_shared[l] \in 1 .. TEXTROOM
             /\ cpuinfo.Cache_shared[l] = c.cpus \/ c.cpus > TEXTROOM
  <2>1. PICK k \in Seen : c = machine.caches[k] /\ c.level = l
    BY <1>2
  <2>2. AsRead(k) /\ c \in Caches
    BY <1>1, <2>1, SeenType DEF Found
  <2> QED BY <2>1, <2>2 DEF AsRead
<1> QED BY <1>4, <1>5

\* The whole of the program keeps what is known of the machine.
LEMMA CachesFound == FoundInv => CachesAsFound
<1> SUFFICES ASSUME FoundInv PROVE CachesAsFound
  OBVIOUS
<1>1. ASSUME pc = "detect", NEW l \in Levels
      PROVE  /\ DataCaches(machine, l) = {} => cpuinfo.size[l] = 0 /\ cpuinfo.Cacheline_size[l] = 0
             /\ \A c \in DataCaches(machine, l) :
                  /\ cpuinfo.Cachelevels >= l
                  /\ cpuinfo.size[l] = SizeOf(c)
                  /\ cpuinfo.Cacheline_size[l] = c.line
                  /\ cpuinfo.Cache_shared[l] = c.cpus \/ c.cpus > TEXTROOM
  <2>1. pc \in Detected
    BY <1>1 DEF Detected
  <2> QED BY <2>1, DetectedCaches
<1> QED BY <1>1 DEF CachesAsFound, FoundInv

----------------------------------------------------------------------------
(***************************************************************************)
(* Sizes and settings.                                                     *)
(***************************************************************************)
LEMMA InfoType ==
  ASSUME NEW info \in Infos
  PROVE  /\ info.size \in [Levels -> Nat] /\ info.Cache_shared \in [Levels -> Nat]
         /\ info.Cacheline_size \in [Levels -> Nat] /\ info.Cachelevels \in 0 .. 4
         /\ info.Cacheflushsize \in Nat /\ info.Total_D_Cache_Size \in Nat /\ info.D_Cache_Size_per_Core \in Nat
         /\ info.vendor \in Vendors
BY DEF Infos

LEMMA SumToNat ==
  ASSUME NEW size \in [Levels -> Nat], NEW n
  PROVE  SumTo(size, n) \in Nat
BY SumNat DEF SumTo

LEMMA UnchangedKeeps ==
  ASSUME FoundInv, cpuinfo' \in Infos, UNCHANGED <<machine, index>>, cpuinfo'.vendor = cpuinfo.vendor,
         pc \notin {"crash"}, pc' \notin {"caches", "crash"},
         pc' \in Detected =>
           /\ pc \in Detected
           /\ UNCHANGED <<cpuinfo.size, cpuinfo.Cachelevels, cpuinfo.Cacheline_size, cpuinfo.Cache_shared>>
  PROVE  FoundInv'
<1>1. Types'
  BY DEF FoundInv, Types
<1>2. ASSUME pc' \in Detected PROVE Found'
  BY <1>2 DEF FoundInv, Found, Seen, AsRead, NotSeen, SizeOf, FixedSize
<1>3. (pc \in {"caches"} \cup Detected => Found)'
  BY <1>2
<1>4. (pc \in Detected => index = Len(machine.caches))'
  BY DEF FoundInv
<1>5. (pc = "crash" => \E c \in Range(machine.caches) : ~Described(c) \/ c.cpus > LISTROOM)'
  OBVIOUS
<1> QED BY <1>1, <1>3, <1>4, <1>5 DEF FoundInv

LEMMA DetectCachesKeeps ==
  ASSUME FoundInv, DetectCaches
  PROVE  /\ FoundInv'
         /\ LET n == cpuinfo.Cachelevels
            IN  cpuinfo'.D_Cache_Size_per_Core =
                  ByVendor(SumTo(cpuinfo.size, n), IF n = 0 THEN 0 ELSE cpuinfo.size[n])
         /\ cpuinfo'.size = cpuinfo.size /\ cpuinfo'.Cacheline_size = cpuinfo.Cacheline_size
<1> DEFINE n == cpuinfo.Cachelevels
           all == [i \in Levels |-> IF cpuinfo.Cache_shared[i] = 0 THEN 0
                                    ELSE (CORES \div cpuinfo.Cache_shared[i]) * cpuinfo.size[i]]
           flush == ByVendor(SumTo(cpuinfo.size, n), SumTo(cpuinfo.size, n))
           total == ByVendor(SumTo(all, n), IF n = 0 THEN 0 ELSE all[n])
           core  == ByVendor(SumTo(cpuinfo.size, n), IF n = 0 THEN 0 ELSE cpuinfo.size[n])
<1>1. cpuinfo \in Infos
  BY DEF FoundInv, Types
<1>2. /\ cpuinfo.size \in [Levels -> Nat] /\ cpuinfo.Cache_shared \in [Levels -> Nat]
      /\ n \in 0 .. 4
  BY <1>1, InfoType
<1>3. all \in [Levels -> Nat]
  <2>1. ASSUME NEW i \in Levels, cpuinfo.Cache_shared[i] # 0
        PROVE  (CORES \div cpuinfo.Cache_shared[i]) * cpuinfo.size[i] \in Nat
    <3>1. CORES \in Nat /\ cpuinfo.Cache_shared[i] \in Nat \ {0} /\ cpuinfo.size[i] \in Nat
      BY <1>2, <2>1, BuffersAssumption
    <3>2. CORES \div cpuinfo.Cache_shared[i] \in Nat
      BY <3>1
    <3> QED BY <3>1, <3>2
  <2> QED BY <2>1
<1>4. cpuinfo' = [cpuinfo EXCEPT !.Cacheflushsize = flush, !.Total_D_Cache_Size = total,
                                 !.D_Cache_Size_per_Core = core]
      /\ pc' = "settings" /\ pc = "detect" /\ UNCHANGED <<machine, index>>
  BY DEF DetectCaches
<1>5. n = 0 \/ n \in Levels
  BY <1>2 DEF Levels
<1> HIDE DEF all
<1>6. SumTo(cpuinfo.size, n) \in Nat /\ SumTo(all, n) \in Nat
  BY <1>2, <1>3, SumToNat
<1> HIDE DEF n
<1>7. flush \in Nat /\ total \in Nat /\ core \in Nat
  BY <1>2, <1>3, <1>5, <1>6 DEF ByVendor
<1> HIDE DEF flush, total, core
<1>8. cpuinfo' \in Infos
  BY <1>1, <1>4, <1>7 DEF Infos
<1>9. UNCHANGED <<cpuinfo.size, cpuinfo.Cachelevels, cpuinfo.Cacheline_size, cpuinfo.Cache_shared>>
      /\ cpuinfo'.vendor = cpuinfo.vendor /\ cpuinfo'.D_Cache_Size_per_Core = core
  BY <1>1, <1>4 DEF Infos
<1>10. FoundInv'
  BY <1>4, <1>8, <1>9, UnchangedKeeps DEF Detected
<1> QED BY <1>9, <1>10 DEF core, n

\* What the assumption says of the ranges the settings come from.
LEMMA SettingRanges ==
  /\ EXTRAS \subseteq Nat /\ ACCESSES \subseteq Nat \ {0} /\ OFFSETS \subseteq Nat
  /\ \A m \in MEMSIZES : m \in Nat /\ m >= LINE
  /\ MODES \subseteq {"M", "E", "I", "R"}
  /\ SETTINGS \subseteq [Levels -> Nat \cup {NotSet}] /\ CACHELINES \subseteq (Nat \ {0}) \cup {NotSet}
BY SMT, BuffersAssumption

LEMMA EnvironmentType ==
  ASSUME env \in Environments
  PROVE  /\ env.extra \in Nat /\ env.accesses \in Nat \ {0} /\ env.MAX \in Nat /\ env.MAX >= LINE
         /\ env.OFFSET \in Nat /\ env.flush \in SUBSET Levels /\ env.kernel \in {"bandwidth", "latency"}
         /\ env.FLUSH_MODE \in {"M", "E", "I", "R"} /\ EXTRA_FLUSH_SIZE \in Nat /\ EXTRA_FLUSH_SIZE >= 100
<1>1. /\ env.extra \in EXTRAS /\ env.accesses \in ACCESSES /\ env.MAX \in MEMSIZES
      /\ env.OFFSET \in OFFSETS /\ env.flush \in SUBSET Levels /\ env.kernel \in {"bandwidth", "latency"}
      /\ env.FLUSH_MODE \in MODES
  BY DEF Environments
<1>2. env.extra \in Nat /\ env.accesses \in Nat \ {0} /\ env.OFFSET \in Nat
  BY Zenon, <1>1, SettingRanges
<1>3. env.MAX \in Nat /\ env.MAX >= LINE
  BY Zenon, <1>1, SettingRanges
<1>4. env.FLUSH_MODE \in {"M", "E", "I", "R"}
  BY Zenon, <1>1, SettingRanges
<1>5. EXTRA_FLUSH_SIZE \in Nat /\ EXTRA_FLUSH_SIZE >= 100
  BY SMT, <1>2 DEF EXTRA_FLUSH_SIZE
<1> QED BY <1>1, <1>2, <1>3, <1>4, <1>5

\* What the settings make of the detected caches.
SetLevels == {i \in Levels : env.L_SIZE[i] # NotSet}
NewSize   == [i \in Levels |-> IF i \in SetLevels THEN env.L_SIZE[i] ELSE cpuinfo.size[i]]
NewLine   == IF env.CACHELINE = NotSet THEN cpuinfo.Cacheline_size ELSE [i \in Levels |-> env.CACHELINE]

LEMMA SettingsType ==
  ASSUME env \in Environments, cpuinfo \in Infos
  PROVE  /\ SetLevels \in SUBSET Levels /\ NewSize \in [Levels -> Nat] /\ NewLine \in [Levels -> Nat]
         /\ \A i \in Levels : env.L_SIZE[i] \in Nat \cup {NotSet}
         /\ env.CACHELINE \in (Nat \ {0}) \cup {NotSet}
<1>1. env.L_SIZE \in SETTINGS /\ env.CACHELINE \in CACHELINES
  BY DEF Environments
<1>2. env.L_SIZE \in [Levels -> Nat \cup {NotSet}] /\ env.CACHELINE \in (Nat \ {0}) \cup {NotSet}
  BY Zenon, <1>1, SettingRanges
<1>3. cpuinfo.size \in [Levels -> Nat] /\ cpuinfo.Cacheline_size \in [Levels -> Nat]
  BY InfoType
<1> QED BY <1>2, <1>3 DEF SetLevels, NewSize, NewLine

LEMMA SettingsKeep ==
  ASSUME FoundInv, env \in Environments, Settings
  PROVE  /\ FoundInv'
         /\ cpuinfo'.size = NewSize /\ cpuinfo'.Cacheline_size = NewLine
         /\ cpuinfo'.D_Cache_Size_per_Core = cpuinfo.D_Cache_Size_per_Core
         /\ cpuinfo'.Cachelevels >= cpuinfo.Cachelevels
         /\ \A i \in SetLevels : i <= cpuinfo'.Cachelevels
         /\ pc' # "exit" => \A i \in env.flush : NewSize[i] # 0 => NewLine[i] # 0
<1> DEFINE more   == SumTo(NewSize, 4) - SumTo(cpuinfo.size, 4)
           flush  == (cpuinfo.Cacheflushsize + more) % WORD64
           levels == Max({cpuinfo.Cachelevels} \cup SetLevels)
<1>1. cpuinfo \in Infos
  BY DEF FoundInv, Types
<1>2. cpuinfo.size \in [Levels -> Nat] /\ cpuinfo.Cachelevels \in 0 .. 4 /\ cpuinfo.Cacheflushsize \in Nat
  BY <1>1, InfoType
<1>3. SetLevels \in SUBSET Levels /\ NewSize \in [Levels -> Nat] /\ NewLine \in [Levels -> Nat]
  BY <1>1, SettingsType
<1>4. /\ cpuinfo' = [cpuinfo EXCEPT !.size = NewSize, !.Cacheline_size = NewLine, !.Cacheflushsize = flush,
                                    !.Cachelevels = levels]
      /\ pc' = IF \E i \in env.flush : NewSize[i] # 0 /\ NewLine[i] = 0 THEN "exit" ELSE "allocate"
      /\ pc = "replace" /\ UNCHANGED <<machine, index>>
  BY DEF Settings, SetLevels, NewSize, NewLine
<1>5. flush \in Nat
  <2>1. SumTo(NewSize, 4) \in Nat /\ SumTo(cpuinfo.size, 4) \in Nat
    BY <1>2, <1>3, SumToNat
  <2>2. WORD64 \in Nat \ {0} /\ cpuinfo.Cacheflushsize + more \in Int
    BY <1>2, <2>1, BuffersAssumption
  <2> QED BY <2>2
<1>6. levels \in 0 .. 4 /\ levels >= cpuinfo.Cachelevels /\ \A i \in SetLevels : i <= levels
  <2> DEFINE S == {cpuinfo.Cachelevels} \cup SetLevels
  <2>1. S \in SUBSET (0 .. 4) /\ S # {}
    <3>1. SetLevels \subseteq 0 .. 4
      BY <1>3 DEF Levels
    <3> QED BY <1>2, <3>1
  <2>2. Max(S) \in S /\ \A q \in S : Max(S) >= q
    BY <2>1, MaxLevel
  <2> HIDE DEF S
  <2>3. \A q \in S : q \in 0 .. 4
    BY <2>1
  <2>4. cpuinfo.Cachelevels \in S /\ SetLevels \subseteq S
    BY DEF S
  <2>5. levels = Max(S)
    BY DEF S
  <2> HIDE DEF levels
  <2> QED BY <2>2, <2>3, <2>4, <2>5
<1> HIDE DEF flush, levels
<1>7. cpuinfo' \in Infos
  BY <1>1, <1>3, <1>4, <1>5, <1>6 DEF Infos
<1>8. /\ cpuinfo'.vendor = cpuinfo.vendor /\ cpuinfo'.size = NewSize /\ cpuinfo'.Cacheline_size = NewLine
      /\ cpuinfo'.D_Cache_Size_per_Core = cpuinfo.D_Cache_Size_per_Core /\ cpuinfo'.Cachelevels = levels
  BY <1>1, <1>4 DEF Infos
<1>9. pc' \in {"exit", "allocate"}
  BY <1>4
<1>10. FoundInv'
  BY <1>4, <1>7, <1>8, <1>9, UnchangedKeeps DEF Detected
<1> QED BY <1>4, <1>6, <1>8, <1>10

LEMMA AllocateKeeps ==
  ASSUME FoundInv, env \in Environments, Allocate
  PROVE  /\ FoundInv'
         /\ UNCHANGED <<cpuinfo.size, cpuinfo.Cachelevels, cpuinfo.Cacheline_size,
                        cpuinfo.D_Cache_Size_per_Core, cpuinfo.vendor>>
         /\ cpuinfo'.Cacheflushsize >= CACHEFLUSHSIZE
<1> DEFINE flush == Max({cpuinfo.Cacheflushsize, CACHEFLUSHSIZE})
<1>1. cpuinfo \in Infos
  BY DEF FoundInv, Types
<1>2. cpuinfo.size \in [Levels -> Nat] /\ cpuinfo.Cacheflushsize \in Nat
  BY <1>1, InfoType
<1>3. CACHEFLUSHSIZE \in Nat
  <2>1. EXTRA_FLUSH_SIZE \in Nat
    BY EnvironmentType
  <2>2. SumTo(cpuinfo.size, 4) \in Nat
    BY <1>2, SumToNat
  <2>3. SumTo(cpuinfo.size, 4) * EXTRA_FLUSH_SIZE \in Nat
    BY <2>1, <2>2
  <2> QED BY <2>3 DEF CACHEFLUSHSIZE
<1>4. flush \in Nat /\ flush >= CACHEFLUSHSIZE
  <2>1. flush = IF cpuinfo.Cacheflushsize < CACHEFLUSHSIZE THEN CACHEFLUSHSIZE ELSE cpuinfo.Cacheflushsize
    BY <1>2, <1>3, MaxOfTwo
  <2> HIDE DEF flush
  <2> QED BY <1>2, <1>3, <2>1
<1>5. cpuinfo' = [cpuinfo EXCEPT !.Cacheflushsize = flush] /\ pc = "allocate" /\ UNCHANGED <<machine, index>>
      /\ pc' \in {"ready", "exit"}
  BY DEF Allocate
<1> HIDE DEF flush
<1>6. cpuinfo' \in Infos /\ cpuinfo'.Cacheflushsize = flush
      /\ UNCHANGED <<cpuinfo.size, cpuinfo.Cachelevels, cpuinfo.Cacheline_size,
                     cpuinfo.D_Cache_Size_per_Core, cpuinfo.vendor>>
  BY <1>1, <1>4, <1>5 DEF Infos
<1>7. FoundInv'
  BY <1>5, <1>6, UnchangedKeeps DEF Detected
<1> QED BY <1>4, <1>6, <1>7

----------------------------------------------------------------------------
(***************************************************************************)
(* The whole program.  BufferInv says where the settings are read, that    *)
(* every level with a size counts, how large the flush area is at least,   *)
(* and that the last pass is what the sizes and settings make of it.       *)
(***************************************************************************)
LevelsCount == \A l \in Levels : cpuinfo.size[l] # 0 => l <= cpuinfo.Cachelevels

FlushPass ==
  /\ last.memsize \in Nat /\ last.levels = FlushedLevels(last.memsize)
  /\ last.covered = Max({0} \cup {FlushBytes(i) : i \in last.levels})
  /\ last.end = Max({0} \cup {FlushEnd(i) : i \in last.levels})

UseMemoryPass ==
  LET passes == ((cpuinfo.D_Cache_Size_per_Core * EXTRA_FLUSH_SIZE) \div 50) \div Stride
  IN  Stride # 0 /\ last.end = IF passes = 0 THEN WORD64 ELSE (passes - 1) * Stride + 8

BufferInv ==
  /\ FoundInv
  /\ pc \in {"replace", "allocate", "ready", "endless"} => env \in Environments
  /\ pc \in {"allocate", "ready", "endless"} => LevelsCount
  /\ pc \in {"ready", "endless"} => cpuinfo.Cacheflushsize >= CACHEFLUSHSIZE
  /\ pc \notin {"ready", "endless"} => last = NoPass
  /\ last.what \in {"none", "FLUSH", "FLUSH_ALL", "USE_MEMORY"}
  /\ last.what = "none" => last = NoPass
  /\ last.what \in {"FLUSH", "FLUSH_ALL"} => FlushPass
  /\ last.what = "USE_MEMORY" => UseMemoryPass

LEMMA DetectedLevelsCount == ASSUME FoundInv, pc \in Detected PROVE LevelsCount
<1>1. ASSUME NEW l \in Levels, cpuinfo.size[l] # 0 PROVE l <= cpuinfo.Cachelevels
  <2>1. PICK c : c \in DataCaches(machine, l)
    BY <1>1, DetectedCaches
  <2>2. cpuinfo.Cachelevels >= l
    BY <1>1, <2>1, DetectedCaches
  <2>3. cpuinfo \in Infos
    BY DEF FoundInv, Types
  <2>4. cpuinfo.Cachelevels \in Int /\ l \in Int
    BY <2>3, InfoType DEF Levels
  <2> QED BY <2>2, <2>4
<1> QED BY <1>1 DEF LevelsCount

\* Detection and the first steps of bi_init() make no pass.
LEMMA BeforePasses ==
  ASSUME FoundInv', last = NoPass, UNCHANGED last, pc' \in {"caches", "crash", "detect", "settings", "exit"}
  PROVE  BufferInv'
BY DEF BufferInv, NoPass

LEMMA DetectKeeps == ASSUME BufferInv, Detect PROVE BufferInv'
<1>1. FoundInv'
  BY ReadKeeps, CrashKeeps, AllReadKeeps DEF Detect, DetectionSteps, BufferInv
<1>2. last = NoPass /\ UNCHANGED last /\ pc' \in {"caches", "crash", "detect"}
  BY DEF BufferInv, Detect, DetectionSteps, ReadCache, CrashAtCache, CachesRead
<1> QED BY <1>1, <1>2, BeforePasses

LEMMA StartKeeps == ASSUME BufferInv, DetectCaches \/ ReadSettings PROVE BufferInv'
<1>1. CASE DetectCaches
  <2>1. FoundInv' /\ last = NoPass /\ UNCHANGED last /\ pc' = "settings"
    BY <1>1, DetectCachesKeeps DEF BufferInv, DetectCaches
  <2> QED BY <2>1, BeforePasses
<1>2. CASE ReadSettings
  <2>1. pc = "settings" /\ pc' = "replace" /\ env' \in Environments /\ UNCHANGED <<machine, cpuinfo, index, last>>
    BY <1>2 DEF ReadSettings
  <2>2. FoundInv /\ last = NoPass /\ cpuinfo \in Infos
    BY <2>1 DEF BufferInv, FoundInv, Types
  <2>3. FoundInv'
    BY <2>1, <2>2, UnchangedKeeps DEF Detected
  <2> QED BY <2>1, <2>2, <2>3 DEF BufferInv, NoPass
<1> QED BY <1>1, <1>2

LEMMA InitKeeps == ASSUME BufferInv, Settings \/ Allocate PROVE BufferInv'
<1>1. CASE Settings
  <2>1. pc = "replace" /\ pc' \in {"exit", "allocate"} /\ UNCHANGED <<machine, index, env, last>>
    BY <1>1 DEF Settings
  <2>2. FoundInv /\ last = NoPass /\ env \in Environments /\ cpuinfo \in Infos
    BY <2>1 DEF BufferInv, FoundInv, Types
  <2>3. FoundInv' /\ cpuinfo'.size = NewSize /\ cpuinfo'.Cachelevels >= cpuinfo.Cachelevels
        /\ \A i \in SetLevels : i <= cpuinfo'.Cachelevels
    BY <1>1, <2>2, SettingsKeep
  <2>4. LevelsCount
    BY <2>1, <2>2, DetectedLevelsCount DEF Detected
  <2>5. cpuinfo'.Cachelevels \in Int /\ cpuinfo.Cachelevels \in Int
    BY <2>2, <2>3, InfoType DEF FoundInv, Types
  <2>6. LevelsCount'
    BY <2>3, <2>4, <2>5 DEF LevelsCount, NewSize, Levels
  <2> QED BY <2>1, <2>2, <2>3, <2>6 DEF BufferInv, NoPass
<1>2. CASE Allocate
  <2>1. pc = "allocate" /\ pc' \in {"exit", "ready"} /\ UNCHANGED <<machine, index, env, last>>
    BY <1>2 DEF Allocate
  <2>2. FoundInv /\ last = NoPass /\ env \in Environments /\ LevelsCount
    BY <2>1 DEF BufferInv
  <2>3. FoundInv' /\ UNCHANGED <<cpuinfo.size, cpuinfo.Cachelevels>> /\ cpuinfo'.Cacheflushsize >= CACHEFLUSHSIZE
    BY <1>2, <2>2, AllocateKeeps
  <2>4. (cpuinfo.Cacheflushsize >= CACHEFLUSHSIZE)'
    BY <2>1, <2>3 DEF CACHEFLUSHSIZE, EXTRA_FLUSH_SIZE, SumTo
  <2>5. LevelsCount'
    BY <2>2, <2>3 DEF LevelsCount
  <2> QED BY <2>1, <2>2, <2>3, <2>4, <2>5 DEF BufferInv, NoPass
<1> QED BY <1>1, <1>2

LEMMA EmptyMax == Max({0}) = 0
BY MaxIs

LEMMA FlushKeeps ==
  ASSUME BufferInv, NEW what \in {"FLUSH", "FLUSH_ALL"}, NEW memsize \in Nat, FlushCaches(what, memsize)
  PROVE  BufferInv'
<1>1. pc = "ready" /\ UNCHANGED <<pc, machine, cpuinfo, index, env>>
  BY DEF FlushCaches
<1>2. FlushPass'
  <2>1. \A i : (FlushBytes(i))' = FlushBytes(i)
    BY <1>1 DEF FlushBytes, Held, AboveL2, EXTRA_FLUSH_SIZE, Exclusive, Inclusive, ByVendor
  <2>2. \A i : (FlushEnd(i))' = FlushEnd(i)
    BY <1>1, <2>1 DEF FlushEnd
  <2>4. /\ last'.memsize = memsize /\ last'.levels = FlushedLevels(memsize)
        /\ last'.covered = Max({0} \cup {FlushBytes(i) : i \in FlushedLevels(memsize)})
        /\ last'.end = Max({0} \cup {FlushEnd(i) : i \in FlushedLevels(memsize)})
    BY DEF FlushCaches
  <2>5. (FlushedLevels(last.memsize))' = FlushedLevels(memsize)
    BY <1>1, <2>4 DEF FlushedLevels, AboveL2, Enabled, Usable, UsableExclusive, UsableAboveL2, Exclusive
  <2>6. {FlushBytes(i) : i \in last.levels}' = {FlushBytes(i) : i \in FlushedLevels(memsize)}
    BY <2>1, <2>4
  <2>7. {FlushEnd(i) : i \in last.levels}' = {FlushEnd(i) : i \in FlushedLevels(memsize)}
    BY <2>2, <2>4
  <2> QED BY <2>4, <2>5, <2>6, <2>7 DEF FlushPass
<1>3. last'.what = what
  BY DEF FlushCaches
<1>4. FoundInv' /\ LevelsCount'
  BY <1>1 DEF BufferInv, FoundInv, Types, Detected, LevelsCount
<1>5. (cpuinfo.Cacheflushsize >= CACHEFLUSHSIZE)'
  BY <1>1 DEF BufferInv, CACHEFLUSHSIZE, EXTRA_FLUSH_SIZE
<1>6. env' \in Environments
  BY <1>1 DEF BufferInv
<1> QED BY <1>1, <1>2, <1>3, <1>4, <1>5, <1>6 DEF BufferInv

LEMMA UseMemoryKeeps == ASSUME BufferInv, FlushInUseMemory PROVE BufferInv'
<1>1. pc = "ready" /\ UNCHANGED <<pc, machine, cpuinfo, index, env>>
  BY DEF FlushInUseMemory
<1>2. UseMemoryPass'
  BY <1>1 DEF UseMemoryPass, FlushInUseMemory, Stride, EXTRA_FLUSH_SIZE
<1>3. last'.what = "USE_MEMORY"
  BY DEF FlushInUseMemory
<1>4. FoundInv' /\ LevelsCount'
  BY <1>1 DEF BufferInv, FoundInv, Types, Detected, LevelsCount
<1>5. (cpuinfo.Cacheflushsize >= CACHEFLUSHSIZE)'
  BY <1>1 DEF BufferInv, CACHEFLUSHSIZE, EXTRA_FLUSH_SIZE
<1>6. env' \in Environments
  BY <1>1 DEF BufferInv
<1> QED BY <1>1, <1>2, <1>3, <1>4, <1>5, <1>6 DEF BufferInv

LEMMA StoppedKeeps == ASSUME BufferInv, InvalidateEndlessly \/ UNCHANGED vars PROVE BufferInv'
<1>1. UNCHANGED <<machine, cpuinfo, index, env, last>> /\ (pc' = pc \/ (pc = "ready" /\ pc' = "endless"))
  BY DEF InvalidateEndlessly, vars
<1>2. FoundInv'
  BY <1>1 DEF BufferInv, FoundInv, Types, Detected, Found, Seen, AsRead, NotSeen, SizeOf, FixedSize
<1>3. LevelsCount' = LevelsCount /\ UseMemoryPass' = UseMemoryPass /\ CACHEFLUSHSIZE' = CACHEFLUSHSIZE
  BY <1>1 DEF LevelsCount, UseMemoryPass, CACHEFLUSHSIZE, EXTRA_FLUSH_SIZE, Stride
<1>4. FlushPass' = FlushPass
  <2>1. \A i : (FlushBytes(i))' = FlushBytes(i)
    BY <1>1 DEF FlushBytes, Held, AboveL2, EXTRA_FLUSH_SIZE, Exclusive, Inclusive, ByVendor
  <2>2. \A i : (FlushEnd(i))' = FlushEnd(i)
    BY <1>1, <2>1 DEF FlushEnd
  <2>3. (FlushedLevels(last.memsize))' = FlushedLevels(last.memsize)
    BY <1>1 DEF FlushedLevels, AboveL2, Enabled, Usable, UsableExclusive, UsableAboveL2, Exclusive
  <2>4. /\ {FlushBytes(i) : i \in last.levels}' = {FlushBytes(i) : i \in last.levels}
        /\ {FlushEnd(i) : i \in last.levels}' = {FlushEnd(i) : i \in last.levels}
    BY <1>1, <2>1, <2>2
  <2> QED BY <1>1, <2>3, <2>4 DEF FlushPass
<1> QED BY <1>1, <1>2, <1>3, <1>4 DEF BufferInv

LEMMA BufferInvInitially == ASSUME Init PROVE BufferInv
BY FoundInitially DEF Init, InitDetection, BufferInv, NoPass

LEMMA BufferInvKept == ASSUME BufferInv, [Next]_vars PROVE BufferInv'
<1>1. CASE Detect
  BY <1>1, DetectKeeps
<1>2. CASE DetectCaches \/ ReadSettings
  BY <1>2, StartKeeps
<1>3. CASE Settings \/ Allocate
  BY <1>3, InitKeeps
<1>4. CASE Flush
  <2>1. env.MAX \in Nat
    BY <1>4, EnvironmentType DEF Flush, FlushCaches, BufferInv
  <2> QED BY <1>4, <2>1, FlushKeeps DEF Flush
<1>5. CASE FlushAll
  <2>1. cpuinfo.Total_D_Cache_Size \in Nat
    BY InfoType DEF BufferInv, FoundInv, Types
  <2>2. 2 * cpuinfo.Total_D_Cache_Size \in Nat
    BY <2>1
  <2> QED BY <1>5, <2>2, FlushKeeps DEF FlushAll
<1>6. CASE FlushInUseMemory
  BY <1>6, UseMemoryKeeps
<1>7. CASE InvalidateEndlessly \/ UNCHANGED vars
  BY <1>7, StoppedKeeps
<1> QED BY <1>1, <1>2, <1>3, <1>4, <1>5, <1>6, <1>7 DEF Next, Stopped

\* The types and what the sizes, the flush area and the passes have to do with each other hold
\* in every state.
THEOREM BufferInvariant == Spec => []BufferInv
<1>1. Init => BufferInv
  BY BufferInvInitially
<1>2. BufferInv /\ [Next]_vars => BufferInv'
  BY BufferInvKept
<1> QED BY <1>1, <1>2, PTL DEF Spec

\* What detection hands on is what the caches are, whatever files sysfs lacks and in whatever
\* order it lists them; where it crashes, a file was missing or a list too long.
THEOREM CachesAreFound == Spec => []CachesAsFound
<1>1. BufferInv => CachesAsFound
  BY CachesFound DEF BufferInv
<1> QED BY <1>1, BufferInvariant, PTL

LEMMA SmallRemainder ==
  ASSUME NEW d \in Nat \ {0}, NEW a \in 0 .. d - 1
  PROVE  a % d = a
OBVIOUS

\* The next multiple.
LEMMA RoundedUp ==
  ASSUME NEW d \in Nat \ {0}, NEW a \in Nat
  PROVE  ((a + d) \div d) * d \in a + 1 .. a + d
OBVIOUS

LEMMA BufferFits == BufferInv => BufferHolds
<1> SUFFICES ASSUME BufferInv, pc = "ready", env.MAX + LINE + env.OFFSET + 16 + HUGEPAGE < WORD32
             PROVE  env.OFFSET + env.MAX <= BUFFERSIZE(env.MAX, env.OFFSET)
  BY DEF BufferHolds
<1>1. env.MAX \in Nat /\ env.OFFSET \in Nat
  BY EnvironmentType DEF BufferInv
<1>2. LINE \in Nat /\ HUGEPAGE \in Nat \ {0} /\ WORD32 \in Nat \ {0}
  BY BuffersAssumption
<1> DEFINE size == env.MAX + LINE + env.OFFSET + 16
           up   == ((size + HUGEPAGE) \div HUGEPAGE) * HUGEPAGE
<1>3. size \in Nat /\ env.OFFSET + env.MAX <= size /\ size + HUGEPAGE < WORD32
  BY <1>1, <1>2
<1>4. up \in size + 1 .. size + HUGEPAGE
  BY <1>2, <1>3, RoundedUp
<1>5. BUFFERSIZE(env.MAX, env.OFFSET) = IF env.hugepages THEN up % WORD32 ELSE size
  BY DEF BUFFERSIZE
<1> HIDE DEF size, up
<1>6. up \in 0 .. WORD32 - 1
  BY <1>2, <1>3, <1>4
<1>7. up % WORD32 = up
  BY <1>2, <1>6, SmallRemainder
<1> QED BY <1>1, <1>3, <1>4, <1>5, <1>7

\* Below 4 GiB the buffer holds the largest problem behind its offset, with and without huge
\* pages.
THEOREM BufferAlwaysHolds == Spec => []BufferHolds
<1>1. BufferInv => BufferHolds
  BY BufferFits
<1> QED BY <1>1, BufferInvariant, PTL

----------------------------------------------------------------------------
(***************************************************************************)
(* What a pass over the flush area fills.                                  *)
(***************************************************************************)
LEMMA SumToIs ==
  ASSUME NEW size \in [Levels -> Nat], NEW n \in Int
  PROVE  /\ SumTo(size, n) = (IF n >= 1 THEN size[1] ELSE 0) + (IF n >= 2 THEN size[2] ELSE 0)
                              + (IF n >= 3 THEN size[3] ELSE 0) + (IF n >= 4 THEN size[4] ELSE 0)
         /\ size[1] \in Nat /\ size[2] \in Nat /\ size[3] \in Nat /\ size[4] \in Nat
<1>1. size \in [Levels -> Int] /\ size[1] \in Nat /\ size[2] \in Nat /\ size[3] \in Nat /\ size[4] \in Nat
  BY DEF Levels
<1>2. \A k \in 1 .. 4 : k \in 1 .. n <=> n >= k
  OBVIOUS
<1> QED BY SMTT(30), <1>1, <1>2, SumIs DEF SumTo

\* The capacity is summed up like the sizes.
LEMMA CapacityIs ==
  ASSUME NEW size, size = cpuinfo.size, size \in [Levels -> Nat], NEW i \in Levels
  PROVE  /\ ~Exclusive => Capacity(i) = size[i]
         /\ Exclusive /\ env.kernel # "latency" => Capacity(i) = SumTo(size, i)
         /\ Exclusive /\ env.kernel = "latency" =>
              Capacity(i) = IF i = 1 THEN size[1] ELSE SumTo(size, i) - size[1]
<1>1. size \in [Levels -> Int] /\ (i = 1 \/ i = 2 \/ i = 3 \/ i = 4)
  BY DEF Levels
<1>2. /\ size[1] \in Nat /\ size[2] \in Nat /\ size[3] \in Nat /\ size[4] \in Nat
      /\ SumTo(size, i) = (IF i >= 1 THEN size[1] ELSE 0) + (IF i >= 2 THEN size[2] ELSE 0)
                           + (IF i >= 3 THEN size[3] ELSE 0) + (IF i >= 4 THEN size[4] ELSE 0)
  BY <1>1, SumToIs
<1>3. CASE ~Exclusive
  <2>1. Capacity(i) = SumOver(size, {i})
    <3>1. {i} \cup {} = {i}
      OBVIOUS
    <3> QED BY <1>3, <3>1 DEF Capacity
  <2>2. \A k \in 1 .. 4 : k \in {i} <=> k = i
    OBVIOUS
  <2>3. SumOver(size, {i}) = (IF 1 = i THEN size[1] ELSE 0) + (IF 2 = i THEN size[2] ELSE 0)
                              + (IF 3 = i THEN size[3] ELSE 0) + (IF 4 = i THEN size[4] ELSE 0)
    BY <1>1, <2>2, SumIs
  <2> QED BY <1>1, <1>2, <1>3, <2>1, <2>3
<1>4. CASE Exclusive
  <2> DEFINE low    == IF env.kernel = "latency" THEN 2 ELSE 1
             levels == {i} \cup (low .. i - 1)
  <2>1. Capacity(i) = SumOver(size, levels)
    BY <1>4 DEF Capacity
  <2>2. low \in {1, 2}
    OBVIOUS
  <2> HIDE DEF low
  <2>3. \A k \in 1 .. 4 : k \in levels <=> k = i \/ (low <= k /\ k < i)
    BY <1>1, <2>2
  <2> HIDE DEF levels
  <2>4. SumOver(size, levels) =
          (IF 1 = i \/ (low <= 1 /\ 1 < i) THEN size[1] ELSE 0) + (IF 2 = i \/ (low <= 2 /\ 2 < i) THEN size[2] ELSE 0)
           + (IF 3 = i \/ (low <= 3 /\ 3 < i) THEN size[3] ELSE 0) + (IF 4 = i \/ (low <= 4 /\ 4 < i) THEN size[4] ELSE 0)
    BY <1>1, <2>3, SumIs
  <2>5. Capacity(i) = IF low = 1 \/ i = 1 THEN SumTo(size, i) ELSE SumTo(size, i) - size[1]
    BY <1>1, <1>2, <2>1, <2>2, <2>4
  <2> QED BY <1>1, <1>2, <1>4, <2>5 DEF low
<1> QED BY <1>3, <1>4

\* What may be left in a level does not exceed the capacity.
LEMMA UsableWithin ==
  ASSUME NEW size, size = cpuinfo.size, size \in [Levels -> Nat], NEW i \in Levels
  PROVE  Usable(i) \in Int /\ Capacity(i) \in Nat /\ Usable(i) <= Capacity(i)
<1>1. size \in [Levels -> Int] /\ (i = 1 \/ i = 2 \/ i = 3 \/ i = 4)
  BY DEF Levels
<1>2. /\ size[1] \in Nat /\ size[2] \in Nat /\ size[3] \in Nat /\ size[4] \in Nat
      /\ SumTo(size, i) = (IF i >= 1 THEN size[1] ELSE 0) + (IF i >= 2 THEN size[2] ELSE 0)
                           + (IF i >= 3 THEN size[3] ELSE 0) + (IF i >= 4 THEN size[4] ELSE 0)
  BY <1>1, SumToIs
<1>3. CASE ~Exclusive
  BY <1>1, <1>2, <1>3, CapacityIs DEF Usable, AboveL2
<1>4. CASE Exclusive /\ env.kernel # "latency"
  <2> DEFINE levels == {j \in 1 .. i : j = i \/ ~Enabled(j)}
  <2>1. Usable(i) = SumOver(size, levels) /\ Capacity(i) = SumTo(size, i)
    BY <1>4, CapacityIs DEF Usable, AboveL2, UsableExclusive
  <2>2. \A k \in 1 .. 4 : k \in levels => i >= k
    OBVIOUS
  <2> HIDE DEF levels
  <2>3. SumOver(size, levels) =
          (IF 1 \in levels THEN size[1] ELSE 0) + (IF 2 \in levels THEN size[2] ELSE 0)
           + (IF 3 \in levels THEN size[3] ELSE 0) + (IF 4 \in levels THEN size[4] ELSE 0)
    BY <1>1, SumIs
  <2> QED BY <1>1, <1>2, <2>1, <2>2, <2>3
<1>5. CASE Exclusive /\ env.kernel = "latency"
  <2>1. Usable(i) = UsableAboveL2(i) /\ Capacity(i) = IF i = 1 THEN size[1] ELSE SumTo(size, i) - size[1]
    BY <1>5, CapacityIs DEF Usable, AboveL2
  <2>2. UsableAboveL2(i) =
          IF i < 3 THEN size[i]
          ELSE SumTo(size, i) - size[1]
               - (IF i # 3 THEN 0 ELSE IF Enabled(2) THEN size[2] ELSE IF Enabled(1) THEN size[1] ELSE 0)
    BY DEF UsableAboveL2
  <2>3. PICK one \in BOOLEAN, two \in BOOLEAN : (one <=> Enabled(1)) /\ (two <=> Enabled(2))
    BY Zenon
  <2> QED BY <1>1, <1>2, <2>1, <2>2, <2>3
<1> QED BY <1>3, <1>4, <1>5

LEMMA Grown ==
  ASSUME NEW size, size = cpuinfo.size, size \in [Levels -> Nat], cpuinfo.Cachelevels \in 0 .. 4, Growing,
         NEW i \in Levels, NEW h \in Levels, i <= h, h <= cpuinfo.Cachelevels
  PROVE  size[i] <= size[h]
<1>1. size[1] \in Nat /\ size[2] \in Nat /\ size[3] \in Nat /\ size[4] \in Nat
  BY DEF Levels
<1>2. \A k \in 1 .. 3 : k < h => size[k] < size[k + 1]
  BY DEF Growing, Levels
<1>3. (1 < h => size[1] < size[2]) /\ (2 < h => size[2] < size[3]) /\ (3 < h => size[3] < size[4])
  BY <1>2
<1>4. (i = 1 \/ i = 2 \/ i = 3 \/ i = 4) /\ (h = 1 \/ h = 2 \/ h = 3 \/ h = 4)
  BY DEF Levels
<1> QED BY <1>1, <1>3, <1>4

\* A pass over a level takes at least the capacity of every level below that it is made for.
LEMMA HeldEnough ==
  ASSUME NEW size, size = cpuinfo.size, size \in [Levels -> Nat], cpuinfo.Cachelevels \in 0 .. 4, Named, Growing,
         NEW i \in Levels, NEW h \in Levels, i <= h, h <= cpuinfo.Cachelevels, AboveL2 => (i < 3 <=> h < 3)
  PROVE  Held(h) \in Nat /\ Capacity(i) <= Held(h)
<1>1. (i = 1 \/ i = 2 \/ i = 3 \/ i = 4) /\ (h = 1 \/ h = 2 \/ h = 3 \/ h = 4)
  BY DEF Levels
<1>2. /\ size[1] \in Nat /\ size[2] \in Nat /\ size[3] \in Nat /\ size[4] \in Nat
      /\ SumTo(size, i) = (IF i >= 1 THEN size[1] ELSE 0) + (IF i >= 2 THEN size[2] ELSE 0)
                           + (IF i >= 3 THEN size[3] ELSE 0) + (IF i >= 4 THEN size[4] ELSE 0)
      /\ SumTo(size, h) = (IF h >= 1 THEN size[1] ELSE 0) + (IF h >= 2 THEN size[2] ELSE 0)
                           + (IF h >= 3 THEN size[3] ELSE 0) + (IF h >= 4 THEN size[4] ELSE 0)
  BY <1>1, SumToIs
<1>3. size[i] <= size[h]
  BY Grown
<1>4. CASE ~Exclusive
  BY <1>1, <1>2, <1>3, <1>4, CapacityIs DEF Held, AboveL2, ByVendor, Named
<1>5. CASE Exclusive /\ env.kernel # "latency"
  BY <1>1, <1>2, <1>5, CapacityIs DEF Held, AboveL2, ByVendor
<1>6. CASE Exclusive /\ env.kernel = "latency"
  <2>1. Held(h) = IF h < 3 THEN size[h] ELSE SumTo(size, h) - size[1]
    BY <1>6 DEF Held, AboveL2
  <2>2. Capacity(i) = IF i = 1 THEN size[1] ELSE SumTo(size, i) - size[1]
    BY <1>6, CapacityIs
  <2>3. i < 3 <=> h < 3
    BY <1>6 DEF AboveL2
  <2> QED BY <1>1, <1>2, <1>3, <2>1, <2>2, <2>3
<1> QED BY <1>4, <1>5, <1>6

LEMMA FlushBytesEnough ==
  ASSUME NEW h, NEW c \in Nat, Held(h) \in Nat, c <= Held(h), EXTRA_FLUSH_SIZE \in Nat
  PROVE  FlushBytes(h) \in Nat /\ FlushBytes(h) >= (c * EXTRA_FLUSH_SIZE) \div 100
<1>1. /\ (c * EXTRA_FLUSH_SIZE) \div 100 <= (Held(h) * EXTRA_FLUSH_SIZE) \div 100
      /\ (c * EXTRA_FLUSH_SIZE) \div 100 <= (2 * (Held(h) * EXTRA_FLUSH_SIZE)) \div 100
  BY Percent
<1>2. Held(h) * EXTRA_FLUSH_SIZE \in Nat
  OBVIOUS
<1>3. (Held(h) * EXTRA_FLUSH_SIZE) \div 100 \in Nat /\ (2 * (Held(h) * EXTRA_FLUSH_SIZE)) \div 100 \in Nat
  BY <1>2
<1>4. (c * EXTRA_FLUSH_SIZE) \div 100 \in Int
  OBVIOUS
<1> QED BY <1>1, <1>3, <1>4 DEF FlushBytes

\* The highest of some levels, if there is one.
LEMMA HighestIs ==
  ASSUME NEW S \in SUBSET Levels, NEW i \in S
  PROVE  \E h \in S : Highest(S) = {h} /\ i <= h
<1>1. S \in SUBSET (0 .. 4) /\ S # {}
  BY DEF Levels
<1>2. Max(S) \in S /\ \A q \in S : Max(S) >= q
  BY <1>1, MaxLevel
<1> QED BY <1>1, <1>2 DEF Highest

\* A level that the data exceeds is flushed, or one above it.
LEMMA SomeLevelFlushed ==
  ASSUME cpuinfo \in Infos, NEW memsize \in Nat, NEW i \in Levels, i <= cpuinfo.Cachelevels, Enabled(i),
         memsize > Usable(i)
  PROVE  \E h \in FlushedLevels(memsize) :
           h \in Levels /\ i <= h /\ h <= cpuinfo.Cachelevels /\ (AboveL2 => (i < 3 <=> h < 3))
<1> DEFINE small == {j \in 1 .. cpuinfo.Cachelevels : Enabled(j) /\ memsize > Usable(j)}
<1>1. cpuinfo.Cachelevels \in 0 .. 4
  BY InfoType
<1>2. small \in SUBSET Levels /\ i \in small /\ \A j \in small : j <= cpuinfo.Cachelevels
  BY <1>1 DEF Levels
<1>3. FlushedLevels(memsize) = IF AboveL2 THEN Highest(small \ {1, 2}) \cup Highest(small \cap {1, 2}) ELSE Highest(small)
  BY DEF FlushedLevels
<1> HIDE DEF small
<1>4. CASE ~AboveL2
  <2>1. PICK h \in small : Highest(small) = {h} /\ i <= h
    BY <1>2, HighestIs
  <2> QED BY <1>2, <1>3, <1>4, <2>1
<1>5. CASE AboveL2 /\ i < 3
  <2>1. i \in small \cap {1, 2}
    BY <1>2, <1>5 DEF Levels
  <2>2. PICK h \in small \cap {1, 2} : Highest(small \cap {1, 2}) = {h} /\ i <= h
    BY <1>2, <2>1, HighestIs
  <2> QED BY <1>2, <1>3, <1>5, <2>2
<1>6. CASE AboveL2 /\ i >= 3
  <2>1. i \in small \ {1, 2}
    BY <1>2, <1>6 DEF Levels
  <2>2. PICK h \in small \ {1, 2} : Highest(small \ {1, 2}) = {h} /\ i <= h
    BY <1>2, <2>1, HighestIs
  <2> QED BY <1>2, <1>3, <1>6, <2>2 DEF Levels
<1>7. i < 3 \/ i >= 3
  BY DEF Levels
<1> QED BY <1>4, <1>5, <1>6, <1>7

\* Only levels that are to be flushed are.
LEMMA FlushedEnabled ==
  ASSUME cpuinfo \in Infos, NEW memsize \in Nat, NEW h \in FlushedLevels(memsize)
  PROVE  h \in Levels /\ h <= cpuinfo.Cachelevels /\ Enabled(h)
<1> DEFINE small == {j \in 1 .. cpuinfo.Cachelevels : Enabled(j) /\ memsize > Usable(j)}
<1>1. cpuinfo.Cachelevels \in 0 .. 4
  BY InfoType
<1>2. small \in SUBSET Levels /\ \A j \in small : j \in Levels /\ j <= cpuinfo.Cachelevels /\ Enabled(j)
  BY <1>1 DEF Levels
<1>3. h \in IF AboveL2 THEN Highest(small \ {1, 2}) \cup Highest(small \cap {1, 2}) ELSE Highest(small)
  BY DEF FlushedLevels
<1> HIDE DEF small
<1>4. ASSUME NEW S \in SUBSET small PROVE Highest(S) \subseteq S
  <2>1. CASE S = {}
    BY <2>1 DEF Highest
  <2>2. ASSUME NEW i \in S PROVE Highest(S) \subseteq S
    <3>1. S \in SUBSET Levels
      BY <1>2, <1>4
    <3> QED BY <3>1, <2>2, HighestIs
  <2> QED BY <2>1, <2>2
<1>5. h \in small
  <2>1. CASE AboveL2
    BY <1>3, <1>4, <2>1
  <2>2. CASE ~AboveL2
    BY <1>3, <1>4, <2>2
  <2> QED BY <2>1, <2>2
<1> QED BY <1>2, <1>5

LEMMA Gap ==
  ASSUME NEW m \in Nat, NEW a \in Nat, NEW b \in Nat, NEW c \in Nat, NEW d \in Nat,
         a = 0 \/ a >= m, b = 0 \/ b >= m, c = 0 \/ c >= m, d = 0 \/ d >= m
  PROVE  a + b + c + d = 0 \/ a + b + c + d >= m
<1>1. CASE a = 0 /\ b = 0 /\ c = 0 /\ d = 0
  BY <1>1
<1>2. CASE a >= m \/ b >= m \/ c >= m \/ d >= m
  BY <1>2
<1> QED BY <1>1, <1>2

\* The sum over some of four caches is the sum over all or less by a whole cache.
LEMMA PartOfCaches ==
  ASSUME NEW m \in Nat, NEW a \in Nat, NEW b \in Nat, NEW c \in Nat, NEW d \in Nat,
         a = 0 \/ a >= m, b = 0 \/ b >= m, c = 0 \/ c >= m, d = 0 \/ d >= m,
         NEW held, held \in {0, a, b, c, d, a + b, b + c, a + b + c, b + c + d, a + b + c + d}
  PROVE  held = a + b + c + d \/ held + m <= a + b + c + d
<1>1. CASE held = 0
  <2>1. a + b + c + d = 0 \/ a + b + c + d >= m
    BY Gap
  <2> QED BY <1>1, <2>1
<1>2. CASE held = a
  <2>1. b + c + d = 0 \/ b + c + d >= m
    OBVIOUS
  <2> QED BY <1>2, <2>1
<1>3. CASE held = b
  <2>1. a + c + d = 0 \/ a + c + d >= m
    OBVIOUS
  <2> QED BY <1>3, <2>1
<1>4. CASE held = c
  <2>1. a + b + d = 0 \/ a + b + d >= m
    OBVIOUS
  <2> QED BY <1>4, <2>1
<1>5. CASE held = d
  <2>1. a + b + c = 0 \/ a + b + c >= m
    OBVIOUS
  <2> QED BY <1>5, <2>1
<1>6. CASE held = a + b
  <2>1. c + d = 0 \/ c + d >= m
    OBVIOUS
  <2> QED BY <1>6, <2>1
<1>7. CASE held = b + c
  <2>1. a + d = 0 \/ a + d >= m
    OBVIOUS
  <2> QED BY <1>7, <2>1
<1>8. CASE held = a + b + c
  BY <1>8
<1>9. CASE held = b + c + d
  BY <1>9
<1>10. CASE held = a + b + c + d
  BY <1>10
<1> QED BY <1>1, <1>2, <1>3, <1>4, <1>5, <1>6, <1>7, <1>8, <1>9, <1>10

\* What a pass takes is part of the caches, and has its level in it if anything.  m is what
\* every cache has at least.
LEMMA HeldIs ==
  ASSUME NEW size, size = cpuinfo.size, size \in [Levels -> Nat], NEW i \in Levels,
         NEW m \in Nat, \A l \in Levels : size[l] = 0 \/ size[l] >= m
  PROVE  /\ Held(i) \in Nat /\ (Held(i) = 0 \/ Held(i) >= size[i])
         /\ SumTo(size, 4) \in Nat /\ SumTo(size, 4) >= size[i]
         /\ Held(i) = SumTo(size, 4) \/ Held(i) + m <= SumTo(size, 4)
<1>1. i = 1 \/ i = 2 \/ i = 3 \/ i = 4
  BY DEF Levels
<1>2. /\ size[1] \in Nat /\ size[2] \in Nat /\ size[3] \in Nat /\ size[4] \in Nat
      /\ SumTo(size, i) = (IF i >= 1 THEN size[1] ELSE 0) + (IF i >= 2 THEN size[2] ELSE 0)
                           + (IF i >= 3 THEN size[3] ELSE 0) + (IF i >= 4 THEN size[4] ELSE 0)
      /\ SumTo(size, 4) = size[1] + size[2] + size[3] + size[4]
  BY <1>1, SumToIs
<1>0. PICK a \in Nat, b \in Nat, c \in Nat, d \in Nat : a = size[1] /\ b = size[2] /\ c = size[3] /\ d = size[4]
  BY <1>2
<1>3. (a = 0 \/ a >= m) /\ (b = 0 \/ b >= m) /\ (c = 0 \/ c >= m) /\ (d = 0 \/ d >= m)
  BY <1>0 DEF Levels
<1>4. \/ Held(i) = SumTo(size, i)
      \/ Held(i) = size[i]
      \/ Held(i) = 0
      \/ i >= 3 /\ Held(i) = SumTo(size, i) - a
  BY <1>0, <1>1 DEF Held, ByVendor
<1>5. PICK held : held = Held(i)
  OBVIOUS
<1>6. SumTo(size, 4) = a + b + c + d
  BY <1>0, <1>2
<1>7. held \in {0, a, b, c, d, a + b, b + c, a + b + c, b + c + d, a + b + c + d} /\ held \in Nat
      /\ (held = 0 \/ held >= size[i])
  BY <1>0, <1>1, <1>2, <1>4, <1>5
<1>8. held = a + b + c + d \/ held + m <= a + b + c + d
  <2>1. /\ a = 0 \/ a >= m
        /\ b = 0 \/ b >= m
        /\ c = 0 \/ c >= m
        /\ d = 0 \/ d >= m
    BY <1>3
  <2>2. m \in Nat /\ a \in Nat /\ b \in Nat /\ c \in Nat /\ d \in Nat
    BY <1>0
  <2> QED BY Zenon, <1>7, <2>1, <2>2, PartOfCaches
<1>9. SumTo(size, 4) \in Nat /\ SumTo(size, 4) >= size[i]
  BY <1>1, <1>2
<1> QED BY <1>5, <1>6, <1>7, <1>8, <1>9

LEMMA FlushBytesType ==
  ASSUME BufferInv, env \in Environments, NEW i \in Levels
  PROVE  Held(i) \in Nat /\ FlushBytes(i) \in Nat /\ EXTRA_FLUSH_SIZE \in Nat
<1>1. cpuinfo.size \in [Levels -> Nat]
  BY InfoType DEF BufferInv, FoundInv, Types
<1>2. \A l \in Levels : cpuinfo.size[l] = 0 \/ cpuinfo.size[l] >= 0
  BY <1>1
<1>3. Held(i) \in Nat
  BY <1>1, <1>2, HeldIs
<1>4. EXTRA_FLUSH_SIZE \in Nat
  BY EnvironmentType
<1> QED BY <1>3, <1>4, FlushBytesEnough

LEMMA SmallFlushed == BufferInv => SmallCachesFlushed
<1> SUFFICES ASSUME BufferInv, Named, Growing, last.what \in {"FLUSH", "FLUSH_ALL"},
                    NEW i \in Levels, Enabled(i), last.memsize > Capacity(i)
             PROVE  last.covered >= (Capacity(i) * EXTRA_FLUSH_SIZE) \div 100
  BY DEF SmallCachesFlushed
<1>1. FlushPass /\ pc \in {"ready", "endless"} /\ env \in Environments /\ LevelsCount /\ cpuinfo \in Infos
  BY DEF BufferInv, NoPass, FoundInv, Types
<1> PICK size : size = cpuinfo.size
  OBVIOUS
<1>2. size \in [Levels -> Nat] /\ cpuinfo.Cachelevels \in 0 .. 4
  BY <1>1, InfoType
<1>3. i <= cpuinfo.Cachelevels /\ last.memsize \in Nat
  BY <1>1 DEF LevelsCount, Enabled, FlushPass
<1>4. Capacity(i) \in Nat /\ last.memsize > Usable(i)
  BY <1>2, <1>3, UsableWithin
<1>5. PICK h \in FlushedLevels(last.memsize) :
        h \in Levels /\ i <= h /\ h <= cpuinfo.Cachelevels /\ (AboveL2 => (i < 3 <=> h < 3))
  BY <1>1, <1>3, <1>4, SomeLevelFlushed
<1>6. Held(h) \in Nat /\ Capacity(i) <= Held(h)
  BY <1>2, <1>5, HeldEnough
<1>7. FlushBytes(h) \in Nat /\ FlushBytes(h) >= (Capacity(i) * EXTRA_FLUSH_SIZE) \div 100
  BY <1>1, <1>4, <1>6, EnvironmentType, FlushBytesEnough
<1>8. last.levels \in SUBSET Levels /\ h \in last.levels
  BY <1>1, <1>3, <1>5, FlushedEnabled DEF FlushPass
<1> DEFINE value == [l \in Levels |-> FlushBytes(l)]
<1>9. /\ \A l \in last.levels : value[l] \in Nat
      /\ {value[l] : l \in last.levels} = {FlushBytes(l) : l \in last.levels}
      /\ value[h] = FlushBytes(h)
  BY <1>1, <1>8, FlushBytesType
<1> HIDE DEF value
<1>10. last.covered \in Nat /\ last.covered >= FlushBytes(h)
  <2>1. LET max == Max({0} \cup {value[l] : l \in last.levels})
        IN  max \in Nat /\ \A l \in last.levels : max >= value[l]
    BY <1>8, <1>9, MaxOver
  <2>2. last.covered = Max({0} \cup {value[l] : l \in last.levels})
    BY <1>1, <1>9 DEF FlushPass
  <2> QED BY <1>8, <1>9, <2>1, <2>2
<1>11. (Capacity(i) * EXTRA_FLUSH_SIZE) \div 100 \in Int
  <2>1. EXTRA_FLUSH_SIZE \in Nat
    BY <1>1, EnvironmentType
  <2>2. Capacity(i) * EXTRA_FLUSH_SIZE \in Nat
    BY <1>4, <2>1
  <2> QED BY <2>2
<1> QED BY <1>7, <1>10, <1>11

\* Where every level is larger than the one below and the vendor is known, a flush accesses
\* enough for each selected cache that the data exceeds, whatever the sizes are.
THEOREM SmallCachesAreFlushed == Spec => []SmallCachesFlushed
<1>1. BufferInv => SmallCachesFlushed
  BY SmallFlushed
<1> QED BY <1>1, BufferInvariant, PTL

----------------------------------------------------------------------------
(***************************************************************************)
(* How far a pass goes.  n is the length that a line has at most, and      *)
(* every cache has n + 3 bytes or more.                                    *)
(***************************************************************************)
LEMMA AccessesReach ==
  ASSUME NEW b \in Nat, NEW d \in Nat \ {0}, NEW steps, steps = (b + d - 1) \div d
  PROVE  steps \in Nat /\ steps * d <= b + d - 1 /\ (steps # 0 => (steps - 1) * d <= b - 1)
<1>1. b + d - 1 \in Nat
  OBVIOUS
<1>2. steps \in Nat /\ steps * d <= b + d - 1
  BY <1>1
<1>3. (steps - 1) * d = steps * d - d
  BY <1>2
<1>4. steps * d \in Int
  BY <1>2
<1> QED BY <1>2, <1>3, <1>4

\* A percentage e of two parts of the caches, h of s.
LEMMA TwicePercent ==
  ASSUME NEW h \in Nat, NEW s \in Nat, NEW e \in Nat, e >= 100, NEW m \in Nat
  PROVE  /\ (h * e) \div 100 \in Nat /\ (2 * (h * e)) \div 100 \in Nat /\ (s * e) \div 50 \in Nat
         /\ h <= s => 2 * ((h * e) \div 100) <= (s * e) \div 50
         /\ h >= m => (h * e) \div 100 >= m
         /\ s >= m => (s * e) \div 50 >= 2 * m
         /\ h + m <= s => (2 * (h * e)) \div 100 + 2 * m <= (s * e) \div 50
         /\ h = s => (2 * (h * e)) \div 100 = (s * e) \div 50
<1>1. PICK x \in Nat, y \in Nat : x = h * e /\ y = s * e
  OBVIOUS
<1>2. (h <= s => x <= y) /\ (h >= m => x >= 100 * m) /\ (s >= m => y >= 100 * m) /\ (h = s => x = y)
  <2>1. h <= s => x <= y
    BY <1>1
  <2>2. m * 100 <= m * e
    OBVIOUS
  <2>3. h >= m => h * e >= m * e
    OBVIOUS
  <2>4. s >= m => s * e >= m * e
    OBVIOUS
  <2>5. m * e \in Nat /\ m * 100 \in Nat
    OBVIOUS
  <2> QED BY <1>1, <2>1, <2>2, <2>3, <2>4, <2>5
<1>3. h + m <= s => x + 100 * m <= y
  <2>1. (h + m) * e = h * e + m * e
    OBVIOUS
  <2>2. h + m <= s => (h + m) * e <= s * e
    OBVIOUS
  <2>3. m * 100 <= m * e /\ m * e \in Nat
    OBVIOUS
  <2> QED BY <1>1, <2>1, <2>2, <2>3
<1>4. PICK p \in Nat, q \in Nat, r \in Nat : p = x \div 100 /\ q = (2 * x) \div 100 /\ r = y \div 50
  BY <1>1
<1>5. 100 * p <= x /\ x < 100 * p + 100 /\ 100 * q <= 2 * x /\ 2 * x < 100 * q + 100 /\ 50 * r <= y /\ y < 50 * r + 50
  BY <1>1, <1>4
<1>6. /\ h <= s => 2 * p <= r
      /\ h >= m => p >= m
      /\ s >= m => r >= 2 * m
      /\ h + m <= s => q + 2 * m <= r
      /\ h = s => q = r
  BY <1>1, <1>2, <1>3, <1>4, <1>5
<1> QED BY <1>1, <1>4, <1>6

SizeFits(n, size) == size = 0 \/ size >= n + 3
LineFits(n, line) == line = 0 \/ line \in 8 .. n

CoreFits(n) ==
  /\ SizeFits(n, cpuinfo.D_Cache_Size_per_Core)
  /\ cpuinfo.D_Cache_Size_per_Core <= SumTo(cpuinfo.size, 4)

SettingsFit(n) ==
  /\ \A l \in Levels : SizeFits(n, cpuinfo.size[l]) /\ LineFits(n, cpuinfo.Cacheline_size[l])
  /\ \A l \in env.flush : cpuinfo.size[l] # 0 => cpuinfo.Cacheline_size[l] # 0
  /\ SizeFits(n, cpuinfo.D_Cache_Size_per_Core)
  /\ Smaller \/ cpuinfo.D_Cache_Size_per_Core <= SumTo(cpuinfo.size, 4)

FitInv(n) ==
  /\ BufferInv
  /\ pc \in {"settings", "replace"} => CoreFits(n)
  /\ pc \in {"allocate", "ready", "endless"} => SettingsFit(n)

LEMMA DetectedFit ==
  ASSUME NEW n \in Nat, LinesFit(n), FoundInv, pc \in Detected, NEW l \in Levels
  PROVE  SizeFits(n, cpuinfo.size[l]) /\ LineFits(n, cpuinfo.Cacheline_size[l])
<1>1. CASE DataCaches(machine, l) = {}
  BY <1>1, DetectedCaches DEF SizeFits, LineFits
<1>2. ASSUME NEW c \in DataCaches(machine, l) PROVE SizeFits(n, cpuinfo.size[l]) /\ LineFits(n, cpuinfo.Cacheline_size[l])
  <2>1. cpuinfo.size[l] = SizeOf(c) /\ cpuinfo.Cacheline_size[l] = c.line
    BY <1>2, DetectedCaches
  <2>2. machine \in MACHINES /\ c \in Range(machine.caches) /\ HoldsData(c)
    BY <1>2 DEF FoundInv, Types, DataCaches
  <2>3. c.line \in 8 .. n /\ c.size >= n + 3 /\ L2_FT2000 >= n + 3
    BY <2>2 DEF LinesFit
  <2> QED BY <2>1, <2>3 DEF SizeOf, SizeFits, LineFits
<1> QED BY <1>1, <1>2

\* The sum over the lowest levels fits as its parts do.
LEMMA SumFits ==
  ASSUME NEW n \in Nat, NEW size \in [Levels -> Nat], \A l \in Levels : SizeFits(n, size[l]), NEW k \in 0 .. 4
  PROVE  SizeFits(n, SumTo(size, k)) /\ SumTo(size, k) <= SumTo(size, 4)
<1>1. PICK a \in Nat, b \in Nat, c \in Nat, d \in Nat : a = size[1] /\ b = size[2] /\ c = size[3] /\ d = size[4]
  BY DEF Levels
<1>2. /\ a = 0 \/ a >= n + 3
      /\ b = 0 \/ b >= n + 3
      /\ c = 0 \/ c >= n + 3
      /\ d = 0 \/ d >= n + 3
  BY <1>1 DEF Levels, SizeFits
<1>3. /\ SumTo(size, k) = (IF k >= 1 THEN a ELSE 0) + (IF k >= 2 THEN b ELSE 0)
                           + (IF k >= 3 THEN c ELSE 0) + (IF k >= 4 THEN d ELSE 0)
      /\ SumTo(size, 4) = a + b + c + d
  <2>1. k \in Int /\ 4 \in Int
    OBVIOUS
  <2>2. SumTo(size, k) = (IF k >= 1 THEN a ELSE 0) + (IF k >= 2 THEN b ELSE 0)
                           + (IF k >= 3 THEN c ELSE 0) + (IF k >= 4 THEN d ELSE 0)
    BY <1>1, <2>1, SumToIs
  <2>3. SumTo(size, 4) = (IF 4 >= 1 THEN a ELSE 0) + (IF 4 >= 2 THEN b ELSE 0)
                           + (IF 4 >= 3 THEN c ELSE 0) + (IF 4 >= 4 THEN d ELSE 0)
    BY <1>1, <2>1, SumToIs
  <2>4. SumTo(size, 4) = a + b + c + d
    BY <1>1, <2>3
  <2> QED BY <2>2, <2>4
<1>4. k = 0 \/ k = 1 \/ k = 2 \/ k = 3 \/ k = 4
  OBVIOUS
<1> PICK s : s = SumTo(size, k)
  OBVIOUS
<1>5. s \in {0, a, a + b, a + b + c, a + b + c + d}
  BY <1>1, <1>3, <1>4
<1>6. s <= a + b + c + d
  BY <1>1, <1>5
<1>7. s = 0 \/ s >= n + 3
  <2>1. 0 \in Nat /\ n + 3 \in Nat
    OBVIOUS
  <2>2. a + b + c + d = 0 \/ a + b + c + d >= n + 3
    BY <1>1, <1>2, <2>1, Gap
  <2>3. (a + b = 0 \/ a + b >= n + 3) /\ (a + b + c = 0 \/ a + b + c >= n + 3)
    BY <1>1, <1>2
  <2> QED BY <1>2, <1>5, <2>2, <2>3
<1> QED BY <1>3, <1>6, <1>7 DEF SizeFits

LEMMA CoreFitsDetected ==
  ASSUME NEW n \in Nat, LinesFit(n), FoundInv, DetectCaches
  PROVE  CoreFits(n)'
<1>1. pc \in Detected /\ cpuinfo \in Infos
  BY DEF DetectCaches, Detected, FoundInv, Types
<1>2. PICK size : size = cpuinfo.size
  OBVIOUS
<1>3. size \in [Levels -> Nat] /\ cpuinfo.Cachelevels \in 0 .. 4
  BY <1>1, <1>2, InfoType
<1>4. \A l \in Levels : SizeFits(n, size[l])
  BY <1>1, <1>2, DetectedFit
<1>5. PICK k : k = cpuinfo.Cachelevels
  OBVIOUS
<1>6. SizeFits(n, SumTo(size, k)) /\ SumTo(size, k) <= SumTo(size, 4)
  BY <1>3, <1>4, <1>5, SumFits
<1>7. SizeFits(n, IF k = 0 THEN 0 ELSE size[k]) /\ (IF k = 0 THEN 0 ELSE size[k]) <= SumTo(size, 4)
  <2>1. CASE k = 0
    BY <1>3, <2>1, SumToIs DEF SizeFits
  <2>2. CASE k # 0
    <3>1. k \in Levels
      BY <1>3, <1>5, <2>2 DEF Levels
    <3>2. \A l \in Levels : size[l] = 0 \/ size[l] >= 0
      BY <1>3
    <3> QED BY <1>2, <1>3, <1>4, <2>2, <3>1, <3>2, HeldIs
  <2> QED BY <2>1, <2>2
<1>8. SizeFits(n, 0) /\ 0 <= SumTo(size, 4)
  BY <1>3, SumToNat DEF SizeFits
<1>9. cpuinfo'.D_Cache_Size_per_Core = ByVendor(SumTo(size, k), IF k = 0 THEN 0 ELSE size[k])
      /\ cpuinfo'.size = size
  BY <1>2, <1>5, DetectCachesKeeps
<1>10. PICK core : core = ByVendor(SumTo(size, k), IF k = 0 THEN 0 ELSE size[k])
  OBVIOUS
<1>11. core \in {SumTo(size, k), IF k = 0 THEN 0 ELSE size[k], 0}
  BY <1>10 DEF ByVendor
<1>12. SizeFits(n, core) /\ core <= SumTo(size, 4)
  BY <1>6, <1>7, <1>8, <1>11
<1> QED BY <1>9, <1>10, <1>12 DEF CoreFits, SizeFits

LEMMA SettingsFitSet ==
  ASSUME NEW n \in Nat, LinesFit(n), FoundInv, env \in Environments, CoreFits(n), Settings, pc' # "exit"
  PROVE  SettingsFit(n)'
<1>1. pc \in Detected /\ cpuinfo \in Infos /\ UNCHANGED <<machine, env>>
  BY DEF Settings, Detected, FoundInv, Types
<1>2. /\ cpuinfo'.size = NewSize /\ cpuinfo'.Cacheline_size = NewLine
      /\ cpuinfo'.D_Cache_Size_per_Core = cpuinfo.D_Cache_Size_per_Core
      /\ \A i \in env.flush : NewSize[i] # 0 => NewLine[i] # 0
  BY SettingsKeep
<1>3. /\ NewSize \in [Levels -> Nat] /\ NewLine \in [Levels -> Nat]
      /\ env.L_SIZE \in SETTINGS /\ env.CACHELINE \in CACHELINES
  BY <1>1, SettingsType DEF Environments
<1>4. \A l \in Levels : SizeFits(n, cpuinfo.size[l]) /\ LineFits(n, cpuinfo.Cacheline_size[l])
  BY <1>1, DetectedFit
<1>5. ASSUME NEW l \in Levels PROVE SizeFits(n, NewSize[l]) /\ LineFits(n, NewLine[l])
  <2>1. env.L_SIZE[l] \in {NotSet, 0} \/ env.L_SIZE[l] >= n + 3
    BY <1>3 DEF LinesFit
  <2>2. env.CACHELINE \in (8 .. n) \cup {NotSet}
    BY <1>3 DEF LinesFit
  <2>3. NewSize[l] = IF env.L_SIZE[l] # NotSet THEN env.L_SIZE[l] ELSE cpuinfo.size[l]
    BY DEF NewSize, SetLevels
  <2>4. NewLine[l] = IF env.CACHELINE = NotSet THEN cpuinfo.Cacheline_size[l] ELSE env.CACHELINE
    BY DEF NewLine
  <2>5. SizeFits(n, NewSize[l])
    BY <1>4, <2>1, <2>3 DEF SizeFits
  <2>6. LineFits(n, NewLine[l])
    BY <1>4, <2>2, <2>4 DEF LineFits
  <2> QED BY <2>5, <2>6
<1>6. ASSUME ~Smaller PROVE cpuinfo.D_Cache_Size_per_Core <= SumTo(NewSize, 4)
  <2>1. ASSUME NEW l \in Levels PROVE cpuinfo.size[l] <= NewSize[l]
    <3>1. NewSize[l] = IF env.L_SIZE[l] # NotSet THEN env.L_SIZE[l] ELSE cpuinfo.size[l]
      BY DEF NewSize, SetLevels
    <3>2. cpuinfo.size[l] \in Nat /\ NewSize[l] \in Nat /\ env.L_SIZE[l] \in Nat \cup {NotSet}
      BY <1>1, <1>3, InfoType, SettingsType
    <3>3. CASE DataCaches(machine, l) = {}
      BY <1>1, <3>2, <3>3, DetectedCaches
    <3>4. ASSUME NEW c \in DataCaches(machine, l) PROVE cpuinfo.size[l] <= NewSize[l]
      <4>1. cpuinfo.size[l] = SizeOf(c)
        BY <1>1, <3>4, DetectedCaches
      <4>2. env.L_SIZE[l] \notin 0 .. SizeOf(c) - 1
        BY <1>6, <3>4 DEF Smaller
      <4> QED BY <3>1, <3>2, <4>1, <4>2
    <3> QED BY <3>3, <3>4
  <2>2. cpuinfo.size \in [Levels -> Nat] /\ 4 \in Int
    BY <1>1, InfoType
  <2> PICK old : old = cpuinfo.size
    OBVIOUS
  <2>3. /\ SumTo(old, 4) = old[1] + old[2] + old[3] + old[4]
        /\ old[1] \in Nat /\ old[2] \in Nat /\ old[3] \in Nat /\ old[4] \in Nat
    BY <2>2, SumToIs
  <2>4. /\ SumTo(NewSize, 4) = NewSize[1] + NewSize[2] + NewSize[3] + NewSize[4]
        /\ NewSize[1] \in Nat /\ NewSize[2] \in Nat /\ NewSize[3] \in Nat /\ NewSize[4] \in Nat
    BY <1>3, <2>2, SumToIs
  <2>5. old[1] <= NewSize[1] /\ old[2] <= NewSize[2] /\ old[3] <= NewSize[3] /\ old[4] <= NewSize[4]
    BY <2>1 DEF Levels
  <2>6. SumTo(old, 4) <= SumTo(NewSize, 4)
    BY <2>3, <2>4, <2>5
  <2>7. cpuinfo.D_Cache_Size_per_Core <= SumTo(old, 4) /\ cpuinfo.D_Cache_Size_per_Core \in Nat
        /\ SumTo(old, 4) \in Nat /\ SumTo(NewSize, 4) \in Nat
    BY <1>1, <1>3, <2>2, InfoType, SumToNat DEF CoreFits
  <2> QED BY <2>6, <2>7
<1>7. Smaller' = Smaller
  BY <1>1 DEF Smaller, SizeOf, FixedSize
<1> QED BY <1>1, <1>2, <1>5, <1>6, <1>7 DEF SettingsFit, CoreFits

LEMMA FitInvKept ==
  ASSUME NEW n \in Nat, LinesFit(n), FitInv(n), [Next]_vars
  PROVE  FitInv(n)'
<1>1. BufferInv'
  BY BufferInvKept DEF FitInv
<1>2. FoundInv
  BY DEF FitInv, BufferInv
<1>3. CASE Detect
  BY <1>1, <1>3 DEF Detect, DetectionSteps, ReadCache, CrashAtCache, CachesRead, FitInv
<1>4. CASE DetectCaches
  <2>1. CoreFits(n)' /\ pc' = "settings"
    BY <1>2, <1>4, CoreFitsDetected DEF DetectCaches
  <2> QED BY <1>1, <2>1 DEF FitInv
<1>5. CASE ReadSettings
  <2>1. pc = "settings" /\ pc' = "replace" /\ UNCHANGED cpuinfo
    BY <1>5 DEF ReadSettings
  <2> QED BY <1>1, <2>1 DEF FitInv, CoreFits
<1>6. CASE Settings
  <2>1. pc = "replace" /\ pc' \in {"exit", "allocate"}
    BY <1>6 DEF Settings
  <2>2. env \in Environments /\ CoreFits(n)
    BY <2>1 DEF FitInv, BufferInv
  <2>3. pc' # "exit" => SettingsFit(n)'
    BY <1>2, <1>6, <2>2, SettingsFitSet
  <2> QED BY <1>1, <2>1, <2>3 DEF FitInv
<1>7. CASE Allocate
  <2>1. pc = "allocate" /\ pc' \in {"exit", "ready"} /\ UNCHANGED <<machine, env>>
    BY <1>7 DEF Allocate
  <2>2. env \in Environments /\ SettingsFit(n)
    BY <2>1 DEF FitInv, BufferInv
  <2>3. UNCHANGED <<cpuinfo.size, cpuinfo.Cacheline_size, cpuinfo.D_Cache_Size_per_Core>>
    BY <1>2, <1>7, <2>2, AllocateKeeps
  <2>4. Smaller' = Smaller
    BY <2>1 DEF Smaller, SizeOf, FixedSize
  <2>5. SettingsFit(n)'
    BY <2>1, <2>2, <2>3, <2>4 DEF SettingsFit
  <2> QED BY <1>1, <2>1, <2>5 DEF FitInv
<1>8. CASE Flush \/ FlushAll \/ FlushInUseMemory \/ InvalidateEndlessly \/ UNCHANGED vars
  <2>1. UNCHANGED <<machine, cpuinfo, env>> /\ (pc' = pc \/ (pc = "ready" /\ pc' = "endless"))
    BY <1>8 DEF Flush, FlushAll, FlushCaches, FlushInUseMemory, InvalidateEndlessly, vars
  <2>2. Smaller' = Smaller
    BY <2>1 DEF Smaller, SizeOf, FixedSize
  <2>3. SettingsFit(n)' = SettingsFit(n) /\ CoreFits(n)' = CoreFits(n)
    BY <2>1, <2>2 DEF SettingsFit, CoreFits
  <2> QED BY <1>1, <2>1, <2>3 DEF FitInv
<1> QED BY <1>3, <1>4, <1>5, <1>6, <1>7, <1>8 DEF Next, Stopped

LEMMA StrideIs ==
  ASSUME NEW line \in Nat, line >= 8, NEW accesses \in Nat \ {0}
  PROVE  Max({4, line \div accesses}) \in 4 .. line
<1>1. PICK q : q = line \div accesses
  OBVIOUS
<1>2. q \in Nat /\ q * accesses <= line
  BY <1>1
<1>3. q <= q * accesses
  BY <1>2
<1>4. q * accesses \in Nat
  BY <1>2
<1>5. q <= line
  BY <1>2, <1>3, <1>4
<1>6. Max({4, q}) = IF 4 < q THEN q ELSE 4
  BY <1>2, MaxOfTwo
<1> QED BY <1>1, <1>2, <1>5, <1>6

\* The last access of a pass is behind what the pass covers by less than a stride and an int.
LEMMA PassEnd ==
  ASSUME NEW i \in Levels, FlushBytes(i) \in Nat, NEW d \in Nat \ {0},
         d = Max({4, cpuinfo.Cacheline_size[i] \div env.accesses}),
         NEW x, x = IF env.FLUSH_MODE \in {"E", "R"} THEN d ELSE 0
  PROVE  FlushEnd(i) \in Nat /\ FlushEnd(i) <= FlushBytes(i) + x + 3
<1>1. PICK b \in Nat : b = FlushBytes(i)
  OBVIOUS
<1>2. PICK steps : steps = (b + d - 1) \div d
  OBVIOUS
<1>3. steps \in Nat /\ steps * d <= b + d - 1 /\ (steps # 0 => (steps - 1) * d <= b - 1)
  BY <1>1, <1>2, AccessesReach
<1>4. FlushEnd(i) = IF env.FLUSH_MODE \in {"E", "R"} THEN steps * d + 4 ELSE IF steps = 0 THEN 0 ELSE (steps - 1) * d + 4
  BY <1>1, <1>2 DEF FlushEnd
<1>5. CASE env.FLUSH_MODE \in {"E", "R"}
  <2>1. steps * d \in Nat
    BY <1>3
  <2> QED BY <1>1, <1>3, <1>4, <1>5, <2>1
<1>6. CASE env.FLUSH_MODE \notin {"E", "R"} /\ steps # 0
  <2>1. steps - 1 \in Nat
    BY <1>3, <1>6
  <2>2. (steps - 1) * d \in Nat
    BY <2>1
  <2> QED BY <1>1, <1>3, <1>4, <1>6, <2>2
<1>7. CASE env.FLUSH_MODE \notin {"E", "R"} /\ steps = 0
  BY <1>1, <1>4, <1>7
<1> QED BY <1>5, <1>6, <1>7

LEMMA FlushWithin ==
  ASSUME NEW n \in Nat, FitInv(n), pc \in {"ready", "endless"}, NEW memsize \in Nat,
         NEW i \in FlushedLevels(memsize)
  PROVE  /\ i \in Levels /\ FlushEnd(i) \in Nat
         /\ \/ FlushEnd(i) <= cpuinfo.Cacheflushsize
            \/ /\ WholeArea(i)
               /\ FlushEnd(i) < cpuinfo.Cacheflushsize + 4
                                 + (IF env.FLUSH_MODE \in {"E", "R"} THEN cpuinfo.Cacheline_size[i] ELSE 0)
<1>1. /\ BufferInv /\ env \in Environments /\ cpuinfo \in Infos /\ SettingsFit(n)
      /\ cpuinfo.Cacheflushsize >= CACHEFLUSHSIZE
  BY DEF FitInv, BufferInv, FoundInv, Types
<1>2. i \in Levels /\ i <= cpuinfo.Cachelevels /\ Enabled(i)
  BY <1>1, FlushedEnabled
<1> PICK size : size = cpuinfo.size
  OBVIOUS
<1>3. /\ size \in [Levels -> Nat] /\ cpuinfo.Cacheline_size \in [Levels -> Nat] /\ cpuinfo.Cacheflushsize \in Nat
      /\ cpuinfo.Cachelevels \in Int
  BY <1>1, InfoType
<1>4. size[i] >= n + 3 /\ cpuinfo.Cacheline_size[i] \in 8 .. n
  BY <1>1, <1>2 DEF SettingsFit, SizeFits, LineFits, Enabled
<1>5. PICK h, s, e, b, r :
        h = Held(i) /\ s = SumTo(size, 4) /\ e = EXTRA_FLUSH_SIZE /\ b = FlushBytes(i) /\ r = CACHEFLUSHSIZE
  OBVIOUS
<1>6. /\ h \in Nat /\ s \in Nat /\ s >= size[i]
      /\ h = s \/ h + (n + 3) <= s
  <2>1. \A l \in Levels : size[l] = 0 \/ size[l] >= n + 3
    BY <1>1 DEF SettingsFit, SizeFits
  <2>2. n + 3 \in Nat
    OBVIOUS
  <2>3. PICK m \in Nat : m = n + 3
    BY <2>2
  <2>4. \A l \in Levels : size[l] = 0 \/ size[l] >= m
    BY <2>1, <2>3
  <2>5. /\ Held(i) \in Nat /\ SumTo(size, 4) \in Nat /\ SumTo(size, 4) >= size[i]
        /\ Held(i) = SumTo(size, 4) \/ Held(i) + m <= SumTo(size, 4)
    BY <1>2, <1>3, <2>4, HeldIs
  <2> QED BY <1>5, <2>3, <2>5
<1>7. e \in Nat /\ e >= 100 /\ n + 3 \in Nat
  BY <1>1, <1>5, EnvironmentType
<1>8. b = (IF i = cpuinfo.Cachelevels THEN 2 * (h * e) ELSE h * e) \div 100 /\ r = (s * e) \div 50
  BY <1>5 DEF FlushBytes, CACHEFLUSHSIZE
<1>9. /\ (h * e) \div 100 \in Nat /\ (2 * (h * e)) \div 100 \in Nat /\ (s * e) \div 50 \in Nat
      /\ h <= s => 2 * ((h * e) \div 100) <= (s * e) \div 50
      /\ s >= n + 3 => (s * e) \div 50 >= 2 * (n + 3)
      /\ h + (n + 3) <= s => (2 * (h * e)) \div 100 + 2 * (n + 3) <= (s * e) \div 50
      /\ h = s => (2 * (h * e)) \div 100 = (s * e) \div 50
  BY <1>6, <1>7, TwicePercent
<1>10. b \in Nat /\ r \in Nat /\ r >= 2 * (n + 3)
  <2>1. size[i] \in Nat
    BY <1>2, <1>3
  <2>2. s >= n + 3
    BY <1>4, <1>6, <2>1
  <2> QED BY <1>8, <1>9, <2>2
<1>11. PICK line : line = cpuinfo.Cacheline_size[i]
  OBVIOUS
<1>12. PICK d : d = Max({4, line \div env.accesses})
  OBVIOUS
<1>13. d \in 4 .. line /\ line \in 8 .. n
  BY SMTT(30), <1>1, <1>4, <1>11, <1>12, EnvironmentType, StrideIs
<1>14. PICK x : x = IF env.FLUSH_MODE \in {"E", "R"} THEN d ELSE 0
  OBVIOUS
<1>15. PICK end \in Nat : end = FlushEnd(i) /\ end <= b + x + 3
  <2>1. d \in Nat \ {0}
    BY <1>13
  <2> QED BY <1>2, <1>5, <1>10, <1>11, <1>12, <1>14, <2>1, PassEnd
<1>16. x \in 0 .. n /\ x <= IF env.FLUSH_MODE \in {"E", "R"} THEN line ELSE 0
  BY <1>13, <1>14
<1>17. CASE i # cpuinfo.Cachelevels
  <2>1. h <= s
    BY <1>6
  <2>2. 2 * b <= r
    BY <1>8, <1>9, <1>17, <2>1
  <2>3. end <= r
    BY <1>10, <1>15, <1>16, <2>2
  <2> QED BY <1>1, <1>2, <1>3, <1>5, <1>10, <1>15, <2>3
<1>18. CASE i = cpuinfo.Cachelevels /\ h # s
  <2>1. b + 2 * (n + 3) <= r
    BY <1>6, <1>8, <1>9, <1>18
  <2>2. end <= r
    BY <1>10, <1>15, <1>16, <2>1
  <2> QED BY <1>1, <1>2, <1>3, <1>5, <1>10, <1>15, <2>2
<1>19. CASE i = cpuinfo.Cachelevels /\ h = s
  <2>1. WholeArea(i)
    BY <1>5, <1>19 DEF WholeArea
  <2>2. b = r
    BY <1>8, <1>9, <1>19
  <2>3. PICK a \in Nat : a = cpuinfo.Cacheflushsize /\ a >= r
    BY <1>1, <1>3, <1>5
  <2>4. PICK more \in Nat : more = (IF env.FLUSH_MODE \in {"E", "R"} THEN line ELSE 0) /\ x <= more
    BY <1>13, <1>16
  <2>5. end < a + 4 + more
    BY <1>10, <1>15, <1>16, <2>2, <2>3, <2>4
  <2> QED BY <1>2, <1>11, <1>15, <2>1, <2>3, <2>4, <2>5
<1> QED BY <1>17, <1>18, <1>19

LEMMA StrideFits ==
  ASSUME NEW n \in Nat, LinesFit(n), SettingsFit(n), cpuinfo \in Infos, Stride # 0
  PROVE  Stride \in 8 .. n
<1> DEFINE S == {LINE} \cup {cpuinfo.Cacheline_size[i] : i \in 1 .. cpuinfo.Cachelevels}
<1>1. cpuinfo.Cacheline_size \in [Levels -> Nat] /\ 1 .. cpuinfo.Cachelevels \subseteq Levels
  BY InfoType DEF Levels
<1>2. LINE \in 8 .. n /\ \A i \in Levels : LineFits(n, cpuinfo.Cacheline_size[i])
  BY DEF LinesFit, SettingsFit
<1>3. \A q \in S : q \in Nat /\ (q = 0 \/ q \in 8 .. n)
  BY <1>1, <1>2 DEF LineFits
<1>4. S \in SUBSET Nat /\ S # {} /\ Stride = Min(S)
  BY <1>3 DEF Stride
<1> HIDE DEF S
<1>5. PICK p \in S : \A q \in S : p <= q
  BY <1>4, LeastNumber
<1>6. Min(S) = p
  BY <1>4, <1>5, MinIs
<1> QED BY <1>3, <1>4, <1>5, <1>6

LEMMA UseMemoryWithin ==
  ASSUME NEW n \in Nat, LinesFit(n), FitInv(n), pc \in {"ready", "endless"}, UseMemoryPass
  PROVE  \/ last.end <= cpuinfo.Cacheflushsize
         \/ Smaller \/ cpuinfo.D_Cache_Size_per_Core = 0
<1> SUFFICES ASSUME ~Smaller, cpuinfo.D_Cache_Size_per_Core # 0
             PROVE  last.end <= cpuinfo.Cacheflushsize
  OBVIOUS
<1>1. /\ BufferInv /\ env \in Environments /\ cpuinfo \in Infos /\ SettingsFit(n)
      /\ cpuinfo.Cacheflushsize >= CACHEFLUSHSIZE
  BY DEF FitInv, BufferInv, FoundInv, Types
<1>2. PICK c, s, e, d : /\ c = cpuinfo.D_Cache_Size_per_Core /\ s = SumTo(cpuinfo.size, 4)
                        /\ e = EXTRA_FLUSH_SIZE /\ d = Stride
  OBVIOUS
<1>3. d \in 8 .. n
  BY <1>1, <1>2, StrideFits DEF UseMemoryPass
<1>4. c \in Nat /\ c >= n + 3 /\ c <= s /\ s \in Nat /\ cpuinfo.Cacheflushsize \in Nat
  BY <1>1, <1>2, InfoType, SumToNat DEF SettingsFit, SizeFits
<1>5. e \in Nat /\ e >= 100 /\ n + 3 \in Nat
  BY <1>1, <1>2, EnvironmentType
<1>6. PICK bytes \in Nat : bytes = (c * e) \div 50
  BY <1>4, <1>5, TwicePercent
<1>7. bytes >= 2 * (n + 3)
  BY <1>4, <1>5, <1>6, TwicePercent
<1>8. bytes <= CACHEFLUSHSIZE /\ CACHEFLUSHSIZE \in Nat
  <2>1. c * e \in Nat /\ s * e \in Nat /\ c * e <= s * e
    BY <1>4, <1>5
  <2>2. (c * e) \div 50 <= (s * e) \div 50 /\ (s * e) \div 50 \in Nat
    BY <2>1
  <2> QED BY <1>2, <1>6, <2>2 DEF CACHEFLUSHSIZE
<1>9. PICK passes : passes = bytes \div d
  OBVIOUS
<1>10. passes \in Nat /\ passes * d <= bytes /\ bytes < passes * d + d
  BY <1>3, <1>9
<1>11. passes # 0
  BY <1>3, <1>7, <1>10
<1>12. (passes - 1) * d = passes * d - d /\ passes * d \in Nat
  BY <1>3, <1>10
<1>13. last.end = (passes - 1) * d + 8
  BY <1>2, <1>6, <1>9, <1>11 DEF UseMemoryPass
<1> QED BY <1>1, <1>3, <1>4, <1>8, <1>10, <1>12, <1>13

LEMMA OverrunsWithin ==
  ASSUME NEW n \in Nat, LinesFit(n), FitInv(n)
  PROVE  OverrunsKnown
<1>1. cpuinfo.Cacheflushsize \in Nat
  BY InfoType DEF FitInv, BufferInv, FoundInv, Types
<1>2. last.what \in {"none", "FLUSH", "FLUSH_ALL", "USE_MEMORY"}
  BY DEF FitInv, BufferInv
<1>3. CASE last.what = "none"
  BY <1>1, <1>3 DEF FitInv, BufferInv, NoPass, OverrunsKnown
<1>4. ASSUME last.what # "none" PROVE pc \in {"ready", "endless"}
  BY <1>4 DEF FitInv, BufferInv, NoPass
<1>5. CASE last.what \in {"FLUSH", "FLUSH_ALL"}
  <2>1. FlushPass /\ pc \in {"ready", "endless"}
    BY <1>4, <1>5 DEF FitInv, BufferInv
  <2>2. \A i \in last.levels :
          /\ i \in Levels /\ FlushEnd(i) \in Nat
          /\ \/ FlushEnd(i) <= cpuinfo.Cacheflushsize
             \/ /\ WholeArea(i)
                /\ FlushEnd(i) < cpuinfo.Cacheflushsize + 4
                                  + (IF env.FLUSH_MODE \in {"E", "R"} THEN cpuinfo.Cacheline_size[i] ELSE 0)
    BY <2>1, FlushWithin DEF FlushPass
  <2> DEFINE value == [l \in Levels |-> FlushEnd(l)]
  <2>3. /\ last.levels \in SUBSET Levels /\ \A l \in last.levels : value[l] \in Nat /\ value[l] = FlushEnd(l)
        /\ {value[l] : l \in last.levels} = {FlushEnd(l) : l \in last.levels}
    BY <2>2
  <2> HIDE DEF value
  <2>4. LET max == Max({0} \cup {value[l] : l \in last.levels})
        IN  max = 0 \/ \E l \in last.levels : max = value[l]
    BY <2>3, MaxOver
  <2>5. last.end = Max({0} \cup {value[l] : l \in last.levels})
    BY <2>1, <2>3 DEF FlushPass
  <2>6. last.end = 0 \/ \E i \in last.levels : last.end = FlushEnd(i)
    BY <2>3, <2>4, <2>5
  <2>7. CASE last.end = 0
    BY <1>1, <2>7 DEF OverrunsKnown
  <2>8. ASSUME NEW i \in last.levels, last.end = FlushEnd(i) PROVE OverrunsKnown
    BY <1>5, <2>2, <2>8 DEF OverrunsKnown
  <2> QED BY <2>6, <2>7, <2>8
<1>6. CASE last.what = "USE_MEMORY"
  <2>1. UseMemoryPass /\ pc \in {"ready", "endless"}
    BY <1>4, <1>6 DEF FitInv, BufferInv
  <2> QED BY <1>6, <2>1, UseMemoryWithin DEF OverrunsKnown
<1> QED BY <1>2, <1>3, <1>5, <1>6

\* Whatever the caches, if every one is larger than a line: a pass leaves the flush area only
\* where it covers all of it, by less than an int and, in the modes that read, a line; and in
\* use_memory() only if PARAMETERS makes a cache smaller or no size was detected.
THEOREM OverrunsAreKnown ==
  ASSUME NEW n \in Nat, LinesFit(n)
  PROVE  Spec => []OverrunsKnown
<1>1. Init => FitInv(n)
  BY BufferInvInitially DEF Init, InitDetection, FitInv
<1>2. FitInv(n) /\ [Next]_vars => FitInv(n)'
  BY FitInvKept
<1>3. FitInv(n) => OverrunsKnown
  BY OverrunsWithin
<1> QED BY <1>1, <1>2, <1>3, PTL DEF Spec
----------------------------------------------------------------------------
(***************************************************************************)
(* The loops that are measured, and the kernel module that lets them read  *)
(* the cycle counter.  The invariant of the kernel module says on which    *)
(* CPUs init() or fini() has been already.                                 *)
(***************************************************************************)
\* What the two functions do to the CPU they run on, and to no other.
LEMMA OnOneCpu ==
  ASSUME TypeOK, NEW c \in CPUS
  PROVE  /\ EnableCpuCounters(c) =>
              CountersEnabled(c)' /\ \A d \in CPUS \ {c} : CountersEnabled(d) => CountersEnabled(d)'
         /\ DisableCpuCounters(c) =>
              ~Readable(c)' /\ \A d \in CPUS \ {c} : ~Readable(d) => ~Readable(d)'
  BY DEF TypeOK, EnableCpuCounters, DisableCpuCounters, Write, Resets, Bits,
         UserBits, CountersEnabled, Readable, Counting, EveryCycle

\* The functions keep the registers in their types.
LEMMA OnOneCpuTypes ==
  ASSUME TypeOK, NEW c \in CPUS, EnableCpuCounters(c) \/ DisableCpuCounters(c)
  PROVE  /\ pmcr' \in [CPUS -> SUBSET (Bits \ Resets)]
         /\ pmcntenset' \in [CPUS -> BOOLEAN]
         /\ pmuserenr' \in [CPUS -> SUBSET UserBits]
<1>1. \E bits \in SUBSET (Bits \ Resets) : pmcr' = [pmcr EXCEPT ![c] = bits]
  BY DEF TypeOK, EnableCpuCounters, DisableCpuCounters, Write, Resets, Bits
<1>2. \E b \in BOOLEAN : pmcntenset' = [pmcntenset EXCEPT ![c] = b]
  <2>1. pmcntenset[c] \in BOOLEAN /\ pmcntenset = [pmcntenset EXCEPT ![c] = pmcntenset[c]]
    BY DEF TypeOK
  <2> QED
    BY <2>1 DEF EnableCpuCounters, DisableCpuCounters
<1>3. \E bits \in SUBSET UserBits : pmuserenr' = [pmuserenr EXCEPT ![c] = bits]
  BY DEF EnableCpuCounters, DisableCpuCounters, UserBits
<1> QED
  BY <1>1, <1>2, <1>3 DEF TypeOK

\* A step that leaves the registers alone leaves the CPUs as they are.
LEMMA SameRegisters ==
  ASSUME UNCHANGED registers
  PROVE  \A c \in CPUS : CountersEnabled(c)' = CountersEnabled(c) /\ Readable(c)' = Readable(c)
  BY DEF registers, CountersEnabled, Readable, Counting, EveryCycle

\* Nothing is loaded, and no CPU lets programs read.
LEMMA InitInv == InitPmu => PmuInv
  BY PmuAssumption
     DEF InitPmu, PmuInv, TypeOK, Bits, Resets, UserBits, Readable

\* Every step of the module keeps the invariant.
LEMMA NextInv == PmuInv /\ [NextPmu]_pmuvars => PmuInv'
<1> SUFFICES ASSUME PmuInv, [NextPmu]_pmuvars PROVE PmuInv'
  OBVIOUS
<1>t. TypeOK
  BY DEF PmuInv
<1>1. CASE UNCHANGED pmuvars
  BY <1>1 DEF pmuvars, registers, PmuInv, TypeOK, CountersEnabled, Readable, Counting, EveryCycle
<1>2. CASE Insmod
  <2>1. UNCHANGED registers
    BY <1>2 DEF Insmod, Begin
  <2>2. TypeOK'
    BY <1>2, <2>1, <1>t, PmuAssumption DEF Insmod, Begin, registers, TypeOK
  <2> QED
    BY <1>2, <2>2 DEF Insmod, Begin, PmuInv
<1>3. CASE Rmmod
  <2>1. UNCHANGED registers
    BY <1>3 DEF Rmmod, Begin
  <2>2. TypeOK'
    BY <1>3, <2>1, <1>t DEF Rmmod, Begin, registers, TypeOK
  <2> QED
    BY <1>3, <2>2 DEF Rmmod, Begin, PmuInv
<1>4. ASSUME NEW c \in CPUS, OnCpu(c, "init"), EnableCpuCounters(c) PROVE PmuInv'
  <2>1. module = "init" /\ EnableCpuCounters(c)
        /\ called' = called \cup {c} /\ UNCHANGED <<module, loads>>
    BY <1>4 DEF OnCpu
  <2>2. TypeOK'
    BY <2>1, <1>t, OnOneCpuTypes DEF TypeOK
  <2>3. \A d \in called' : CountersEnabled(d)'
    BY <2>1, <1>t, OnOneCpu DEF PmuInv, TypeOK
  <2> QED
    BY <2>1, <2>2, <2>3 DEF PmuInv
<1>5. ASSUME NEW c \in CPUS, OnCpu(c, "fini"), DisableCpuCounters(c) PROVE PmuInv'
  <2>1. module = "fini" /\ DisableCpuCounters(c)
        /\ called' = called \cup {c} /\ UNCHANGED <<module, loads>>
    BY <1>5 DEF OnCpu
  <2>2. TypeOK'
    BY <2>1, <1>t, OnOneCpuTypes DEF TypeOK
  <2>3. \A d \in called' : ~Readable(d)'
    BY <2>1, <1>t, OnOneCpu DEF PmuInv, TypeOK
  <2> QED
    BY <2>1, <2>2, <2>3 DEF PmuInv
<1>6. CASE OnEachReturns("init", "loaded")
  <2>1. UNCHANGED registers /\ called = CPUS /\ module = "init" /\ module' = "loaded"
        /\ UNCHANGED <<called, loads>>
    BY <1>6 DEF OnEachReturns
  <2>2. TypeOK'
    BY <2>1, <1>t DEF registers, TypeOK
  <2>3. \A c \in CPUS : CountersEnabled(c)'
    BY <2>1, SameRegisters DEF PmuInv
  <2> QED
    BY <2>1, <2>2, <2>3 DEF PmuInv
<1>7. CASE OnEachReturns("fini", "unloaded")
  <2>1. UNCHANGED registers /\ called = CPUS /\ module = "fini" /\ module' = "unloaded"
        /\ UNCHANGED <<called, loads>>
    BY <1>7 DEF OnEachReturns
  <2>2. TypeOK'
    BY <2>1, <1>t DEF registers, TypeOK
  <2>3. \A c \in CPUS : ~Readable(c)'
    BY <2>1, SameRegisters DEF PmuInv
  <2> QED
    BY <2>1, <2>2, <2>3 DEF PmuInv
<1> QED
  BY <1>1, <1>2, <1>3, <1>4, <1>5, <1>6, <1>7 DEF NextPmu

\* The invariant holds in every state.
THEOREM PmuInvariant == SpecPmu => []PmuInv
  BY InitInv, NextInv, PTL DEF SpecPmu

\* While the module is loaded the time stamp works on every CPU.
THEOREM Timestamps == SpecPmu => []TimestampWorks
<1>1. PmuInv => TimestampWorks
  BY DEF PmuInv, TimestampWorks
<1> QED
  BY <1>1, PmuInvariant, PTL

\* A module that is not loaded lets no program read the counter.
THEOREM Withdrawal == SpecPmu => []AccessWithdrawn
<1>1. PmuInv => AccessWithdrawn
  BY DEF PmuInv, AccessWithdrawn
<1> QED
  BY <1>1, PmuInvariant, PTL
----------------------------------------------------------------------------
Measurements == [bytes : Nat, duration : Nat]
Readings        == [from : Nat, to : Nat, bytes : Nat]

\* Every variable has its type, and a target is one of the threads.
LoopTypeOK ==
  /\ setup \in SETUPS
  /\ lpc \in {"idle", "target", "prefetch", "start", "loop", "report", "killed"}
  /\ target \in 0 .. NUM_RESULTS
  /\ lpc \in {"prefetch", "start", "loop", "report"} => target < NUM_RESULTS
  /\ run \in Nat /\ read \in Readings
  /\ tmax \in Measurements /\ samples \subseteq Measurements
  /\ results \in [0 .. NUM_RESULTS - 1 -> [bytes : Nat \cup {-1}, duration : Nat]]

\* What the last call of a loop read is right for the setup.
ReadRight ==
  LET used == IF setup.function = 1 THEN setup.memsize \div 2 ELSE setup.memsize
  IN  /\ read.to <= used
      /\ used - read.to < TheLoop.loads * TheLoop.size
      /\ read.bytes = read.to - read.from

\* The best run so far.
BestSoFar ==
  \/ tmax = Zero /\ samples \subseteq {Zero}
  \/ /\ tmax \in samples \ {Zero}
     /\ \A r \in samples \ {Zero} : tmax.duration <= r.duration

\* The inductive invariant: a loop is only entered when it exists and for at least a
\* pass; what it read and the best run keep until the next run or target.
LoopInv ==
  /\ LoopTypeOK
  /\ lpc = "idle" /\ target = 0 => read.to = 0
  /\ lpc \in {"start", "loop"} => HasLoop(setup)
  /\ lpc = "loop" => Passes > 0
  /\ lpc \in {"idle", "target", "prefetch", "report"} /\ read.to > 0 => ReadRight
  /\ lpc \in {"prefetch", "start", "loop", "report"} => BestSoFar
----------------------------------------------------------------------------
(***************************************************************************)
(* Lemmas about the loops.                                                 *)
(***************************************************************************)

\* Every loop reads as many 16-byte words in a pass as its divisor says.
LEMMA LoopShape ==
  ASSUME HasLoop(setup)
  PROVE  \E n \in {64, 66} :
           /\ TheLoop.loads = n /\ TheLoop.divisor = n /\ TheLoop.counted = n
           /\ TheLoop.size = 16
           /\ setup.function \in {0, 1}
           /\ setup.function = 1 => n = 64
<1>1. CASE setup.function = 0
  <2>1. DOMAIN Loops[0] = {1, 2, 3, 4, 8}
    BY DEF Loops
  <2>2. setup.burst \in {1, 2, 3, 4, 8}
    BY <1>1, <2>1 DEF HasLoop
  <2>3. TheLoop \in {Straight(64, TRUE), Straight(66, TRUE), Straight(64, FALSE)}
    BY <1>1, <2>2 DEF TheLoop, Loops, Loop_ld1_1, Loop_ld1_2, Loop_ld1_3, Loop_ld1_4, Loop_ld1_8
  <2> QED BY <1>1, <2>3 DEF Straight
<1>2. CASE setup.function = 1
  <2>1. setup.burst = 8
    BY <1>2 DEF HasLoop, Loops
  <2>2. TheLoop = Straight(64, FALSE)
    BY <1>2, <2>1 DEF TheLoop, Loops, Loop_ldr128_8
  <2> QED BY <1>2, <2>2 DEF Straight
<1> QED BY <1>1, <1>2 DEF HasLoop, Loops

\* Division: what passes read of the accesses.
LEMMA Quotient ==
  ASSUME NEW a \in Nat, NEW d \in Nat \ {0}
  PROVE  a \div d \in Nat /\ (a \div d) * d <= a /\ a < (a \div d) * d + d
OBVIOUS

\* All passes of a loop read the data that was placed, but for less than a pass.
LEMMA PassesRead ==
  ASSUME HasLoop(setup), setup.memsize \in Nat
  PROVE  /\ Passes \in Nat
         /\ LET to   == Passes * TheLoop.loads * TheLoop.size
                used == IF setup.function = 1 THEN setup.memsize \div 2 ELSE setup.memsize
            IN  /\ to \in Nat /\ to <= used /\ used - to < TheLoop.loads * TheLoop.size
                /\ Passes * TheLoop.counted * 16 = to
                /\ Passes > 0 => to > 0
<1>1. PICK n \in {64, 66} :
        /\ TheLoop.loads = n /\ TheLoop.divisor = n /\ TheLoop.counted = n
        /\ TheLoop.size = 16
        /\ setup.function \in {0, 1}
        /\ setup.function = 1 => n = 64
  BY LoopShape
<1>2. CASE setup.function = 0
  <2>1. Accesses = setup.memsize \div 16
    BY <1>2 DEF Accesses, DtSize
  <2>2. Passes = (setup.memsize \div 16) \div n
    BY <1>1, <2>1 DEF Passes
  <2>3. CASE n = 64
    BY <1>1, <1>2, <2>2, <2>3
  <2>4. CASE n = 66
    BY <1>1, <1>2, <2>2, <2>4
  <2> QED BY <2>3, <2>4
<1>3. CASE setup.function = 1
  <2>1. Accesses = setup.memsize \div 32
    BY <1>3 DEF Accesses, DtSize
  <2>2. Passes = (setup.memsize \div 32) \div 64
    BY <1>1, <1>3, <2>1 DEF Passes
  <2> QED BY <1>1, <1>3, <2>2
<1> QED BY <1>1, <1>2, <1>3
----------------------------------------------------------------------------
(***************************************************************************)
(* The invariant.                                                          *)
(***************************************************************************)
LEMMA LoopInitially == InitLoop => LoopInv
<1> SUFFICES ASSUME InitLoop PROVE LoopInv
  OBVIOUS
<1>1. setup \in SETUPS
  BY MeasuredLoopAssumption DEF InitLoop
<1>2. LoopTypeOK
  BY <1>1, MeasuredLoopAssumption
  DEF InitLoop, LoopTypeOK, Measurements, Readings, Zero, Nothing, Invalid
<1> QED BY <1>2 DEF InitLoop, LoopInv, Nothing

\* A run that counts is better than none, and than one that took longer.
LEMMA BestKept ==
  ASSUME LoopTypeOK, BestSoFar, NEW r \in Measurements, r # Zero,
         tmax' = (IF Faster(r, tmax) THEN r ELSE tmax), samples' = samples \cup {r}
  PROVE  BestSoFar'
<1>1. CASE tmax = Zero
  BY <1>1 DEF BestSoFar, Faster, Zero, Measurements
<1>2. CASE tmax # Zero
  BY <1>2 DEF BestSoFar, Faster, LoopTypeOK, Measurements
<1> QED BY <1>1, <1>2

LEMMA LoopStep == LoopInv /\ Work => LoopInv'
<1> SUFFICES ASSUME LoopInv, Work PROVE LoopInv'
  OBVIOUS
<1> USE DEF LoopInv
<1>0. LoopTypeOK /\ setup.memsize \in Nat
  BY MeasuredLoopAssumption DEF LoopTypeOK
<1>1. ASSUME NEW s \in SETUPS, BeginWork(s) PROVE LoopInv'
  <2>1. LoopTypeOK'
    BY <1>0, <1>1 DEF BeginWork, LoopTypeOK
  <2> QED BY <1>0, <1>1, <2>1 DEF BeginWork
<1>2. CASE BeginTarget
  <2>1. LoopTypeOK'
    BY <1>0, <1>2 DEF BeginTarget, LoopTypeOK, Zero, Measurements
  <2>2. ReadRight <=> ReadRight'
    BY <1>2 DEF BeginTarget, ReadRight, TheLoop
  <2> QED BY <1>0, <1>2, <2>1, <2>2 DEF BeginTarget, BestSoFar
<1>3. CASE PrefetchCode
  <2>1. PICK n \in {64, 66} : /\ TheLoop.divisor = n /\ TheLoop.loads = n /\ TheLoop.size = 16
    BY <1>3, LoopShape DEF PrefetchCode
  <2>2. 48 \div TheLoop.divisor = 0
    BY <2>1
  <2>3. read' \in Readings
    BY <1>3, <2>1, <2>2 DEF PrefetchCode, Readings, Nothing
  <2>4. LoopTypeOK'
    BY <1>0, <1>3, <2>3 DEF PrefetchCode, LoopTypeOK
  <2> QED BY <1>0, <1>3, <2>4 DEF PrefetchCode, BestSoFar, HasLoop
<1>4. CASE NoLoop
  <2>1. LoopTypeOK'
    BY <1>0, <1>4 DEF NoLoop, NextRun, LoopTypeOK, Zero, Measurements
  <2>2. ReadRight <=> ReadRight'
    BY <1>4 DEF NoLoop, ReadRight, TheLoop
  <2>3. BestSoFar'
    BY <1>4 DEF NoLoop, BestSoFar
  <2> QED BY <1>0, <1>4, <2>1, <2>2, <2>3 DEF NoLoop, NextRun
<1>5. CASE TooSmall
  <2>1. LoopTypeOK'
    BY <1>0, <1>5 DEF TooSmall, NextRun, LoopTypeOK, Zero, Nothing, Measurements, Readings
  <2>2. BestSoFar'
    BY <1>5 DEF TooSmall, BestSoFar
  <2> QED BY <1>0, <1>5, <2>1, <2>2 DEF TooSmall, NextRun, Nothing
<1>6. CASE Start
  <2>1. LoopTypeOK'
    BY <1>0, <1>6 DEF Start, LoopTypeOK, Nothing, Readings
  <2>2. Passes' = Passes /\ HasLoop(setup')
    BY <1>6 DEF Start, Passes, Accesses, TheLoop, HasLoop
  <2> QED BY <1>0, <1>6, <2>1, <2>2 DEF Start, BestSoFar
<1>7. CASE StartOverwritten
  <2>1. LoopTypeOK'
    BY <1>0, <1>7 DEF StartOverwritten, LoopTypeOK
  <2> QED BY <1>0, <1>7, <2>1 DEF StartOverwritten
<1>8. ASSUME NEW time \in TIMES, ReadLoop(time) PROVE LoopInv'
  <2>1. CASE ~Readable(MASTER)
    <3>1. LoopTypeOK'
      BY <1>0, <1>8, <2>1 DEF ReadLoop, LoopTypeOK
    <3> QED BY <1>0, <1>8, <2>1, <3>1 DEF ReadLoop
  <2>2. CASE Readable(MASTER)
    <3> DEFINE took   == IF Counting(MASTER) THEN time ELSE 0
               to     == Passes * TheLoop.loads * TheLoop.size
               bytes  == Passes * TheLoop.counted * 16
               result == [bytes |-> bytes, duration |-> (took - OVERHEAD) % WRAP]
    <3>1. /\ Passes \in Nat /\ to \in Nat /\ bytes = to /\ to > 0
          /\ LET used == IF setup.function = 1 THEN setup.memsize \div 2 ELSE setup.memsize
             IN  to <= used /\ used - to < TheLoop.loads * TheLoop.size
      BY <1>0, <1>8, PassesRead DEF ReadLoop
    <3>2. (took - OVERHEAD) % WRAP \in Nat
      BY MeasuredLoopAssumption
    <3>3. result \in Measurements /\ result # Zero
      BY <3>1, <3>2 DEF Measurements, Zero
    <3>4. /\ read' = [from |-> 0, to |-> to, bytes |-> bytes]
          /\ tmax' = (IF Faster(result, tmax) THEN result ELSE tmax)
          /\ samples' = samples \cup {result}
          /\ NextRun /\ setup' = setup /\ target' = target /\ results' = results
      BY <1>8, <2>2 DEF ReadLoop
    <3> HIDE DEF took, to, bytes, result
    <3>5. LoopTypeOK'
      BY <1>0, <1>8, <3>1, <3>3, <3>4 DEF ReadLoop, NextRun, LoopTypeOK, Readings
    <3>6. BestSoFar'
      BY <1>0, <1>8, <3>3, <3>4, BestKept DEF ReadLoop
    <3>7. TheLoop' = TheLoop
      BY <3>4 DEF TheLoop
    <3>8. ReadRight'
      BY <3>1, <3>4, <3>7 DEF ReadRight
    <3>9. lpc' \in {"prefetch", "report"}
      BY <3>4 DEF NextRun
    <3> QED BY <3>5, <3>6, <3>8, <3>9
  <2> QED BY <2>1, <2>2
<1>9. CASE EndTarget
  <2>1. results' \in [0 .. NUM_RESULTS - 1 -> [bytes : Nat \cup {-1}, duration : Nat]]
    BY <1>0, <1>9 DEF EndTarget, LoopTypeOK, Measurements, Invalid
  <2>2. LoopTypeOK'
    BY <1>0, <1>9, <2>1, MeasuredLoopAssumption DEF EndTarget, LoopTypeOK
  <2>3. ReadRight <=> ReadRight'
    BY <1>9 DEF EndTarget, ReadRight, TheLoop
  <2>4. target' # 0
    BY <1>0, <1>9 DEF EndTarget, LoopTypeOK
  <2> QED BY <1>0, <1>9, <2>2, <2>3, <2>4 DEF EndTarget
<1> QED BY <1>1, <1>2, <1>3, <1>4, <1>5, <1>6, <1>7, <1>8, <1>9 DEF Work

LEMMA LoopStutters == LoopInv /\ UNCHANGED loopvars => LoopInv'
BY DEF LoopInv, LoopTypeOK, BestSoFar, ReadRight, HasLoop, Passes, Accesses, TheLoop, loopvars

\* LoopInv is an invariant, whatever the kernel module does meanwhile.
THEOREM LoopInvariant == SpecLoop => []LoopInv
<1>1. LoopInv /\ [NextLoop]_allvars => LoopInv'
  BY LoopStep, LoopStutters DEF NextLoop, allvars
<1> QED BY <1>1, LoopInitially, PTL DEF SpecLoop

\* For data sets of every size, what a measurement reads is what was placed for it.
THEOREM ReadsPlaced == SpecLoop => []ReadsWhatWasPlaced
<1>1. LoopInv => ReadsWhatWasPlaced
  BY DEF LoopInv, ReadsWhatWasPlaced, Measured, ReadRight
<1> QED BY <1>1, LoopInvariant, PTL

\* For data sets of every size, the bytes counted are the bytes read.
THEOREM CountsRead == SpecLoop => []CountsWhatWasRead
<1>1. LoopInv => CountsWhatWasRead
  BY DEF LoopInv, CountsWhatWasRead, Measured, ReadRight
<1> QED BY <1>1, LoopInvariant, PTL

\* For any times and numbers of runs, the fastest run of each thread is reported.
THEOREM Fastest == SpecLoop => FastestReported
<1> DEFINE Reported ==
       lpc = "report" /\ lpc' # "report" =>
         LET valid == samples \ {Zero}
         IN  IF valid = {} THEN results'[target] = Invalid
             ELSE /\ results'[target] \in valid
                  /\ \A v \in valid : results'[target].duration <= v.duration
<1>1. ASSUME LoopInv, [NextLoop]_allvars PROVE [Reported]_allvars
  <2>1. CASE UNCHANGED allvars
    BY <2>1
  <2>2. CASE NextLoop
    <3> SUFFICES ASSUME lpc = "report", lpc' # "report" PROVE Reported
      OBVIOUS
    <3>1. EndTarget
      BY <2>2 DEF NextLoop, Work, loopvars, BeginWork, BeginTarget, PrefetchCode, NoLoop,
                  TooSmall, Start, StartOverwritten, ReadLoop
    <3>2. results'[target] = (IF tmax = Zero THEN Invalid ELSE tmax)
      BY <1>1, <3>1, MeasuredLoopAssumption DEF EndTarget, LoopInv, LoopTypeOK
    <3>3. BestSoFar
      BY <1>1 DEF LoopInv
    <3> QED BY <3>2, <3>3 DEF BestSoFar
  <2> QED BY <1>1, <2>1, <2>2
<1> QED BY <1>1, LoopInvariant, PTL DEF SpecLoop, FastestReported

\* While a kernel runs the kernel module is loaded and unloaded as PmuModule says.
THEOREM LoopImplementsPmu == SpecLoop => SpecPmu
<1>1. InitLoop => InitPmu
  BY DEF InitLoop
<1>2. [NextLoop]_allvars => [NextPmu]_pmuvars
  BY DEF NextLoop, allvars
<1> QED BY <1>1, <1>2, PTL DEF SpecLoop, SpecPmu

\* Time stamps work while a kernel measures and the module is loaded.
THEOREM TimestampsForLoops == SpecLoop => []TimestampWorks
BY LoopImplementsPmu, Timestamps, PTL

\* No program can read time stamps when the module is not loaded.
THEOREM WithdrawalFromLoops == SpecLoop => []AccessWithdrawn
BY LoopImplementsPmu, Withdrawal, PTL
============================================================================
