--------------------------- MODULE ScannerProofs ----------------------------
(***************************************************************************)
(* Proofs about Scanner for every set of texts of every length: positions, *)
(* coverage and marks of the tokens that Lexer_Next returns.               *)
(***************************************************************************)
EXTENDS Scanner, FiniteSetTheorems, SequenceTheorems, WellFoundedInduction, TLAPS

-----------------------------------------------------------------------------
(* Induction on offsets, from the end of the text backwards: a set that     *)
(* holds an offset as soon as it holds all the later ones holds them all.   *)
LEMMA Backwards ==
  ASSUME NEW N \in Nat, NEW G,
         \A k \in 0 .. N : (\A j \in k + 1 .. N : j \in G) => k \in G
  PROVE  \A k \in 0 .. N : k \in G
<1> DEFINE M == (0 .. N) \ G
           T == {k + 1 .. N : k \in M}
           R == StrictSubsetOrdering(0 .. N)
<1>1. ASSUME M # {} PROVE FALSE
  <2>1. IsWellFoundedOn(R, FiniteSubsetsOf(0 .. N))
    BY FS_StrictSubsetOrderingWellFounded
  <2>2. T \subseteq FiniteSubsetsOf(0 .. N)
    <3>1. ASSUME NEW k \in M PROVE k + 1 .. N \in FiniteSubsetsOf(0 .. N)
      <4>1. k + 1 .. N \subseteq 0 .. N
        OBVIOUS
      <4>2. IsFiniteSet(k + 1 .. N)
        BY FS_Interval
      <4>. QED
        BY <4>1, <4>2 DEF FiniteSubsetsOf
    <3>. QED
      BY <3>1
  <2>3. T # {}
    BY <1>1
  <2>4. PICK x \in T : \A y \in T : ~ (<<y, x>> \in R)
    <3> HIDE DEF T, R
    <3>. QED
      BY <2>1, <2>2, <2>3, WFMin
  <2>5. PICK m \in M : x = m + 1 .. N
    OBVIOUS
  <2>6. PICK j \in m + 1 .. N : j \notin G
    OBVIOUS
  <2>7. j \in M /\ j > m
    <3>1. m \in 0 .. N
      OBVIOUS
    <3>. QED
      BY <2>6, <3>1
  <2>8. j + 1 .. N \subseteq m + 1 .. N /\ j \in m + 1 .. N /\ j \notin j + 1 .. N
    BY <2>7
  <2>9. j + 1 .. N \in SUBSET (0 .. N) /\ m + 1 .. N \in SUBSET (0 .. N)
    OBVIOUS
  <2>10. <<j + 1 .. N, m + 1 .. N>> \in R
    BY <2>8, <2>9 DEF StrictSubsetOrdering
  <2>. QED
    BY <2>10, <2>4, <2>5, <2>7
<1>. QED
  BY <1>1

(* A set of offsets that is not empty has a least element.                  *)
LEMMA Least ==
  ASSUME NEW N \in Nat, NEW M \in SUBSET (0 .. N), M # {}
  PROVE  \E m \in M : \A k \in M : m <= k
<1>1. ASSUME \A m \in M : \E k \in M : k < m PROVE FALSE
  <2> DEFINE G == {k \in 0 .. N : N - k \notin M}
  <2>1. ASSUME NEW k \in 0 .. N, \A j \in k + 1 .. N : j \in G PROVE k \in G
    <3>1. ASSUME N - k \in M PROVE FALSE
      <4>1. PICK l \in M : l < N - k
        BY <1>1, <3>1
      <4>2. l \in 0 .. N
        OBVIOUS
      <4>3. N - l \in k + 1 .. N /\ N - (N - l) = l
        BY <4>1, <4>2
      <4>. QED
        BY <2>1, <4>1, <4>3
    <3>. QED
      BY <3>1
  <2>2. \A k \in 0 .. N : k \in G
    <3> HIDE DEF G
    <3>. QED
      BY <2>1, Backwards
  <2>3. PICK m \in M : TRUE
    OBVIOUS
  <2>4. m \in 0 .. N /\ N - m \in 0 .. N /\ N - (N - m) = m
    OBVIOUS
  <2>. QED
    BY <2>2, <2>4
<1>2. \A m \in M, k \in M : k < m \/ m <= k
  OBVIOUS
<1>. QED
  BY <1>1, <1>2

-----------------------------------------------------------------------------
(* Loops over the text.  One that never goes back stops.                    *)
Forward(step, N) == step \in [0 .. N -> 0 .. N] /\ \A i \in 0 .. N : step[i] >= i

(* What Stop says of itself: rest where the step rests, and otherwise where *)
(* one comes to rest from the next offset.                                  *)
LEMMA StopUnfolds ==
  ASSUME NEW N \in Nat, NEW step, Forward(step, N), NEW p \in 0 .. N
  PROVE  Stop(step)[p] = IF step[p] = p THEN p ELSE Stop(step)[step[p]]
<1> DEFINE F(f) == [i \in DOMAIN step |-> IF step[i] = i THEN i ELSE f[step[i]]]
           Good(g, k) == \A i \in k .. N : g[i] = IF step[i] = i THEN i ELSE g[step[i]]
           G == {k \in 0 .. N : \E g \in [0 .. N -> 0 .. N] : Good(g, k)}
<1>1. DOMAIN step = 0 .. N /\ \A i \in 0 .. N : step[i] \in 0 .. N /\ step[i] >= i
  BY DEF Forward
<1>2. ASSUME NEW k \in 0 .. N, \A j \in k + 1 .. N : j \in G PROVE k \in G
  <2>1. PICK g \in [0 .. N -> 0 .. N] : \A i \in k + 1 .. N : g[i] = IF step[i] = i THEN i ELSE g[step[i]]
    <3>1. CASE k = N
      <4>1. k + 1 .. N = {}
        BY <3>1
      <4>2. [i \in 0 .. N |-> 0] \in [0 .. N -> 0 .. N]
        OBVIOUS
      <4>. QED
        BY <4>1, <4>2
    <3>2. CASE k # N
      <4>1. k + 1 \in k + 1 .. N
        BY <3>2
      <4>. QED
        BY <1>2, <4>1
    <3>. QED
      BY <3>1, <3>2
  <2> DEFINE v == IF step[k] = k THEN k ELSE g[step[k]]
             h == [g EXCEPT ![k] = v]
  <2>2. v \in 0 .. N
    BY <1>1
  <2>3. h \in [0 .. N -> 0 .. N] /\ h[k] = v /\ \A i \in 0 .. N : i # k => h[i] = g[i]
    BY <2>2
  <2>4. ASSUME NEW i \in k .. N PROVE h[i] = IF step[i] = i THEN i ELSE h[step[i]]
    <3>1. CASE i = k
      <4>1. step[k] # k => step[k] \in k + 1 .. N
        BY <1>1
      <4>. QED
        BY <3>1, <4>1, <2>3, <1>1
    <3>2. CASE i # k
      <4>1. i \in k + 1 .. N /\ step[i] \in k + 1 .. N
        BY <3>2, <1>1
      <4>2. \A j \in k + 1 .. N : j \in 0 .. N /\ j # k
        OBVIOUS
      <4>3. h[i] = g[i] /\ h[step[i]] = g[step[i]]
        BY ONLY <4>1, <4>2, <2>3
      <4>. QED
        BY <4>1, <4>3, <2>1
    <3>. QED
      BY <3>1, <3>2
  <2>. QED
    BY <2>3, <2>4
<1>3. 0 \in G
  <2>1. \A k \in 0 .. N : k \in G
    <3> HIDE DEF G
    <3>. QED
      BY <1>2, Backwards
  <2>. QED
    BY <2>1
<1>4. PICK g \in [0 .. N -> 0 .. N] : Good(g, 0)
  BY <1>3
<1>5. g = F(g)
  BY <1>4, <1>1
<1>6. Stop(step) = CHOOSE f : f = F(f)
  BY DEF Stop
<1>7. Stop(step) = F(Stop(step))
  <2> HIDE DEF F
  <2>1. (CHOOSE f : f = F(f)) = F(CHOOSE f : f = F(f))
    BY <1>5
  <2>. QED
    BY ONLY <1>6, <2>1
<1>. QED
  BY <1>7, <1>1

(* The loop rests at an offset of the text, not before its start, and goes  *)
(* over no offset but those its steps go over.                              *)
LEMMA StopStays ==
  ASSUME NEW N \in Nat, NEW step, Forward(step, N), NEW D,
         \A i \in 0 .. N : i .. step[i] - 1 \subseteq D
  PROVE  \A p \in 0 .. N : /\ Stop(step)[p] \in p .. N
                           /\ step[Stop(step)[p]] = Stop(step)[p]
                           /\ p .. Stop(step)[p] - 1 \subseteq D
<1> DEFINE s == Stop(step)
           G == {p \in 0 .. N : s[p] \in p .. N /\ step[s[p]] = s[p] /\ p .. s[p] - 1 \subseteq D}
<1>1. \A p \in 0 .. N : step[p] \in 0 .. N /\ step[p] >= p
  BY DEF Forward
<1>2. \A p \in 0 .. N : s[p] = IF step[p] = p THEN p ELSE s[step[p]]
  BY StopUnfolds
<1> HIDE DEF s
<1>3. ASSUME NEW k \in 0 .. N, \A j \in k + 1 .. N : j \in G PROVE k \in G
  <2>1. CASE step[k] = k
    BY <2>1, <1>2
  <2>2. CASE step[k] # k
    <3> DEFINE n == step[k]
    <3>1. n \in k + 1 .. N
      BY <2>2, <1>1
    <3>2. s[k] = s[n]
      BY <2>2, <1>2
    <3>3. s[n] \in n .. N /\ step[s[n]] = s[n] /\ n .. s[n] - 1 \subseteq D
      BY <3>1, <1>3
    <3>4. k .. n - 1 \subseteq D
      OBVIOUS
    <3> HIDE DEF n
    <3>5. k .. s[n] - 1 \subseteq D
      BY <3>1, <3>3, <3>4
    <3>6. s[n] \in k .. N
      BY <3>1, <3>3
    <3>. QED
      BY <3>2, <3>3, <3>5, <3>6
  <2>. QED
    BY <2>1, <2>2
<1>4. \A k \in 0 .. N : k \in G
  <2> HIDE DEF G
  <2>. QED
    BY <1>3, Backwards
<1>. QED
  BY <1>4 DEF s

(* Stopping at q takes nothing from going forward.                          *)
LEMMA StoppedForward ==
  ASSUME NEW N \in Nat, NEW step, Forward(step, N), NEW q \in 0 .. N
  PROVE  /\ Forward([step EXCEPT ![q] = q], N)
         /\ [step EXCEPT ![q] = q][q] = q
         /\ \A i \in 0 .. N : i # q => [step EXCEPT ![q] = q][i] = step[i]
  BY DEF Forward

(* One comes by q from p if p is q, or by way of the next offset.           *)
LEMMA ReachUnfolds ==
  ASSUME NEW N \in Nat, NEW step, Forward(step, N), NEW p \in 0 .. N, NEW q \in 0 .. N
  PROVE  /\ Reaches(step, p, q) <=> (p = q \/ (step[p] # p /\ Reaches(step, step[p], q)))
         /\ Reaches(step, p, q) => p <= q
<1> DEFINE f == [step EXCEPT ![q] = q]
           s == Stop(f)
<1>1. Forward(f, N) /\ f[q] = q /\ \A i \in 0 .. N : i # q => f[i] = step[i]
  BY StoppedForward
<1>2. Reaches(step, p, q) <=> s[p] = q
  BY DEF Reaches
<1>3. Reaches(step, step[p], q) <=> s[step[p]] = q
  BY DEF Reaches
<1> HIDE DEF f
<1>4. s[p] = IF f[p] = p THEN p ELSE s[f[p]]
  BY <1>1, StopUnfolds
<1>5. \A i \in 0 .. N : i .. f[i] - 1 \subseteq Int
  OBVIOUS
<1>6. s[p] \in p .. N
  <2> HIDE DEF s
  <2>1. \A i \in 0 .. N : s[i] \in i .. N
    BY <1>1, <1>5, StopStays DEF s
  <2>. QED
    BY <2>1
<1> HIDE DEF s
<1>7. CASE p = q
  BY <1>7, <1>1, <1>2, <1>4
<1>8. CASE p # q
  BY <1>8, <1>1, <1>2, <1>3, <1>4, <1>6
<1>. QED
  BY <1>7, <1>8

(* Who comes by m comes by the next offset, and by none in between.         *)
LEMMA ReachSteps ==
  ASSUME NEW N \in Nat, NEW step, Forward(step, N),
         NEW m \in 0 .. N, NEW p \in 0 .. N, Reaches(step, p, m)
  PROVE  /\ Reaches(step, p, step[m])
         /\ \A k \in m + 1 .. step[m] - 1 : ~Reaches(step, p, k)
<1> DEFINE n == step[m]
           Gap(i) == \A k \in m + 1 .. n - 1 : ~Reaches(step, i, k)
           G == {i \in 0 .. N : Reaches(step, i, m) => Reaches(step, i, n) /\ Gap(i)}
<1>1. \A i \in 0 .. N : step[i] \in 0 .. N /\ step[i] >= i
  BY DEF Forward
<1>2. n \in m .. N
  BY <1>1
<1> HIDE DEF n
<1>3. ASSUME NEW i \in 0 .. N, \A j \in i + 1 .. N : j \in G PROVE i \in G
  <2>. SUFFICES ASSUME Reaches(step, i, m) PROVE Reaches(step, i, n) /\ Gap(i)
    OBVIOUS
  <2>1. i <= m
    BY ReachUnfolds
  <2>2. CASE i = m
    <3>1. Reaches(step, n, n) /\ n \in 0 .. N
      BY <1>2, ReachUnfolds
    <3>2. Reaches(step, m, n)
      BY <3>1, ReachUnfolds DEF n
    <3>3. ASSUME NEW k \in m + 1 .. n - 1 PROVE ~Reaches(step, m, k)
      <4>1. k \in 0 .. N /\ m # k /\ k < n /\ n \in 0 .. N
        BY <1>2
      <4>2. ~Reaches(step, n, k)
        BY <4>1, ReachUnfolds
      <4>. QED
        BY <4>1, <4>2, ReachUnfolds DEF n
    <3>. QED
      BY <2>2, <3>2, <3>3
  <2>3. CASE i # m
    <3> DEFINE j == step[i]
    <3>1. j # i /\ Reaches(step, j, m)
      BY <2>3, ReachUnfolds
    <3>2. j \in i + 1 .. N /\ j \in 0 .. N
      BY <3>1, <1>1
    <3>3. Reaches(step, j, n) /\ Gap(j)
      BY <3>1, <3>2, <1>3
    <3>4. Reaches(step, i, n)
      BY <1>2, <3>1, <3>3, ReachUnfolds
    <3>5. ASSUME NEW k \in m + 1 .. n - 1 PROVE ~Reaches(step, i, k)
      <4>1. k \in 0 .. N /\ i # k
        BY <1>2, <2>1
      <4>. QED
        BY <4>1, <3>3, ReachUnfolds
    <3>. QED
      BY <3>4, <3>5
  <2>. QED
    BY <2>2, <2>3
<1>4. p \in G
  <2>1. \A k \in 0 .. N : k \in G
    <3> HIDE DEF G
    <3>. QED
      BY <1>3, Backwards
  <2>. QED
    BY <2>1
<1>. QED
  BY <1>4 DEF n

-----------------------------------------------------------------------------
(* Runs of characters.                                                      *)
TextOK == text \in Seq(Chars)

(* There is a character at every offset but the last, which is the end.     *)
LEMMA CharAt ==
  ASSUME TextOK
  PROVE  /\ Len(text) \in Nat
         /\ \A p \in Nat : p < Len(text) => C(p) \in Chars
         /\ \A p \in Nat : C(p) = "end" <=> p >= Len(text)
<1>1. Len(text) \in Nat /\ \A p \in Nat : p < Len(text) => text[p + 1] \in Chars
  <2>1. \A n \in 1 .. Len(text) : text[n] \in Chars
    BY DEF TextOK
  <2>2. Len(text) \in Nat
    BY DEF TextOK
  <2>. QED
    BY <2>1, <2>2
<1>2. "end" \notin Chars
  BY DEF Chars
<1>. QED
  BY <1>1, <1>2 DEF C

(* The longest run of characters of S ends at the first that is not in S.   *)
LEMMA RunEndIs ==
  ASSUME TextOK, NEW p \in Offsets, NEW S, "end" \notin S
  PROVE  /\ RunEnd(p, S) \in p .. Len(text)
         /\ C(RunEnd(p, S)) \notin S
         /\ \A i \in p .. RunEnd(p, S) - 1 : C(i) \in S
<1> DEFINE M == {q \in p .. Len(text) : C(q) \notin S}
<1>1. Len(text) \in Nat /\ C(Len(text)) = "end" /\ p \in 0 .. Len(text)
  BY CharAt DEF Offsets
<1>2. M \in SUBSET (0 .. Len(text)) /\ M # {}
  BY <1>1
<1>3. PICK q \in M : \A k \in M : q <= k
  <2> HIDE DEF M
  <2>. QED
    BY <1>1, <1>2, Least
<1>4. q \in p .. Len(text) /\ C(q) \notin S /\ \A i \in p .. q - 1 : C(i) \in S
  BY <1>1, <1>3
<1>. QED
  BY <1>4 DEF RunEnd

(* There is one such offset.                                                *)
LEMMA RunEndOnly ==
  ASSUME TextOK, NEW p \in Offsets, NEW S, "end" \notin S,
         NEW q \in p .. Len(text), C(q) \notin S, \A i \in p .. q - 1 : C(i) \in S
  PROVE  RunEnd(p, S) = q
<1> DEFINE r == RunEnd(p, S)
<1>1. r \in p .. Len(text) /\ C(r) \notin S /\ \A i \in p .. r - 1 : C(i) \in S
  BY RunEndIs
<1>2. Len(text) \in Nat /\ p \in 0 .. Len(text)
  BY CharAt DEF Offsets
<1> HIDE DEF r
<1>3. ~(r < q) /\ ~(q < r)
  BY <1>1, <1>2
<1>. QED
  BY <1>1, <1>2, <1>3 DEF r

(* A run goes on as it does from its second character.                      *)
LEMMA RunEndNext ==
  ASSUME TextOK, NEW p \in Offsets, NEW S, "end" \notin S, C(p) \in S
  PROVE  p + 1 \in Offsets /\ RunEnd(p, S) = RunEnd(p + 1, S)
<1>1. Len(text) \in Nat /\ p \in 0 .. Len(text) /\ p < Len(text)
  BY CharAt DEF Offsets
<1>2. p + 1 \in Offsets
  BY <1>1 DEF Offsets
<1> DEFINE r == RunEnd(p + 1, S)
<1>3. r \in p + 1 .. Len(text) /\ C(r) \notin S /\ \A i \in p + 1 .. r - 1 : C(i) \in S
  BY <1>2, RunEndIs
<1> HIDE DEF r
<1>4. r \in p .. Len(text) /\ \A i \in p .. r - 1 : C(i) \in S
  <2>1. \A i \in p .. r - 1 : i = p \/ i \in p + 1 .. r - 1
    BY <1>1, <1>3
  <2>. QED
    BY <1>1, <1>3, <2>1
<1>5. RunEnd(p, S) = r
  BY <1>3, <1>4, RunEndOnly
<1>. QED
  BY <1>2, <1>5 DEF r

(* The rest of a line ends at the line break or at the end of the text.     *)
LEMMA LineEndIs ==
  ASSUME TextOK, NEW p \in Offsets
  PROVE  /\ LineEnd(p) \in p .. Len(text)
         /\ C(LineEnd(p)) \in Breaks \cup {"end"}
         /\ \A i \in p .. LineEnd(p) - 1 : C(i) \notin Breaks
<1> DEFINE M == {q \in p .. Len(text) : C(q) \in Breaks \cup {"end"}}
<1>1. Len(text) \in Nat /\ C(Len(text)) = "end" /\ p \in 0 .. Len(text)
  BY CharAt DEF Offsets
<1>2. M \in SUBSET (0 .. Len(text)) /\ M # {}
  BY <1>1
<1>3. PICK q \in M : \A k \in M : q <= k
  <2> HIDE DEF M
  <2>. QED
    BY <1>1, <1>2, Least
<1>4. q \in p .. Len(text) /\ C(q) \in Breaks \cup {"end"} /\ \A i \in p .. q - 1 : C(i) \notin Breaks
  BY <1>1, <1>3
<1>. QED
  BY <1>4 DEF LineEnd

(* There is one such offset.                                                *)
LEMMA LineEndOnly ==
  ASSUME TextOK, NEW p \in Offsets, NEW q \in p .. Len(text),
         C(q) \in Breaks \cup {"end"}, \A i \in p .. q - 1 : C(i) \notin Breaks
  PROVE  LineEnd(p) = q
<1> DEFINE r == LineEnd(p)
<1>1. r \in p .. Len(text) /\ C(r) \in Breaks \cup {"end"} /\ \A i \in p .. r - 1 : C(i) \notin Breaks
  BY LineEndIs
<1>2. Len(text) \in Nat /\ p \in 0 .. Len(text) /\ \A i \in Nat : i < Len(text) => C(i) # "end"
  BY CharAt DEF Offsets
<1> HIDE DEF r
<1>3. ~(r < q) /\ ~(q < r)
  BY <1>1, <1>2
<1>. QED
  BY <1>1, <1>2, <1>3 DEF r

(* An escape ends in the text and takes no line break.                      *)
LEMMA EscapeEndIs ==
  ASSUME TextOK, NEW p \in Offsets, NEW b \in BOOLEAN
  PROVE  /\ EscapeEnd(p, b) \in p .. Len(text)
         /\ \A i \in p .. EscapeEnd(p, b) - 1 : C(i) \notin Breaks
<1>1. /\ Len(text) \in Nat /\ p \in 0 .. Len(text)
      /\ C(p) # "end" => p < Len(text)
  BY CharAt DEF Offsets
<1>2. CASE C(p) = "1"
  <2> DEFINE r == RunEnd(p, {"1"})
  <2>1. r \in p .. Len(text) /\ \A i \in p .. r - 1 : C(i) \in {"1"}
    BY RunEndIs
  <2>2. EscapeEnd(p, b) = Min(r, p + 3)
    BY <1>2 DEF EscapeEnd, Named, Breaks
  <2> HIDE DEF r
  <2>3. Min(r, p + 3) \in p .. Len(text) /\ Min(r, p + 3) <= r
    BY <1>1, <2>1 DEF Min
  <2> DEFINE e == Min(r, p + 3)
  <2> HIDE DEF e
  <2>4. \A i \in p .. e - 1 : C(i) \notin Breaks
    BY <1>1, <2>1, <2>3 DEF e, Breaks
  <2>. QED
    BY <2>2, <2>3, <2>4 DEF e
<1>3. CASE C(p) # "1"
  <2>1. \/ EscapeEnd(p, b) = p
        \/ EscapeEnd(p, b) = p + 1 /\ C(p) \notin Breaks \cup {"end"}
    BY <1>3 DEF EscapeEnd, Named, Breaks
  <2>. QED
    BY <1>1, <2>1
<1>. QED
  BY <1>2, <1>3

-----------------------------------------------------------------------------
(* The loops over punctuation, names and digits.                            *)
Solid == {i \in Offsets : C(i) \notin Breaks}

(* A backslash and its escape are in the text and take no line break.       *)
LEMMA EscapeStep ==
  ASSUME TextOK, NEW i \in Offsets, C(i) = "\\"
  PROVE  /\ EscapeEnd(i + 1, TRUE) \in i + 1 .. Len(text)
         /\ i .. EscapeEnd(i + 1, TRUE) - 1 \subseteq Solid
<1>1. Len(text) \in Nat /\ i \in 0 .. Len(text) /\ i < Len(text)
  BY CharAt DEF Offsets
<1> DEFINE e == EscapeEnd(i + 1, TRUE)
<1>2. i + 1 \in Offsets
  BY <1>1 DEF Offsets
<1>3. e \in i + 1 .. Len(text) /\ \A k \in i + 1 .. e - 1 : C(k) \notin Breaks
  BY <1>2, EscapeEndIs
<1> HIDE DEF e
<1>4. ASSUME NEW k \in i .. e - 1 PROVE k \in Solid
  <2>1. k \in Offsets
    BY <1>1, <1>3 DEF Offsets
  <2>2. CASE k = i
    BY <2>1, <2>2 DEF Solid, Breaks
  <2>3. CASE k # i
    BY <1>1, <1>3, <2>1, <2>3 DEF Solid
  <2>. QED
    BY <2>2, <2>3
<1>. QED
  BY <1>3, <1>4 DEF e

(* A step of the loop over punctuation.                                     *)
LEMMA PunctStepIs ==
  ASSUME TextOK
  PROVE  /\ Forward(PunctStep, Len(text))
         /\ \A i \in 0 .. Len(text) :
              /\ i .. PunctStep[i] - 1 \subseteq Solid
              /\ PunctStep[i] = i <=> C(i) \notin PunctChars \cup {"\\"}
              /\ C(i) \in PunctChars => PunctStep[i] = i + 1
<1>1. Len(text) \in Nat /\ \A p \in Nat : C(p) # "end" => p < Len(text)
  BY CharAt
<1>2. ASSUME NEW i \in 0 .. Len(text)
      PROVE  /\ PunctStep[i] \in i .. Len(text)
             /\ i .. PunctStep[i] - 1 \subseteq Solid
             /\ PunctStep[i] = i <=> C(i) \notin PunctChars \cup {"\\"}
             /\ C(i) \in PunctChars => PunctStep[i] = i + 1
  <2>1. i \in Offsets /\ i \in Nat /\ i + 1 \in Nat /\ i + 2 \in Nat
    BY <1>1 DEF Offsets
  <2>2. CASE C(i) = "\\"
    <3>1. PunctStep[i] = EscapeEnd(i + 1, TRUE) /\ C(i) \notin PunctChars
      BY <2>1, <2>2 DEF PunctStep, PunctChars
    <3>2. EscapeEnd(i + 1, TRUE) \in i + 1 .. Len(text) /\ i .. EscapeEnd(i + 1, TRUE) - 1 \subseteq Solid
      BY <2>1, <2>2, EscapeStep
    <3> DEFINE e == EscapeEnd(i + 1, TRUE)
    <3> HIDE DEF e
    <3>3. e \in i .. Len(text) /\ e # i
      <4>1. e \in i + 1 .. Len(text)
        BY <3>2 DEF e
      <4>. QED
        BY ONLY <4>1, <1>1, <2>1
    <3>. QED
      BY <2>2, <3>1, <3>2, <3>3 DEF e
  <2>3. CASE C(i) \in PunctChars
    <3>1. PunctStep[i] = i + 1
      BY <2>1, <2>3 DEF PunctStep, PunctChars
    <3>2. i < Len(text) /\ i \in Solid
      BY <1>1, <2>1, <2>3 DEF PunctChars, Solid, Breaks
    <3>3. i .. i + 1 - 1 = {i}
      OBVIOUS
    <3>. QED
      BY <1>1, <3>1, <3>2, <3>3, <2>3
  <2>4. CASE C(i) \notin PunctChars \cup {"\\"}
    <3>1. PunctStep[i] = i
      BY <2>1, <2>4 DEF PunctStep
    <3>. QED
      BY <1>1, <3>1, <2>4
  <2>. QED
    BY <2>2, <2>3, <2>4
<1>3. DOMAIN PunctStep = 0 .. Len(text) /\ PunctStep = [i \in 0 .. Len(text) |-> PunctStep[i]]
  BY DEF PunctStep, Offsets
<1>. QED
  BY <1>1, <1>2, <1>3 DEF Forward

(* A step of the loop over names.                                           *)
LEMMA NameStepIs ==
  ASSUME TextOK
  PROVE  /\ Forward(NameStep, Len(text))
         /\ \A i \in 0 .. Len(text) :
              /\ i .. NameStep[i] - 1 \subseteq Solid
              /\ C(i) \in NameChars \cup {"\\"} => NameStep[i] > i
<1>1. Len(text) \in Nat /\ \A p \in Nat : C(p) # "end" => p < Len(text)
  BY CharAt
<1>2. ASSUME NEW i \in 0 .. Len(text)
      PROVE  /\ NameStep[i] \in i .. Len(text)
             /\ i .. NameStep[i] - 1 \subseteq Solid
             /\ C(i) \in NameChars \cup {"\\"} => NameStep[i] > i
  <2>1. i \in Offsets /\ i \in Nat /\ i + 1 \in Nat /\ i + 2 \in Nat
    BY <1>1 DEF Offsets
  <2>2. CASE C(i) = "\\"
    <3>1. NameStep[i] = EscapeEnd(i + 1, TRUE)
      BY <2>1, <2>2 DEF NameStep, NameChars
    <3>2. EscapeEnd(i + 1, TRUE) \in i + 1 .. Len(text) /\ i .. EscapeEnd(i + 1, TRUE) - 1 \subseteq Solid
      BY <2>1, <2>2, EscapeStep
    <3> DEFINE e == EscapeEnd(i + 1, TRUE)
    <3> HIDE DEF e
    <3>3. e \in i .. Len(text) /\ e > i
      <4>1. e \in i + 1 .. Len(text)
        BY <3>2 DEF e
      <4>. QED
        BY ONLY <4>1, <1>1, <2>1
    <3>. QED
      BY <3>1, <3>2, <3>3 DEF e
  <2>3. CASE C(i) \in NameChars \cup {"-"}
    <3>1. NameStep[i] \in {i, i + 1} /\ (C(i) \in NameChars => NameStep[i] = i + 1)
      BY <2>1, <2>3 DEF NameStep, NameChars
    <3>2. i < Len(text) /\ i \in Solid /\ C(i) # "\\"
      <4>1. C(i) # "end" /\ C(i) \notin Breaks /\ C(i) # "\\"
        BY <2>3 DEF NameChars, Breaks
      <4>. QED
        BY <1>1, <2>1, <4>1 DEF Solid
    <3>3. i .. i + 1 - 1 = {i} /\ i .. i - 1 = {}
      OBVIOUS
    <3>. QED
      BY <1>1, <3>1, <3>2, <3>3
  <2>4. CASE C(i) \notin NameChars \cup {"\\", "-"}
    <3>1. NameStep[i] = i
      BY <2>1, <2>4 DEF NameStep
    <3>. QED
      BY <1>1, <3>1, <2>4
  <2>. QED
    BY <2>2, <2>3, <2>4
<1>3. DOMAIN NameStep = 0 .. Len(text) /\ NameStep = [i \in 0 .. Len(text) |-> NameStep[i]]
  BY DEF NameStep, Offsets
<1>. QED
  BY <1>1, <1>2, <1>3 DEF Forward

(* A step of the loop over digits.                                          *)
LEMMA DigitStepIs ==
  ASSUME TextOK
  PROVE  /\ Forward(DigitStep, Len(text))
         /\ \A i \in 0 .. Len(text) : i .. DigitStep[i] - 1 \subseteq Solid
<1>1. Len(text) \in Nat /\ \A p \in Nat : C(p) # "end" => p < Len(text)
  BY CharAt
<1>2. ASSUME NEW i \in 0 .. Len(text)
      PROVE  /\ DigitStep[i] \in i .. Len(text)
             /\ i .. DigitStep[i] - 1 \subseteq Solid
  <2>1. i \in Offsets /\ i \in Nat /\ i + 1 \in Nat /\ i + 2 \in Nat
    BY <1>1 DEF Offsets
  <2>2. CASE C(i) = "1" /\ C(i + 1) \in {"'", "\""} /\ C(i + 2) = "1"
    <3>1. DigitStep[i] = i + 2
      BY <2>1, <2>2 DEF DigitStep
    <3>2. i + 2 < Len(text)
      <4>1. C(i + 2) # "end"
        BY <2>2
      <4>. QED
        BY <1>1, <2>1, <4>1
    <3>3. i \in Solid /\ i + 1 \in Solid
      <4>1. i + 1 \in Offsets
        BY <1>1, <2>1, <3>2 DEF Offsets
      <4>2. C(i) \notin Breaks /\ C(i + 1) \notin Breaks
        BY <2>2 DEF Breaks
      <4>. QED
        BY <2>1, <4>1, <4>2 DEF Solid
    <3>4. i .. i + 2 - 1 = {i, i + 1}
      OBVIOUS
    <3>. QED
      BY <1>1, <3>1, <3>2, <3>3, <3>4
  <2>3. CASE C(i) = "1" /\ ~(C(i + 1) \in {"'", "\""} /\ C(i + 2) = "1")
    <3>1. DigitStep[i] = i + 1
      BY <2>1, <2>3 DEF DigitStep
    <3>2. i < Len(text) /\ i \in Solid
      <4>1. C(i) # "end" /\ C(i) \notin Breaks
        BY <2>3 DEF Breaks
      <4>. QED
        BY <1>1, <2>1, <4>1 DEF Solid
    <3>3. i .. i + 1 - 1 = {i}
      OBVIOUS
    <3>. QED
      BY <1>1, <3>1, <3>2, <3>3
  <2>4. CASE C(i) # "1"
    <3>1. DigitStep[i] = i
      BY <2>1, <2>4 DEF DigitStep
    <3>. QED
      BY <1>1, <3>1
  <2>. QED
    BY <2>2, <2>3, <2>4
<1>3. DOMAIN DigitStep = 0 .. Len(text) /\ DigitStep = [i \in 0 .. Len(text) |-> DigitStep[i]]
  BY DEF DigitStep, Offsets
<1>. QED
  BY <1>1, <1>2, <1>3 DEF Forward

-----------------------------------------------------------------------------
(* Where tokens end.  Clean: from p to e there is no line break, and e is   *)
(* in the text.                                                             *)
Clean(p, e) == e \in p .. Len(text) /\ p .. e - 1 \subseteq Solid

(* A name ends on its line, and is not empty where one can start.           *)
LEMMA NameEndIs ==
  ASSUME TextOK, NEW p \in Offsets
  PROVE  /\ Clean(p, NameEnd(p))
         /\ C(p) \in NameChars \cup {"\\"} => NameEnd(p) > p
<1> DEFINE N == Len(text)
           s == Stop(NameStep)
<1>1. N \in Nat /\ p \in 0 .. N
  BY CharAt DEF Offsets
<1>2. /\ Forward(NameStep, N)
      /\ \A i \in 0 .. N : i .. NameStep[i] - 1 \subseteq Solid
      /\ C(p) \in NameChars \cup {"\\"} => NameStep[p] > p
  BY <1>1, NameStepIs
<1> HIDE DEF N
<1>3. \A i \in 0 .. N : s[i] \in i .. N /\ i .. s[i] - 1 \subseteq Solid
  BY <1>1, <1>2, StopStays
<1>4. s[p] = IF NameStep[p] = p THEN p ELSE s[NameStep[p]]
  BY <1>1, <1>2, StopUnfolds
<1>5. NameStep[p] \in 0 .. N
  BY <1>1, <1>2 DEF Forward
<1> HIDE DEF s
<1>6. NameStep[p] > p => s[p] > p
  BY <1>1, <1>3, <1>4, <1>5
<1>. QED
  BY <1>1, <1>2, <1>3, <1>6 DEF NameEnd, Clean, N, s

(* So do digits, which may be none.                                         *)
LEMMA DigitsEndIs ==
  ASSUME TextOK, NEW p \in Offsets
  PROVE  /\ Clean(p, DigitsEnd(p))
         /\ C(p) # "1" => DigitsEnd(p) = p
<1> DEFINE N == Len(text)
<1>1. N \in Nat /\ p \in 0 .. N
  BY CharAt DEF Offsets
<1>2. Forward(DigitStep, N) /\ \A i \in 0 .. N : i .. DigitStep[i] - 1 \subseteq Solid
  BY <1>1, DigitStepIs
<1>3. C(p) # "1" => DigitStep[p] = p
  BY DEF DigitStep
<1> HIDE DEF N
<1>4. \A i \in 0 .. N : Stop(DigitStep)[i] \in i .. N /\ i .. Stop(DigitStep)[i] - 1 \subseteq Solid
  BY <1>1, <1>2, StopStays
<1>5. DigitStep[p] = p => Stop(DigitStep)[p] = p
  BY <1>1, <1>2, StopUnfolds
<1>. QED
  BY <1>1, <1>3, <1>4, <1>5 DEF DigitsEnd, Clean, N

(* And so does what may be a real number.                                   *)
LEMMA RealEndIs ==
  ASSUME TextOK, NEW p \in Offsets
  PROVE  Clean(p, RealEnd(p))
<1> DEFINE d == DigitsEnd(p)
           e == DigitsEnd(d + 1)
<1>1. Len(text) \in Nat /\ p \in 0 .. Len(text) /\ \A q \in Nat : C(q) # "end" => q < Len(text)
  BY CharAt DEF Offsets
<1>2. d \in p .. Len(text) /\ p .. d - 1 \subseteq Solid
  BY DigitsEndIs DEF Clean
<1>3. CASE C(d) # "."
  BY <1>2, <1>3 DEF RealEnd, Clean
<1>4. CASE C(d) = "."
  <2>1. RealEnd(p) = e
    BY <1>4 DEF RealEnd
  <2> HIDE DEF d
  <2>2. d \in Nat /\ d < Len(text) /\ d \in Offsets /\ d + 1 \in Offsets
    <3>1. d \in Nat
      BY <1>1, <1>2
    <3>2. C(d) # "end"
      BY <1>4
    <3>3. d < Len(text)
      BY <1>1, <3>1, <3>2
    <3>. QED
      BY <1>1, <3>1, <3>3 DEF Offsets
  <2>3. e \in d + 1 .. Len(text) /\ d + 1 .. e - 1 \subseteq Solid
    BY <2>2, DigitsEndIs DEF Clean
  <2> HIDE DEF e
  <2>4. d \in Solid
    BY <1>4, <2>2 DEF Solid, Breaks
  <2>5. \A i \in p .. e - 1 : i \in p .. d - 1 \/ i = d \/ i \in d + 1 .. e - 1
    BY <1>1, <2>2, <2>3
  <2>6. e \in p .. Len(text)
    BY <1>1, <1>2, <2>2, <2>3
  <2>. QED
    BY <1>2, <2>1, <2>3, <2>4, <2>5, <2>6 DEF Clean
<1>. QED
  BY <1>3, <1>4

(* A run of punctuation ends where there is no more of it.                  *)
LEMMA PunctRunIs ==
  ASSUME TextOK, NEW p \in Offsets
  PROVE  /\ Clean(p, PunctRun(p))
         /\ C(PunctRun(p)) \notin PunctChars \cup {"\\"}
         /\ PunctRun(p) = IF PunctStep[p] = p THEN p ELSE PunctRun(PunctStep[p])
<1> DEFINE N == Len(text)
           s == Stop(PunctStep)
<1>1. N \in Nat /\ p \in 0 .. N
  BY CharAt DEF Offsets
<1>2. /\ Forward(PunctStep, N)
      /\ \A i \in 0 .. N : i .. PunctStep[i] - 1 \subseteq Solid
      /\ \A i \in 0 .. N : PunctStep[i] = i => C(i) \notin PunctChars \cup {"\\"}
  BY PunctStepIs
<1> HIDE DEF N
<1>3. \A i \in 0 .. N : s[i] \in i .. N /\ PunctStep[s[i]] = s[i] /\ i .. s[i] - 1 \subseteq Solid
  BY <1>1, <1>2, StopStays
<1>4. s[p] = IF PunctStep[p] = p THEN p ELSE s[PunctStep[p]]
  BY <1>1, <1>2, StopUnfolds
<1> HIDE DEF s
<1>5. s[p] \in p .. N /\ s[p] \in 0 .. N /\ PunctStep[s[p]] = s[p] /\ p .. s[p] - 1 \subseteq Solid
  BY <1>1, <1>3
<1>6. C(s[p]) \notin PunctChars \cup {"\\"}
  BY <1>2, <1>5
<1>. QED
  BY <1>4, <1>5, <1>6 DEF PunctRun, Clean, N, s

(* What is kept of it.  All of it is given back only if it is nothing but   *)
(* equals signs, and of those no single one is kept.                        *)
LEMMA PunctKeptIs ==
  ASSUME TextOK, NEW p \in Offsets, C(p) \in PunctChars
  PROVE  /\ Clean(p, PunctKept(p))
         /\ PunctKept(p) = p => RunEnd(p, {"="}) = PunctRun(p)
         /\ C(p) = "=" => PunctKept(p) # p + 1
<1> DEFINE N == Len(text)
           r == PunctRun(p)
           K == [i \in Offsets |-> IF RunEnd(i, {"="}) = r THEN i ELSE PunctStep[i]]
           s == Stop(K)
<1>1. N \in Nat /\ p \in 0 .. N /\ p < N /\ p + 1 \in 0 .. N /\ Offsets = 0 .. N
  <2>1. C(p) # "end"
    BY DEF PunctChars
  <2>. QED
    BY <2>1, CharAt DEF Offsets
<1>2. /\ Forward(PunctStep, N)
      /\ \A i \in 0 .. N : i .. PunctStep[i] - 1 \subseteq Solid
      /\ \A i \in 0 .. N : PunctStep[i] = i <=> C(i) \notin PunctChars \cup {"\\"}
      /\ PunctStep[p] = p + 1
  BY <1>1, PunctStepIs
<1>3. \A i \in 0 .. N : K[i] = i \/ (K[i] = PunctStep[i] /\ RunEnd(i, {"="}) # r)
  BY <1>1
<1>4. RunEnd(p, {"="}) # r => K[p] = p + 1
  BY <1>1, <1>2
<1>5. K[p] = p => RunEnd(p, {"="}) = r
  BY <1>1, <1>2
<1>6. RunEnd(p + 1, {"="}) # r => K[p + 1] = PunctStep[p + 1]
  BY <1>1
<1>7. RunEnd(p, {"="}) = r => K[p] = p
  BY <1>1
<1>8. DOMAIN K = 0 .. N /\ K = [i \in 0 .. N |-> K[i]]
  BY <1>1
<1>9. PunctKept(p) = s[p]
  BY DEF PunctKept
<1>10. C(p) = "=" => RunEnd(p, {"="}) = RunEnd(p + 1, {"="})
  BY RunEndNext
<1>11. r = PunctRun(p + 1)
  BY <1>1, <1>2, PunctRunIs
<1>12. C(p + 1) \notin PunctChars \cup {"\\"} => r = p + 1 /\ RunEnd(p + 1, {"="}) = p + 1
  <2>. SUFFICES ASSUME C(p + 1) \notin PunctChars \cup {"\\"} PROVE r = p + 1 /\ RunEnd(p + 1, {"="}) = p + 1
    OBVIOUS
  <2>1. PunctStep[p + 1] = p + 1 /\ p + 1 \in Offsets
    BY <1>1, <1>2
  <2>2. r = p + 1
    BY <2>1, <1>11, PunctRunIs
  <2>3. p + 1 \in p + 1 .. Len(text) /\ p + 1 .. p + 1 - 1 = {}
    BY <1>1
  <2>4. C(p + 1) \notin {"="}
    BY DEF PunctChars
  <2>5. RunEnd(p + 1, {"="}) = p + 1
    BY <2>1, <2>3, <2>4, RunEndOnly
  <2>. QED
    BY <2>2, <2>5
<1> HIDE DEF N, K, r
<1>13. \A i \in 0 .. N : PunctStep[i] \in 0 .. N /\ PunctStep[i] >= i
  BY <1>2 DEF Forward
<1>14. Forward(K, N)
  <2>1. \A i \in 0 .. N : K[i] \in 0 .. N /\ K[i] >= i
    BY <1>1, <1>3, <1>13
  <2>. QED
    BY <1>8, <2>1 DEF Forward
<1>15. \A i \in 0 .. N : i .. K[i] - 1 \subseteq Solid
  <2>1. ASSUME NEW i \in 0 .. N PROVE i .. K[i] - 1 \subseteq Solid
    <3>1. i .. i - 1 = {}
      BY <1>1
    <3>. QED
      BY <1>2, <1>3, <3>1
  <2>. QED
    BY <2>1
<1>16. \A i \in 0 .. N : s[i] \in i .. N /\ i .. s[i] - 1 \subseteq Solid
  BY <1>1, <1>14, <1>15, StopStays
<1>17. \A i \in 0 .. N : s[i] = IF K[i] = i THEN i ELSE s[K[i]]
  BY <1>1, <1>14, StopUnfolds
<1> HIDE DEF s
<1>18. Clean(p, s[p])
  BY <1>1, <1>16 DEF Clean, N
<1>19. s[p] = p => K[p] = p
  <2>1. K[p] # p => K[p] = p + 1
    BY <1>1, <1>2, <1>3
  <2>2. s[p + 1] # p
    BY <1>1, <1>16
  <2>. QED
    BY <1>1, <1>17, <2>1, <2>2
<1>20. ASSUME C(p) = "=", s[p] = p + 1 PROVE FALSE
  <2>1. K[p] # p
    BY <1>1, <1>17, <1>20
  <2>2. RunEnd(p, {"="}) # r /\ RunEnd(p + 1, {"="}) # r
    BY <2>1, <1>7, <1>10, <1>20
  <2>3. C(p + 1) \in PunctChars \cup {"\\"}
    BY <2>2, <1>12
  <2>4. K[p + 1] = PunctStep[p + 1] /\ PunctStep[p + 1] # p + 1
    BY <1>1, <1>2, <1>6, <2>2, <2>3
  <2>5. K[p + 1] \in 0 .. N /\ K[p + 1] > p + 1
    BY <1>1, <1>13, <2>4
  <2>6. s[p] = s[p + 1] /\ s[p + 1] = s[K[p + 1]]
    BY <1>1, <1>4, <1>17, <2>1, <2>2, <2>4
  <2>7. s[K[p + 1]] > p + 1
    BY <1>1, <1>16, <2>5
  <2>. QED
    BY <1>20, <2>6, <2>7, <1>1
<1>. QED
  BY <1>5, <1>9, <1>18, <1>19, <1>20 DEF r

-----------------------------------------------------------------------------
(* The name that a run of punctuation spells.                               *)
Item(i) == IF C(i) = "\\" THEN C(i + 1) ELSE C(i)

(* The name of punctuation is its first item and the name of the rest.      *)
LEMMA PunctNameUnfolds ==
  ASSUME TextOK, NEW p \in Offsets
  PROVE  PunctName(p) = IF PunctStep[p] = p THEN <<>> ELSE <<Item(p)>> \o PunctName(PunctStep[p])
<1> DEFINE N == Len(text)
           step == PunctStep
           V == {Item(i) : i \in 0 .. N}
           F(f) == [i \in Offsets |-> IF step[i] = i THEN <<>> ELSE <<Item(i)>> \o f[step[i]]]
           Good(g, k) == \A i \in k .. N : g[i] = IF step[i] = i THEN <<>> ELSE <<Item(i)>> \o g[step[i]]
           G == {k \in 0 .. N : \E g \in [0 .. N -> Seq(V)] : Good(g, k)}
<1>1. N \in Nat /\ p \in 0 .. N /\ Offsets = 0 .. N
  BY CharAt DEF Offsets
<1>2. \A i \in 0 .. N : step[i] \in 0 .. N /\ step[i] >= i
  BY PunctStepIs DEF Forward
<1>3. \A i \in 0 .. N : Item(i) \in V
  OBVIOUS
<1>4. PunctName(p) = (CHOOSE f : f = F(f))[p]
  BY DEF PunctName, Item
<1>5. PunctName(step[p]) = (CHOOSE f : f = F(f))[step[p]]
  BY DEF PunctName, Item
<1> HIDE DEF N, step, V
<1>6. ASSUME NEW k \in 0 .. N, \A j \in k + 1 .. N : j \in G PROVE k \in G
  <2>1. PICK g \in [0 .. N -> Seq(V)] :
          \A i \in k + 1 .. N : g[i] = IF step[i] = i THEN <<>> ELSE <<Item(i)>> \o g[step[i]]
    <3>1. CASE k = N
      <4>1. k + 1 .. N = {}
        BY <1>1, <3>1
      <4>2. [i \in 0 .. N |-> <<>>] \in [0 .. N -> Seq(V)]
        OBVIOUS
      <4>. QED
        BY <4>1, <4>2
    <3>2. CASE k # N
      <4>1. k + 1 \in k + 1 .. N
        BY <1>1, <3>2
      <4>. QED
        BY <1>6, <4>1
    <3>. QED
      BY <3>1, <3>2
  <2> DEFINE w == <<Item(k)>> \o g[step[k]]
             v == IF step[k] = k THEN <<>> ELSE w
             h == [g EXCEPT ![k] = v]
  <2>2. v \in Seq(V)
    <3>1. g[step[k]] \in Seq(V) /\ <<Item(k)>> \in Seq(V)
      BY <1>2, <1>3
    <3>2. w \in Seq(V)
      BY ONLY <3>1
    <3>3. <<>> \in Seq(V)
      OBVIOUS
    <3> HIDE DEF w
    <3>. QED
      BY <3>2, <3>3
  <2> HIDE DEF v
  <2>3. h \in [0 .. N -> Seq(V)] /\ h[k] = v /\ \A i \in 0 .. N : i # k => h[i] = g[i]
    BY <2>2
  <2> HIDE DEF h
  <2>4. ASSUME NEW i \in k .. N PROVE h[i] = IF step[i] = i THEN <<>> ELSE <<Item(i)>> \o h[step[i]]
    <3>1. CASE i = k
      <4>1. step[k] # k => h[step[k]] = g[step[k]]
        BY <1>2, <2>3
      <4>. QED
        BY <3>1, <4>1, <2>3 DEF v
    <3>2. CASE i # k
      <4>1. i \in k + 1 .. N /\ step[i] \in k + 1 .. N
        BY <1>1, <3>2, <1>2
      <4>2. \A j \in k + 1 .. N : j \in 0 .. N /\ j # k
        BY <1>1
      <4>3. h[i] = g[i] /\ h[step[i]] = g[step[i]]
        BY ONLY <4>1, <4>2, <2>3
      <4>. QED
        BY <4>1, <4>3, <2>1
    <3>. QED
      BY <3>1, <3>2
  <2>. QED
    BY <2>3, <2>4
<1>7. 0 \in G
  <2>1. \A k \in 0 .. N : k \in G
    <3> HIDE DEF G
    <3>. QED
      BY <1>1, <1>6, Backwards
  <2>2. 0 \in 0 .. N
    BY <1>1
  <2> HIDE DEF G
  <2>. QED
    BY <2>1, <2>2
<1>8. PICK g \in [0 .. N -> Seq(V)] : Good(g, 0)
  BY <1>7
<1>9. g = F(g)
  BY <1>8, <1>1
<1> DEFINE n == CHOOSE f : f = F(f)
<1>10. n = F(n)
  <2> HIDE DEF F
  <2>. QED
    BY <1>9
<1>11. PunctName(p) = n[p] /\ PunctName(step[p]) = n[step[p]]
  BY <1>4, <1>5
<1> HIDE DEF n
<1>12. n[p] = IF step[p] = p THEN <<>> ELSE <<Item(p)>> \o n[step[p]]
  BY <1>1, <1>10
<1>. QED
  BY <1>11, <1>12 DEF step

(* An equals sign spells itself before what follows.                        *)
LEMMA EqualsSpell ==
  ASSUME TextOK, NEW p \in Offsets
  PROVE  /\ C(p) = "=" => p + 1 \in Offsets /\ PunctName(p) = <<"=">> \o PunctName(p + 1)
         /\ C(p) \notin PunctChars \cup {"\\"} => PunctName(p) = <<>>
<1>1. /\ p \in 0 .. Len(text) /\ Len(text) \in Nat
      /\ C(p) = "=" => p < Len(text)
  BY CharAt DEF Offsets
<1>2. /\ C(p) = "=" => PunctStep[p] = p + 1
      /\ C(p) \notin PunctChars \cup {"\\"} => PunctStep[p] = p
  BY <1>1, PunctStepIs DEF PunctChars
<1>3. C(p) = "=" => p + 1 \in Offsets /\ PunctStep[p] # p /\ Item(p) = "="
  BY <1>1, <1>2 DEF Offsets, Item
<1>. QED
  BY <1>2, <1>3, PunctNameUnfolds

(* Names of equals signs.                                                   *)
LEMMA EqualsJoined ==
  /\ <<"=">> \o <<>> = <<"=">>
  /\ <<"=">> \o <<"=">> = <<"=", "=">>
  /\ <<"=">> \o <<"=", "=">> = <<"=", "=", "=">>
<1> DEFINE E == {"="}
<1>1. ASSUME NEW s \in Seq(E), NEW z \in Seq(E), Len(z) = Len(s) + 1 PROVE <<"=">> \o s = z
  <2> DEFINE w == <<"=">> \o s
  <2>1. <<"=">> \in Seq(E) /\ Len(<<"=">>) = 1
    OBVIOUS
  <2>2. w \in Seq(E) /\ Len(w) = 1 + Len(s)
    BY <2>1, ConcatProperties
  <2>3. \A t \in Seq(E) : \A i \in 1 .. Len(t) : t[i] = "="
    OBVIOUS
  <2> HIDE DEF w
  <2>4. Len(w) = Len(z)
    BY <1>1, <2>2
  <2>5. \A i \in 1 .. Len(w) : w[i] = z[i]
    BY <2>2, <2>3, <2>4
  <2>6. w = z
    BY <2>2, <2>4, <2>5, SeqEqual
  <2>. QED
    BY <2>6 DEF w
<1>2. /\ <<>> \in Seq(E) /\ <<"=">> \in Seq(E) /\ <<"=", "=">> \in Seq(E) /\ <<"=", "=", "=">> \in Seq(E)
      /\ Len(<<>>) = 0 /\ Len(<<"=">>) = 1 /\ Len(<<"=", "=">>) = 2 /\ Len(<<"=", "=", "=">>) = 3
  OBVIOUS
<1> DEFINE e0 == <<>>
           e1 == <<"=">>
           e2 == <<"=", "=">>
           e3 == <<"=", "=", "=">>
<1>3. e0 \in Seq(E) /\ e1 \in Seq(E) /\ Len(e1) = Len(e0) + 1
  BY <1>2
<1>4. e2 \in Seq(E) /\ Len(e2) = Len(e1) + 1
  BY <1>2
<1>5. e3 \in Seq(E) /\ Len(e3) = Len(e2) + 1
  BY <1>2
<1> HIDE DEF e0, e1, e2, e3
<1>6. <<"=">> \o e0 = e1
  BY ONLY <1>1, <1>3
<1>7. <<"=">> \o e1 = e2
  BY ONLY <1>1, <1>3, <1>4
<1>8. <<"=">> \o e2 = e3
  BY ONLY <1>1, <1>4, <1>5
<1>. QED
  BY <1>6, <1>7, <1>8 DEF e0, e1, e2, e3

(* Where punctuation ends: past its start, unless it is four equals signs,  *)
(* and after a single equals sign only if that is all of it.                *)
LEMMA PunctEndIs ==
  ASSUME TextOK, NEW p \in Offsets, C(p) \in PunctChars
  PROVE  /\ Clean(p, PunctEnd(p))
         /\ C(p) = "=" /\ PunctEnd(p) = p + 1 => PunctName(p) = <<"=">>
         /\ PunctEnd(p) = p /\ ~(C(p) = "=" /\ RunEnd(p, {"="}) - p >= 5) => FourEquals(p)
<1> DEFINE r == PunctRun(p)
<1>1. p \in 0 .. Len(text) /\ Len(text) \in Nat
  BY CharAt DEF Offsets
<1>2. /\ Clean(p, r) /\ C(r) \notin PunctChars \cup {"\\"}
      /\ r = IF PunctStep[p] = p THEN p ELSE PunctRun(PunctStep[p])
  BY PunctRunIs
<1>3. /\ Clean(p, PunctKept(p))
      /\ PunctKept(p) = p => RunEnd(p, {"="}) = r
      /\ C(p) = "=" => PunctKept(p) # p + 1
  BY PunctKeptIs
<1>4. PunctEnd(p) = IF PunctName(p) \in Whole THEN r ELSE PunctKept(p)
  BY DEF PunctEnd
<1>5. r # p
  BY <1>2
<1> HIDE DEF r
<1>6. Clean(p, PunctEnd(p))
  BY <1>2, <1>3, <1>4
<1>7. ASSUME C(p) = "=", PunctEnd(p) = p + 1 PROVE PunctName(p) = <<"=">>
  <2>1. r = p + 1
    BY <1>3, <1>4, <1>7
  <2>2. p + 1 \in Offsets /\ PunctName(p) = <<"=">> \o PunctName(p + 1)
    BY <1>7, EqualsSpell
  <2>3. PunctName(p + 1) = <<>>
    BY <1>2, <2>1, <2>2, EqualsSpell
  <2>. QED
    BY <2>2, <2>3, EqualsJoined
<1>8. ASSUME PunctEnd(p) = p, ~(C(p) = "=" /\ RunEnd(p, {"="}) - p >= 5) PROVE FourEquals(p)
  <2>1. PunctName(p) \notin Whole /\ RunEnd(p, {"="}) = r
    BY <1>3, <1>4, <1>5, <1>8
  <2>2. r \in p .. Len(text) /\ \A i \in p .. r - 1 : C(i) = "="
    BY <2>1, RunEndIs
  <2>3. C(p) = "="
    BY <1>1, <1>5, <2>2
  <2>4. r - p < 5
    BY <1>1, <1>8, <2>1, <2>2, <2>3
  <2>5. r \in {p + 1, p + 2, p + 3, p + 4}
    BY <1>1, <1>5, <2>2, <2>4
  <2>6. p + 1 \in Offsets /\ PunctName(p) = <<"=">> \o PunctName(p + 1)
    BY <2>3, EqualsSpell
  <2>7. r # p + 1
    <3>1. r = p + 1 => PunctName(p + 1) = <<>>
      BY <1>2, <2>6, EqualsSpell
    <3>2. r = p + 1 => PunctName(p) = <<"=">>
      BY <2>6, <3>1, EqualsJoined
    <3>. QED
      BY <2>1, <3>2 DEF Whole
  <2>8. C(p + 1) = "="
    BY <1>1, <2>2, <2>5, <2>7
  <2>9. p + 2 \in Offsets /\ PunctName(p + 1) = <<"=">> \o PunctName(p + 2)
    <3>1. (p + 1) + 1 = p + 2
      BY <1>1
    <3>. QED
      BY <2>6, <2>8, <3>1, EqualsSpell
  <2>10. r # p + 2
    <3>1. r = p + 2 => PunctName(p + 2) = <<>>
      BY <1>2, <2>9, EqualsSpell
    <3>2. r = p + 2 => PunctName(p + 1) = <<"=">>
      BY <2>9, <3>1, EqualsJoined
    <3>3. r = p + 2 => PunctName(p) = <<"=", "=">>
      BY <2>6, <3>2, EqualsJoined
    <3>. QED
      BY <2>1, <3>3 DEF Whole
  <2>11. C(p + 2) = "="
    BY <1>1, <2>2, <2>5, <2>7, <2>10
  <2>12. p + 3 \in Offsets /\ PunctName(p + 2) = <<"=">> \o PunctName(p + 3)
    <3>1. (p + 2) + 1 = p + 3
      BY <1>1
    <3>. QED
      BY <2>9, <2>11, <3>1, EqualsSpell
  <2>13. r # p + 3
    <3>1. r = p + 3 => PunctName(p + 3) = <<>>
      BY <1>2, <2>12, EqualsSpell
    <3>2. r = p + 3 => PunctName(p + 2) = <<"=">>
      BY <2>12, <3>1, EqualsJoined
    <3>3. r = p + 3 => PunctName(p + 1) = <<"=", "=">>
      BY <2>9, <3>2, EqualsJoined
    <3>4. r = p + 3 => PunctName(p) = <<"=", "=", "=">>
      BY <2>6, <3>3, EqualsJoined
    <3>. QED
      BY <2>1, <3>4 DEF Whole
  <2>14. r = p + 4
    BY <2>5, <2>7, <2>10, <2>13
  <2>. QED
    BY <1>2, <2>1, <2>14 DEF FourEquals
<1>. QED
  BY <1>6, <1>7, <1>8

-----------------------------------------------------------------------------
(* Lines.                                                                   *)

(* A line break is taken whole.                                             *)
LEMMA AfterBreakIs ==
  ASSUME TextOK, NEW p \in Offsets, C(p) \in Breaks
  PROVE  /\ AfterBreak(p) \in {p + 1, p + 2} /\ AfterBreak(p) \in p + 1 .. Len(text)
         /\ \A i \in p .. AfterBreak(p) - 1 : C(i) \in Breaks
         /\ LineStep[p] = AfterBreak(p)
<1>1. p \in 0 .. Len(text) /\ Len(text) \in Nat /\ \A q \in Nat : C(q) # "end" => q < Len(text)
  BY CharAt DEF Offsets
<1>2. p < Len(text)
  BY <1>1 DEF Breaks
<1>3. CASE {C(p), C(p + 1)} = Breaks
  <2>1. AfterBreak(p) = p + 2 /\ C(p + 1) \in Breaks
    BY <1>3 DEF AfterBreak
  <2>2. p + 1 < Len(text)
    BY <1>1, <2>1 DEF Breaks
  <2>3. <<C(p), C(p + 1)>> \in {<<"cr", "nl">>, <<"nl", "cr">>}
    BY <1>3 DEF Breaks
  <2>4. LineStep[p] = p + 2
    BY <2>3 DEF LineStep
  <2>5. \A i \in p .. p + 2 - 1 : i = p \/ i = p + 1
    BY <1>1
  <2>. QED
    BY <1>1, <2>1, <2>2, <2>4, <2>5
<1>4. CASE {C(p), C(p + 1)} # Breaks
  <2>1. AfterBreak(p) = p + 1
    BY <1>4 DEF AfterBreak
  <2>2. <<C(p), C(p + 1)>> \notin {<<"cr", "nl">>, <<"nl", "cr">>} /\ C(p) # "end"
    BY <1>4 DEF Breaks
  <2>3. LineStep[p] = p + 1
    BY <2>2 DEF LineStep
  <2>4. \A i \in p .. p + 1 - 1 : i = p
    BY <1>1
  <2>. QED
    BY <1>1, <1>2, <2>1, <2>3, <2>4
<1>. QED
  BY <1>3, <1>4

(* A step from line break to line break.                                    *)
LEMMA LineStepIs ==
  ASSUME TextOK
  PROVE  /\ Forward(LineStep, Len(text))
         /\ \A i \in Solid : i < Len(text) => LineStep[i] = i + 1
<1>1. Len(text) \in Nat /\ Offsets = 0 .. Len(text) /\ \A q \in Nat : C(q) = "end" <=> q >= Len(text)
  BY CharAt DEF Offsets
<1>2. ASSUME NEW i \in Offsets, C(i) \notin Breaks
      PROVE  LineStep[i] = IF i < Len(text) THEN i + 1 ELSE i
  <2>1. <<C(i), C(i + 1)>> \notin {<<"cr", "nl">>, <<"nl", "cr">>}
    BY <1>2 DEF Breaks
  <2>2. C(i) = "end" <=> ~(i < Len(text))
    BY <1>1
  <2>. QED
    BY <2>1, <2>2 DEF LineStep
<1>3. ASSUME NEW i \in Offsets PROVE LineStep[i] \in 0 .. Len(text) /\ LineStep[i] >= i
  <2>1. CASE C(i) \in Breaks
    BY <1>1, <2>1, AfterBreakIs
  <2>2. CASE C(i) \notin Breaks
    BY <1>1, <1>2, <2>2
  <2>. QED
    BY <2>1, <2>2
<1>4. DOMAIN LineStep = 0 .. Len(text) /\ LineStep = [i \in 0 .. Len(text) |-> LineStep[i]]
  BY <1>1 DEF LineStep
<1>. QED
  BY <1>1, <1>2, <1>3, <1>4 DEF Forward, Solid

BreaksBefore(p) == {i \in 0 .. p - 1 : Begins(i)}

(* What takes no line break stays on the line.                              *)
LEMMA SameLine ==
  ASSUME TextOK, NEW p \in Offsets, NEW q, Clean(p, q)
  PROVE  /\ LineOf(q) = LineOf(p)
         /\ Reaches(LineStep, 0, p) => Reaches(LineStep, 0, q)
<1>1. p \in 0 .. Len(text) /\ Len(text) \in Nat /\ Offsets = 0 .. Len(text)
  BY CharAt DEF Offsets
<1>2. q \in p .. Len(text) /\ \A i \in p .. q - 1 : i \in Solid
  BY DEF Clean
<1>3. BreaksBefore(q) = BreaksBefore(p)
  <2>1. \A i \in p .. q - 1 : ~Begins(i)
    BY <1>2 DEF Begins, Solid
  <2>2. \A i : i \in 0 .. q - 1 <=> i \in 0 .. p - 1 \/ i \in p .. q - 1
    BY <1>1, <1>2
  <2>. QED
    BY <2>1, <2>2 DEF BreaksBefore
<1>4. ASSUME Reaches(LineStep, 0, p), ~Reaches(LineStep, 0, q) PROVE FALSE
  <2> DEFINE M == {i \in p .. q : ~Reaches(LineStep, 0, i)}
  <2>1. q \in M /\ M \subseteq 0 .. Len(text)
    BY <1>1, <1>2, <1>4
  <2>2. PICK m \in M : \A k \in M : m <= k
    <3> HIDE DEF M
    <3>. QED
      BY <1>1, <2>1, Least
  <2>3. m \in p .. q /\ m # p
    BY <1>4
  <2>4. m - 1 \in p .. q - 1 /\ m - 1 \in 0 .. Len(text) /\ m - 1 < Len(text) /\ (m - 1) + 1 = m
    BY <1>1, <1>2, <2>3
  <2>5. Reaches(LineStep, 0, m - 1)
    <3>1. m - 1 \notin M
      BY <2>2, <2>4
    <3>2. m - 1 \in p .. q
      BY <1>1, <1>2, <2>4
    <3>. QED
      BY <3>1, <3>2
  <2>6. LineStep[m - 1] = m /\ Forward(LineStep, Len(text))
    BY <1>2, <2>4, LineStepIs
  <2>7. Reaches(LineStep, 0, m)
    <3>1. 0 \in 0 .. Len(text)
      BY <1>1
    <3>. QED
      BY <1>1, <2>4, <2>5, <2>6, <3>1, ReachSteps
  <2>. QED
    BY <2>2, <2>7
<1>. QED
  BY <1>3, <1>4 DEF LineOf, BreaksBefore

(* A line break begins a line.                                              *)
LEMMA NextLine ==
  ASSUME TextOK, NEW p \in Offsets, C(p) \in Breaks, Reaches(LineStep, 0, p)
  PROVE  /\ LineOf(AfterBreak(p)) = LineOf(p) + 1
         /\ Reaches(LineStep, 0, AfterBreak(p))
<1> DEFINE q == AfterBreak(p)
<1>1. p \in 0 .. Len(text) /\ 0 \in 0 .. Len(text) /\ Len(text) \in Nat
  BY CharAt DEF Offsets
<1>2. q \in {p + 1, p + 2} /\ LineStep[p] = q /\ Forward(LineStep, Len(text))
  BY AfterBreakIs, LineStepIs
<1> HIDE DEF q
<1>3. Reaches(LineStep, 0, q) /\ \A k \in p + 1 .. q - 1 : ~Reaches(LineStep, 0, k)
  <2>1. Reaches(LineStep, 0, LineStep[p]) /\ \A k \in p + 1 .. LineStep[p] - 1 : ~Reaches(LineStep, 0, k)
    BY <1>1, <1>2, ReachSteps
  <2>. QED
    BY <1>2, <2>1
<1>4. BreaksBefore(q) = BreaksBefore(p) \cup {p}
  <2>1. Begins(p) /\ \A k \in p + 1 .. q - 1 : ~Begins(k)
    BY <1>3 DEF Begins
  <2>2. \A i : i \in 0 .. q - 1 <=> i \in 0 .. p - 1 \/ i = p \/ i \in p + 1 .. q - 1
    BY <1>1, <1>2
  <2>. QED
    BY <2>1, <2>2 DEF BreaksBefore
<1>5. IsFiniteSet(BreaksBefore(p)) /\ p \notin BreaksBefore(p)
  <2>1. IsFiniteSet(0 .. p - 1) /\ p \notin 0 .. p - 1
    BY <1>1, FS_Interval
  <2>2. BreaksBefore(p) \subseteq 0 .. p - 1
    BY DEF BreaksBefore
  <2>. QED
    BY <2>1, <2>2, FS_Subset
<1>6. Cardinality(BreaksBefore(q)) = Cardinality(BreaksBefore(p)) + 1 /\ Cardinality(BreaksBefore(p)) \in Nat
  BY <1>4, <1>5, FS_AddElement, FS_CardinalityType
<1>. QED
  BY <1>3, <1>6 DEF LineOf, BreaksBefore, q

-----------------------------------------------------------------------------
(* What is between tokens.                                                  *)

(* A comment ends after the first place that closes it.                     *)
LEMMA CommentEndOnly ==
  ASSUME TextOK, NEW p \in Offsets, NEW j \in Nat, j >= p + 2, Closes(j),
         \A k \in p + 2 .. j - 1 : ~Closes(k)
  PROVE  CommentEnd(p) = j + 2
<1> DEFINE ends == {k \in p + 2 .. Len(text) : Closes(k)}
<1>1. p \in 0 .. Len(text) /\ Len(text) \in Nat /\ \A q \in Nat : C(q) # "end" => q < Len(text)
  BY CharAt DEF Offsets
<1>2. j < Len(text)
  <2>1. C(j) # "end"
    BY DEF Closes
  <2>. QED
    BY <1>1, <2>1
<1>3. j \in ends
  BY <1>1, <1>2
<1>4. \A k \in ends : j <= k
  BY <1>1
<1>5. \A i \in ends : (\A k \in ends : i <= k) => i = j
  <2>1. ends \subseteq Int
    BY <1>1
  <2> HIDE DEF ends
  <2>. QED
    BY <1>3, <1>4, <2>1
<1> DEFINE ch == CHOOSE i \in ends : \A k \in ends : i <= k
<1>6. ch = j
  <2> HIDE DEF ends
  <2>. QED
    BY <1>3, <1>4, <1>5
<1>7. CommentEnd(p) = 2 + ch
  BY <1>3 DEF CommentEnd
<1> HIDE DEF ch
<1>8. 2 + j = j + 2
  OBVIOUS
<1>. QED
  BY ONLY <1>6, <1>7, <1>8

(* A comment of one line ends in the text.                                  *)
LEMMA CommentEndIs ==
  ASSUME TextOK, NEW p \in Offsets
  PROVE  CommentEnd(p) \in p .. Len(text)
<1> DEFINE ends == {k \in p + 2 .. Len(text) : Closes(k)}
<1>1. p \in 0 .. Len(text) /\ Len(text) \in Nat /\ \A q \in Nat : C(q) # "end" => q < Len(text)
  BY CharAt DEF Offsets
<1>2. CASE ends = {}
  <2>1. CommentEnd(p) = p
    BY <1>2 DEF CommentEnd
  <2>. QED
    BY <1>1, <2>1
<1>3. CASE ends # {}
  <2>1. ends \in SUBSET (0 .. Len(text))
    BY <1>1
  <2>2. PICK j \in ends : \A k \in ends : j <= k
    <3> HIDE DEF ends
    <3>. QED
      BY <1>1, <1>3, <2>1, Least
  <2>3. j \in Nat /\ j >= p + 2 /\ Closes(j)
    BY <1>1
  <2>4. \A k \in p + 2 .. j - 1 : ~Closes(k)
    <3>1. ASSUME NEW k \in p + 2 .. j - 1, Closes(k) PROVE FALSE
      <4>1. k \in ends /\ k < j
        BY <1>1, <2>3, <3>1
      <4>2. j <= k
        BY <4>1, <2>2
      <4>. QED
        BY <1>1, <2>3, <4>1, <4>2
    <3>. QED
      BY <3>1
  <2>5. CommentEnd(p) = j + 2
    BY <2>3, <2>4, CommentEndOnly
  <2>6. j + 1 < Len(text)
    <3>1. C(j + 1) # "end" /\ j + 1 \in Nat
      BY <2>3 DEF Closes
    <3>. QED
      BY <1>1, <3>1
  <2>. QED
    BY <1>1, <2>3, <2>5, <2>6
<1>. QED
  BY <1>2, <1>3

(* A step over what is between tokens.                                      *)
LEMMA TriviaStepIs ==
  ASSUME TextOK
  PROVE  /\ Forward(TriviaStep, Len(text))
         /\ \A i \in Offsets :
              /\ C(i) \in Breaks \cup {" "} => TriviaStep[i] = i + 1
              /\ <<C(i), C(i + 1)>> \in {<<"/", "/">>, <<"#", "!">>} => TriviaStep[i] = LineEnd(i)
              /\ C(i) = "/" /\ C(i + 1) = "*" => TriviaStep[i] = CommentEnd(i)
              /\ C(i) \in {"-", "="} /\ RunEnd(i, {C(i)}) >= i + 5 => TriviaStep[i] = RunEnd(i, {C(i)})
<1>1. Len(text) \in Nat /\ Offsets = 0 .. Len(text) /\ \A q \in Nat : C(q) # "end" => q < Len(text)
  BY CharAt DEF Offsets
<1>2. ASSUME NEW i \in Offsets
      PROVE  /\ C(i) \in Breaks \cup {" "} => TriviaStep[i] = i + 1
             /\ <<C(i), C(i + 1)>> \in {<<"/", "/">>, <<"#", "!">>} => TriviaStep[i] = LineEnd(i)
             /\ C(i) = "/" /\ C(i + 1) = "*" => TriviaStep[i] = CommentEnd(i)
             /\ C(i) \in {"-", "="} /\ RunEnd(i, {C(i)}) >= i + 5 => TriviaStep[i] = RunEnd(i, {C(i)})
             /\ TriviaStep[i] \in i .. Len(text)
  <2> DEFINE c == C(i)
             d == C(i + 1)
             r == RunEnd(i, {C(i)})
             isBlank == c \in Breaks \cup {" "}
             isLine == <<c, d>> \in {<<"/", "/">>, <<"#", "!">>}
             isComment == c = "/" /\ d = "*"
             isRule == c \in {"-", "="} /\ r >= i + 5
  <2>1. TriviaStep[i] = CASE isBlank -> i + 1 [] isLine -> LineEnd(i) [] isComment -> CommentEnd(i)
                          [] isRule -> r [] OTHER -> i
    BY DEF TriviaStep
  <2>2. /\ isLine => c \in {"/", "#"} /\ d \in {"/", "!"}
        /\ isBlank => c \in {"nl", "cr", " "}
    BY DEF Breaks
  <2>3. LineEnd(i) \in i .. Len(text) /\ CommentEnd(i) \in i .. Len(text)
    BY LineEndIs, CommentEndIs
  <2>4. isRule => r \in i .. Len(text)
    BY RunEndIs
  <2>5. isBlank => i + 1 \in i .. Len(text)
    <3>1. isBlank => C(i) # "end"
      BY <2>2
    <3>2. i \in Nat
      BY <1>1
    <3>3. isBlank => i < Len(text)
      BY <1>1, <3>1, <3>2
    <3> HIDE DEF isBlank
    <3>. QED
      BY <1>1, <3>2, <3>3
  <2>6. i \in i .. Len(text)
    BY <1>1
  <2>7. /\ isBlank => TriviaStep[i] = i + 1
        /\ isLine => TriviaStep[i] = LineEnd(i)
        /\ isComment => TriviaStep[i] = CommentEnd(i)
        /\ isRule => TriviaStep[i] = r
        /\ ~isBlank /\ ~isLine /\ ~isComment /\ ~isRule => TriviaStep[i] = i
    <3>1. /\ isBlank => ~isLine /\ ~isComment /\ ~isRule
          /\ isLine => ~isComment /\ ~isRule
          /\ isComment => ~isRule
      BY <2>2
    <3> HIDE DEF isBlank, isLine, isComment, isRule
    <3>. QED
      BY <2>1, <3>1
  <2>8. TriviaStep[i] \in i .. Len(text)
    <3> HIDE DEF isBlank, isLine, isComment, isRule
    <3>. QED
      BY <2>3, <2>4, <2>5, <2>6, <2>7
  <2>. QED
    BY <2>7, <2>8
<1>3. DOMAIN TriviaStep = 0 .. Len(text) /\ TriviaStep = [i \in 0 .. Len(text) |-> TriviaStep[i]]
  BY <1>1 DEF TriviaStep
<1>4. ASSUME NEW i \in 0 .. Len(text) PROVE TriviaStep[i] \in 0 .. Len(text) /\ TriviaStep[i] >= i
  <2>1. TriviaStep[i] \in i .. Len(text)
    BY <1>1, <1>2
  <2>. QED
    BY ONLY <1>1, <2>1, i \in 0 .. Len(text)
<1>. QED
  BY <1>2, <1>3, <1>4 DEF Forward

(* One more step.                                                           *)
LEMMA TriviaGrows ==
  ASSUME TextOK, NEW f \in Offsets, NEW p \in Offsets, Trivia(f, p)
  PROVE  Trivia(f, TriviaStep[p])
<1>1. Len(text) \in Nat /\ Offsets = 0 .. Len(text)
  BY CharAt DEF Offsets
<1>. QED
  BY <1>1, TriviaStepIs, ReachSteps DEF Trivia

(* Nothing is trivial.                                                      *)
LEMMA TriviaEmpty ==
  ASSUME TextOK, NEW p \in Offsets
  PROVE  Trivia(p, p)
<1>1. Len(text) \in Nat /\ Offsets = 0 .. Len(text)
  BY CharAt DEF Offsets
<1>. QED
  BY <1>1, TriviaStepIs, ReachUnfolds DEF Trivia

(* Any number of blanks and line breaks.                                    *)
LEMMA TriviaBlanks ==
  ASSUME TextOK, NEW f \in Offsets, NEW p \in Offsets, Trivia(f, p),
         NEW q \in p .. Len(text), \A i \in p .. q - 1 : C(i) \in Breaks \cup {" "}
  PROVE  Trivia(f, q)
<1>1. Len(text) \in Nat /\ Offsets = 0 .. Len(text) /\ p \in 0 .. Len(text)
  BY CharAt DEF Offsets
<1>3. p \in Nat /\ q \in Nat /\ p <= q /\ q <= Len(text)
  BY ONLY <1>1, q \in p .. Len(text)
<1>2. ASSUME ~Trivia(f, q) PROVE FALSE
  <2> DEFINE M == {i \in p .. q : ~Trivia(f, i)}
  <2>1. q \in M /\ M \subseteq 0 .. Len(text)
    <3>1. q \in p .. q /\ p .. q \subseteq 0 .. Len(text)
      BY ONLY <1>3, <1>1
    <3>. QED
      BY <1>2, <3>1
  <2>2. PICK m \in M : \A k \in M : m <= k
    <3> HIDE DEF M
    <3>. QED
      BY <1>1, <2>1, Least
  <2>3. m \in p .. q /\ m # p
    OBVIOUS
  <2>4. m - 1 \in p .. q - 1 /\ m - 1 \in p .. q /\ m - 1 \in Offsets /\ m - 1 < m /\ (m - 1) + 1 = m
    BY ONLY <1>3, <1>1, <2>3
  <2>5. Trivia(f, m - 1)
    <3>1. m - 1 \notin M
      <4>1. ~(m <= m - 1)
        BY ONLY <1>3, <2>3
      <4> HIDE DEF M
      <4>. QED
        BY <2>2, <4>1
    <3>. QED
      BY <2>4, <3>1
  <2>6. TriviaStep[m - 1] = m
    BY <2>4, TriviaStepIs
  <2>7. Trivia(f, m)
    BY <2>4, <2>5, <2>6, TriviaGrows
  <2>. QED
    BY <2>2, <2>7
<1>. QED
  BY <1>2

-----------------------------------------------------------------------------
(* The invariant.  First the parts of it that are about an offset or a      *)
(* token, whatever the state of the lexer.                                  *)
NoBreaks(p, q) == \A i \in p .. q - 1 : C(i) \notin Breaks

(* The line number and the start of the line are right at p, unless a break *)
(* was lost or the start is of an earlier line.                             *)
LineStartAt(p, ls) == NoBreaks(ls, p) /\ (ls > 0 => C(ls - 1) \in Breaks)
PosAt(p, l, ls, lo, st) ==
  /\ ~lo => Reaches(LineStep, 0, p) /\ l = LineOf(p)
  /\ ~lo /\ ~st => LineStartAt(p, ls)

(* What was passed over from f to p, and whether that makes a token first.  *)
BreakIn(f, p) == \E i \in f .. p - 1 : C(i) \in Breaks
CommentIn(f, p) == \E i \in f .. p - 1 : C(i) = "/" /\ C(i + 1) = "*"
FirstAfter(f, p, fi) == (fi => BreakIn(f, p)) /\ (BreakIn(f, p) /\ ~CommentIn(f, p) => fi)
Skipped(f, p, fi) == f <= p /\ Trivia(f, p) /\ FirstAfter(f, p, fi)

(* Between p and q a comment is open.                                       *)
CommentOpen(p, q) ==
  C(p) = "/" /\ C(p + 1) = "*" /\ p + 2 <= q /\ \A k \in p + 2 .. q - 1 : ~Closes(k)

(* The three properties, of a token t.                                      *)
Placed(t, lo, st) ==
  C(t.start) \notin Breaks => /\ ~lo => t.line = LineOf(t.start)
                              /\ ~lo /\ ~st => LineStartAt(t.start, t.lineStart)
Covers(t, f) ==
  /\ f <= t.start /\ t.start <= t.end /\ t.end <= Len(text)
  /\ t.start = t.end => t.kind = "eoi" \/ FourEquals(t.start)
  /\ t.kind # "error" => Trivia(f, IF t.kind = "loanword" THEN t.start - 1 ELSE t.start)
Glued(t, f) ==
  Part(t.start, t.end) = <<"=">> =>
    (t.kind = "equal without whitespace") = (f .. t.start - 1 = {})

TypeInv ==
  /\ text \in Texts /\ src \in Offsets /\ from \in 0 .. src /\ lineStart \in 0 .. src
  /\ line \in Nat
  /\ mode \in {"idle", "end", "scan", "comment", "string"}
  /\ first \in BOOLEAN /\ white \in BOOLEAN /\ lost \in BOOLEAN /\ stale \in BOOLEAN
  /\ mode = "string" => DOMAIN quotes = {"char", "opened", "seen"} /\ quotes.char \in {"'", "\""}
PositionInv == PosAt(src, line, lineStart, lost, stale)
ScanInv == mode = "scan" => Skipped(from, src, first) /\ (white <=> src # from)
CommentInv ==
  mode = "comment" => white /\ \E o \in from .. src - 2 : Skipped(from, o, first) /\ CommentOpen(o, src)
StringInv ==
  mode = "string" =>
    /\ DOMAIN token = {"kind", "start", "end", "line", "lineStart", "first"}
    /\ token.start \in from .. src - 1 /\ C(token.start) \in {"'", "\""} /\ token.kind = "string"
    /\ Placed(token, lost, stale) /\ Skipped(from, token.start, token.first)
ReturnInv ==
  Returned => /\ Placed(token, lost, stale)
              /\ Covers(token, from) /\ token.end = src
              /\ FirstAfter(from, token.start, token.first) /\ Glued(token, from)
IInv == TypeInv /\ PositionInv /\ ScanInv /\ CommentInv /\ StringInv /\ ReturnInv

(* What the invariant says of the last token.                               *)
LEMMA Consequences == IInv => PositionsExact /\ TextCovered /\ MarksExact
<1>1. IInv => PositionsExact
  BY DEF IInv, ReturnInv, PositionsExact, Placed, LineStartAt, NoBreaks
<1>2. IInv => TextCovered
  BY DEF IInv, ReturnInv, TextCovered, Covers
<1>3. IInv => MarksExact
  BY DEF IInv, ReturnInv, MarksExact, FirstAfter, BreakIn, CommentIn, Glued
<1>. QED
  BY <1>1, <1>2, <1>3

-----------------------------------------------------------------------------
(* The text stays, and with it all that is said about offsets and tokens.   *)
LEMMA SteadyText ==
  ASSUME text' = text
  PROVE  /\ \A i : C(i)' = C(i)
         /\ Offsets' = Offsets
         /\ LineStep' = LineStep /\ TriviaStep' = TriviaStep
         /\ \A p : LineOf(p)' = LineOf(p)
         /\ \A p : FourEquals(p)' = FourEquals(p)
<1>1. \A i : C(i)' = C(i)
  BY DEF C
<1>2. Offsets' = Offsets
  BY DEF Offsets
<1>3. LineStep' = LineStep
  BY DEF LineStep, C, Offsets
<1>4. TriviaStep' = TriviaStep
  BY DEF TriviaStep, C, Offsets, LineEnd, RunEnd, CommentEnd, Closes
<1>5. \A p : LineOf(p)' = LineOf(p)
  <2>1. \A i : Begins(i)' <=> Begins(i)
    BY <1>1, <1>3 DEF Begins
  <2>. QED
    BY <2>1 DEF LineOf
<1>6. \A p : FourEquals(p)' = FourEquals(p)
  BY DEF FourEquals, C, RunEnd
<1>. QED
  BY <1>1, <1>2, <1>3, <1>4, <1>5, <1>6

(* What depends on the text alone.                                          *)
LEMMA Steady ==
  ASSUME text' = text
  PROVE  /\ \A p, l, ls, lo, st : PosAt(p, l, ls, lo, st)' <=> PosAt(p, l, ls, lo, st)
         /\ \A f, p, fi : Skipped(f, p, fi)' <=> Skipped(f, p, fi)
         /\ \A f, p, fi : FirstAfter(f, p, fi)' <=> FirstAfter(f, p, fi)
         /\ \A p, q : CommentOpen(p, q)' <=> CommentOpen(p, q)
         /\ \A t, lo, st : Placed(t, lo, st)' <=> Placed(t, lo, st)
         /\ \A t, f : Covers(t, f)' <=> Covers(t, f)
         /\ \A t, f : Glued(t, f)' <=> Glued(t, f)
<1>1. /\ \A i : C(i)' = C(i)
      /\ LineStep' = LineStep /\ TriviaStep' = TriviaStep
      /\ \A p : LineOf(p)' = LineOf(p)
      /\ \A p : FourEquals(p)' = FourEquals(p)
  BY SteadyText
<1>2. \A p, ls : LineStartAt(p, ls)' <=> LineStartAt(p, ls)
  BY <1>1 DEF LineStartAt, NoBreaks
<1>3. \A p, l, ls, lo, st : PosAt(p, l, ls, lo, st)' <=> PosAt(p, l, ls, lo, st)
  BY <1>1, <1>2 DEF PosAt
<1>4. \A f, p, fi : FirstAfter(f, p, fi)' <=> FirstAfter(f, p, fi)
  BY <1>1 DEF FirstAfter, BreakIn, CommentIn
<1>5. \A f, p : Trivia(f, p)' <=> Trivia(f, p)
  BY <1>1 DEF Trivia
<1>6. \A f, p, fi : Skipped(f, p, fi)' <=> Skipped(f, p, fi)
  BY <1>4, <1>5 DEF Skipped
<1>7. \A p, q : CommentOpen(p, q)' <=> CommentOpen(p, q)
  BY <1>1 DEF CommentOpen, Closes
<1>8. \A t, lo, st : Placed(t, lo, st)' <=> Placed(t, lo, st)
  BY <1>1, <1>2 DEF Placed
<1>9. \A t, f : Covers(t, f)' <=> Covers(t, f)
  BY <1>1, <1>5 DEF Covers
<1>10. \A t, f : Glued(t, f)' <=> Glued(t, f)
  BY DEF Glued, Part
<1>. QED
  BY <1>3, <1>4, <1>6, <1>7, <1>8, <1>9, <1>10

-----------------------------------------------------------------------------
(* Moving on without a line break, and over one.                            *)
LEMMA PosClean ==
  ASSUME TextOK, NEW p \in Offsets, NEW q, Clean(p, q), NEW l, NEW ls \in 0 .. p
  PROVE  \A lo, st : PosAt(p, l, ls, lo, st) => PosAt(q, l, ls, lo, st)
<1>. SUFFICES ASSUME NEW lo, NEW st, PosAt(p, l, ls, lo, st) PROVE PosAt(q, l, ls, lo, st)
  OBVIOUS
<1>1. p \in 0 .. Len(text) /\ Len(text) \in Nat
  BY CharAt DEF Offsets
<1>2. q \in p .. Len(text) /\ \A i \in p .. q - 1 : i \in Solid
  BY DEF Clean
<1>3. ~lo => Reaches(LineStep, 0, q) /\ l = LineOf(q)
  BY SameLine DEF PosAt
<1>4. NoBreaks(ls, p) => NoBreaks(ls, q)
  <2>1. \A i \in ls .. q - 1 : i \in ls .. p - 1 \/ i \in p .. q - 1
    BY <1>1, <1>2
  <2>. QED
    BY <1>2, <2>1 DEF NoBreaks, Solid
<1>. QED
  BY <1>3, <1>4 DEF PosAt, LineStartAt

(* Behind a line break the line is the next one; its start is known or is   *)
(* stale.                                                                   *)
LEMMA PosBreak ==
  ASSUME TextOK, NEW p \in Offsets, C(p) \in Breaks, NEW l \in Nat, NEW ls
  PROVE  \A lo, st : PosAt(p, l, ls, lo, st) =>
           /\ PosAt(AfterBreak(p), l + 1, AfterBreak(p), lo, FALSE)
           /\ PosAt(AfterBreak(p), l + 1, ls, lo, TRUE)
<1>. SUFFICES ASSUME NEW lo, NEW st, PosAt(p, l, ls, lo, st)
              PROVE  /\ PosAt(AfterBreak(p), l + 1, AfterBreak(p), lo, FALSE)
                     /\ PosAt(AfterBreak(p), l + 1, ls, lo, TRUE)
  OBVIOUS
<1> DEFINE q == AfterBreak(p)
<1>1. p \in 0 .. Len(text) /\ Len(text) \in Nat
  BY CharAt DEF Offsets
<1>2. q \in {p + 1, p + 2} /\ \A i \in p .. q - 1 : C(i) \in Breaks
  BY AfterBreakIs
<1>3. ~lo => Reaches(LineStep, 0, q) /\ l + 1 = LineOf(q)
  BY NextLine DEF PosAt
<1> HIDE DEF q
<1>4. LineStartAt(q, q)
  <2>1. q .. q - 1 = {} /\ q - 1 \in p .. q - 1
    BY <1>1, <1>2
  <2>. QED
    BY <1>2, <2>1 DEF LineStartAt, NoBreaks
<1>. QED
  BY <1>3, <1>4 DEF PosAt, q

(* Passing over more of what is between tokens.                             *)
LEMMA SkipMore ==
  ASSUME TextOK, NEW p \in Offsets, NEW f \in 0 .. p, NEW q \in p .. Len(text), NEW fi \in BOOLEAN,
         Skipped(f, p, fi), Trivia(f, q), NoBreaks(p, q)
  PROVE  Skipped(f, q, fi)
<1>1. p \in 0 .. Len(text) /\ Len(text) \in Nat
  BY CharAt DEF Offsets
<1>2. \A i : i \in f .. q - 1 <=> i \in f .. p - 1 \/ i \in p .. q - 1
  BY <1>1
<1>3. BreakIn(f, q) <=> BreakIn(f, p)
  BY <1>2 DEF BreakIn, NoBreaks
<1>4. CommentIn(f, p) => CommentIn(f, q)
  BY <1>2 DEF CommentIn
<1>5. f <= q
  BY <1>1
<1>. QED
  BY <1>3, <1>4, <1>5 DEF Skipped, FirstAfter

(* What was skipped with a break in it.                                     *)
LEMMA SkipBreak ==
  ASSUME TextOK, NEW p \in Offsets, NEW f \in 0 .. p, NEW q \in p + 1 .. Len(text),
         C(p) \in Breaks, Trivia(f, q)
  PROVE  Skipped(f, q, TRUE)
<1>1. p \in f .. q - 1 /\ f <= q
  BY CharAt DEF Offsets
<1>. QED
  BY <1>1 DEF Skipped, FirstAfter, BreakIn

(* What was skipped with a comment in it.                                   *)
LEMMA SkipComment ==
  ASSUME TextOK, NEW p \in Offsets, NEW o \in Offsets, NEW f \in 0 .. o, NEW fi \in BOOLEAN,
         Skipped(f, o, fi), CommentOpen(o, p), Closes(p)
  PROVE  Skipped(f, p + 2, fi)
<1>1. o \in 0 .. Len(text) /\ p \in 0 .. Len(text) /\ Len(text) \in Nat
  BY CharAt DEF Offsets
<1>2. /\ C(o) = "/" /\ C(o + 1) = "*" /\ o + 2 <= p
      /\ \A k \in o + 2 .. p - 1 : ~Closes(k)
  BY DEF CommentOpen
<1>3. CommentEnd(o) = p + 2
  BY <1>1, <1>2, CommentEndOnly
<1>4. TriviaStep[o] = p + 2
  BY <1>2, <1>3, TriviaStepIs
<1>5. f \in Offsets
  BY <1>1 DEF Offsets
<1>6. Trivia(f, p + 2)
  BY <1>4, <1>5, TriviaGrows DEF Skipped
<1>7. /\ o \in f .. p + 2 - 1 /\ f <= p + 2
      /\ \A i \in f .. o - 1 : i \in f .. p + 2 - 1
  BY <1>1, <1>2
<1>8. CommentIn(f, p + 2)
  BY <1>2, <1>7 DEF CommentIn
<1>9. BreakIn(f, o) => BreakIn(f, p + 2)
  BY <1>7 DEF BreakIn
<1>. QED
  BY <1>6, <1>7, <1>8, <1>9 DEF Skipped, FirstAfter

-----------------------------------------------------------------------------
(* Tokens.                                                                  *)

(* Text that is a single equals sign.                                       *)
LEMMA PartIsEquals ==
  ASSUME TextOK, NEW p \in Offsets, NEW e \in p .. Len(text), Part(p, e) = <<"=">>
  PROVE  C(p) = "=" /\ e = p + 1
<1>1. p \in 0 .. Len(text) /\ Len(text) \in Nat
  BY CharAt DEF Offsets
<1>2. Len(Part(p, e)) = 1 /\ Part(p, e)[1] = "="
  OBVIOUS
<1>3. text \in Seq(Chars) /\ p \in Nat /\ e \in Nat /\ p <= e /\ e <= Len(text)
  BY <1>1 DEF TextOK
<1>4. Len(SubSeq(text, p + 1, e)) = e - p /\ (p < e => SubSeq(text, p + 1, e)[1] = text[p + 1])
  BY ONLY <1>1, <1>3
<1>5. e = p + 1 /\ text[p + 1] = "="
  BY <1>2, <1>3, <1>4 DEF Part
<1>. QED
  BY <1>3, <1>5 DEF C

(* A token that starts where the lexer is.                                  *)
TokenAt(k, s, e, l, ls, fi) ==
  [kind |-> k, start |-> s, end |-> e, line |-> l, lineStart |-> ls, first |-> fi]

(* A token that ends on the line it starts on, right behind what was        *)
(* skipped.                                                                 *)
LEMMA TokenHere ==
  ASSUME TextOK, NEW p \in Offsets, NEW f \in 0 .. p, NEW e \in p .. Len(text),
         NEW l, NEW ls, NEW lo \in BOOLEAN, NEW st \in BOOLEAN, NEW fi \in BOOLEAN, NEW k,
         PosAt(p, l, ls, lo, st), Skipped(f, p, fi), k # "loanword",
         e = p => k = "eoi" \/ FourEquals(p),
         C(p) = "=" /\ e = p + 1 => (k = "equal without whitespace") = (f = p),
         NEW t, t = TokenAt(k, p, e, l, ls, fi)
  PROVE  Placed(t, lo, st) /\ Covers(t, f) /\ FirstAfter(f, t.start, t.first) /\ Glued(t, f)
<1>1. t.kind = k /\ t.start = p /\ t.end = e /\ t.line = l /\ t.lineStart = ls /\ t.first = fi
  BY DEF TokenAt
<1>2. p \in 0 .. Len(text) /\ Len(text) \in Nat
  BY CharAt DEF Offsets
<1>7. p <= e /\ e <= Len(text)
  BY ONLY <1>2, e \in p .. Len(text)
<1>3. Placed(t, lo, st)
  BY <1>1 DEF Placed, PosAt
<1>4. Covers(t, f)
  BY <1>1, <1>7 DEF Covers, Skipped
<1>5. FirstAfter(f, t.start, t.first)
  BY <1>1 DEF Skipped
<1>6. Glued(t, f)
  <2>1. f .. p - 1 = {} <=> f = p
    <3>1. p \in Nat /\ f \in Nat /\ f <= p
      BY ONLY <1>2, f \in 0 .. p
    <3>2. f # p => f \in f .. p - 1
      BY ONLY <3>1
    <3>3. f = p => f .. p - 1 = {}
      BY ONLY <3>1
    <3>. QED
      BY <3>2, <3>3
  <2>. QED
    BY <1>1, <2>1, PartIsEquals DEF Glued
<1>. QED
  BY <1>3, <1>4, <1>5, <1>6

(* What the invariant says first of all.                                    *)
LEMMA Types ==
  ASSUME IInv
  PROVE  /\ TextOK /\ src \in Offsets /\ src \in Nat /\ src <= Len(text) /\ Len(text) \in Nat
         /\ from \in 0 .. src /\ from \in Offsets /\ lineStart \in 0 .. src /\ line \in Nat
         /\ first \in BOOLEAN /\ white \in BOOLEAN /\ lost \in BOOLEAN /\ stale \in BOOLEAN
<1>1. TextOK /\ src \in Offsets /\ from \in 0 .. src
  BY TextsAssumption DEF IInv, TypeInv, TextOK
<1>2. Len(text) \in Nat
  BY <1>1, CharAt
<1>3. src \in Nat /\ src <= Len(text) /\ from \in Offsets
  BY <1>1, <1>2 DEF Offsets
<1>. QED
  BY <1>1, <1>2, <1>3 DEF IInv, TypeInv

(* Returning a token that is right keeps the invariant.                     *)
LEMMA ReturnKeeps ==
  ASSUME IInv, text' = text, from' = from, line' = line, lineStart' = lineStart,
         first' = first, white' = white, lost' \in BOOLEAN, stale' \in BOOLEAN,
         src' = token'.end, src' \in src .. Len(text),
         mode' \in {"idle", "end"},
         PosAt(src', line, lineStart, lost', stale'),
         Placed(token', lost', stale'), Covers(token', from),
         FirstAfter(from, token'.start, token'.first), Glued(token', from)
  PROVE  IInv'
<1>1. TypeInv'
  <2>1. src' \in Offsets' /\ from' \in 0 .. src' /\ lineStart' \in 0 .. src'
    BY Types DEF Offsets
  <2>. QED
    BY <2>1, Types DEF IInv, TypeInv
<1>2. PositionInv'
  BY Steady DEF PositionInv
<1>3. ReturnInv'
  BY Steady DEF ReturnInv
<1>. QED
  BY <1>1, <1>2, <1>3 DEF IInv, ScanInv, CommentInv, StringInv

-----------------------------------------------------------------------------
(* Stretches without a line break.                                          *)
LEMMA CleanJoin ==
  ASSUME TextOK, NEW p \in Offsets, NEW q, NEW r, Clean(p, q), Clean(q, r)
  PROVE  Clean(p, r)
<1>1. p \in 0 .. Len(text) /\ Len(text) \in Nat
  BY CharAt DEF Offsets
<1>2. q \in p .. Len(text) /\ r \in q .. Len(text)
  BY DEF Clean
<1>3. \A i \in p .. r - 1 : i \in p .. q - 1 \/ i \in q .. r - 1
  BY <1>1, <1>2
<1>4. r \in p .. Len(text)
  BY <1>1, <1>2
<1>. QED
  BY <1>3, <1>4 DEF Clean

(* Stretches of text without a line break: a part of one.                   *)
LEMMA CleanPrefix ==
  ASSUME TextOK, NEW p \in Offsets, NEW q, Clean(p, q), NEW r \in p .. q
  PROVE  Clean(p, r)
<1>1. p \in 0 .. Len(text) /\ Len(text) \in Nat
  BY CharAt DEF Offsets
<1>2. q \in p .. Len(text)
  BY DEF Clean
<1>3. \A i \in p .. r - 1 : i \in p .. q - 1
  BY <1>1, <1>2
<1>4. r \in p .. Len(text)
  BY <1>1, <1>2
<1>. QED
  BY <1>3, <1>4 DEF Clean

(* The empty one.                                                           *)
LEMMA CleanNone ==
  ASSUME TextOK, NEW p \in Offsets
  PROVE  Clean(p, p)
<1>1. p \in 0 .. Len(text) /\ Len(text) \in Nat
  BY CharAt DEF Offsets
<1>2. p .. p - 1 = {} /\ p \in p .. Len(text)
  BY <1>1
<1>. QED
  BY <1>2 DEF Clean

(* One character.                                                           *)
LEMMA CleanOne ==
  ASSUME TextOK, NEW p \in Offsets, C(p) \notin Breaks \cup {"end"}
  PROVE  Clean(p, p + 1) /\ p + 1 \in Offsets
<1>1. p \in 0 .. Len(text) /\ Len(text) \in Nat /\ p < Len(text)
  BY CharAt DEF Offsets
<1>2. p .. p + 1 - 1 = {p} /\ p + 1 \in p .. Len(text) /\ p + 1 \in 0 .. Len(text)
  BY <1>1
<1>. QED
  BY <1>2 DEF Clean, Solid, Offsets

(* Two characters.                                                          *)
LEMMA CleanTwo ==
  ASSUME TextOK, NEW p \in Offsets, C(p) \notin Breaks \cup {"end"}, C(p + 1) \notin Breaks \cup {"end"}
  PROVE  Clean(p, p + 2) /\ p + 2 \in Offsets
<1>1. Clean(p, p + 1) /\ p + 1 \in Offsets
  BY CleanOne
<1>2. Clean(p + 1, (p + 1) + 1) /\ (p + 1) + 1 \in Offsets
  BY <1>1, CleanOne
<1>3. (p + 1) + 1 = p + 2
  BY CharAt DEF Offsets
<1>. QED
  BY <1>1, <1>2, <1>3, CleanJoin

(* A run of characters of which none is a break.                            *)
LEMMA CleanRun ==
  ASSUME TextOK, NEW p \in Offsets, NEW S, S \cap Breaks = {}, "end" \notin S
  PROVE  Clean(p, RunEnd(p, S)) /\ RunEnd(p, S) \in Offsets
<1> DEFINE r == RunEnd(p, S)
<1>1. p \in 0 .. Len(text) /\ Len(text) \in Nat
  BY CharAt DEF Offsets
<1>2. r \in p .. Len(text) /\ \A i \in p .. r - 1 : C(i) \in S
  BY RunEndIs
<1> HIDE DEF r
<1>3. \A i \in p .. r - 1 : i \in 0 .. Len(text)
  BY <1>1, <1>2
<1>4. r \in 0 .. Len(text)
  BY <1>1, <1>2
<1>. QED
  BY <1>2, <1>3, <1>4 DEF Clean, Solid, Offsets, r

-----------------------------------------------------------------------------
(* A token from where the lexer is to e.                                    *)
LEMMA EmitKeeps ==
  ASSUME IInv, mode = "scan", NEW k, NEW e, Emit(k, src, e),
         line' = line, lineStart' = lineStart, lost' \in BOOLEAN, stale' \in BOOLEAN,
         lost => lost', stale => stale',
         e \in src .. Len(text), Clean(src, e) \/ lost', k # "loanword",
         e = src => k = "eoi" \/ FourEquals(src),
         C(src) = "=" /\ e = src + 1 => (k = "equal without whitespace") = (from = src)
  PROVE  IInv'
<1>1. TextOK /\ src \in Offsets /\ from \in 0 .. src /\ lineStart \in 0 .. src /\ first \in BOOLEAN
  BY Types
<1>2. /\ token' = TokenAt(k, src, e, line, lineStart, first) /\ src' = token'.end
      /\ mode' \in {"idle", "end"}
      /\ text' = text /\ first' = first /\ white' = white /\ from' = from
  BY DEF Emit, Returns, Started, TokenAt
<1>3. token'.end = e
  BY <1>2 DEF TokenAt
<1>4. PosAt(src, line, lineStart, lost', stale') /\ Skipped(from, src, first)
  BY DEF IInv, PositionInv, PosAt, ScanInv
<1>5. PosAt(e, line, lineStart, lost', stale')
  <2>1. CASE lost'
    BY <2>1 DEF PosAt
  <2>2. CASE Clean(src, e)
    BY <2>2, <1>1, <1>4, PosClean
  <2>. QED
    BY <2>1, <2>2
<1>6. /\ Placed(token', lost', stale') /\ Covers(token', from)
      /\ FirstAfter(from, token'.start, token'.first) /\ Glued(token', from)
  <2>. DEFINE lo == lost'  st == stale'  t == token'
  <2>1. /\ lo \in BOOLEAN /\ st \in BOOLEAN /\ t = TokenAt(k, src, e, line, lineStart, first)
        /\ PosAt(src, line, lineStart, lo, st) /\ Skipped(from, src, first)
        /\ TextOK /\ src \in Offsets /\ from \in 0 .. src /\ first \in BOOLEAN
        /\ e \in src .. Len(text) /\ k # "loanword"
        /\ (e = src => k = "eoi" \/ FourEquals(src))
        /\ (C(src) = "=" /\ e = src + 1 => (k = "equal without whitespace") = (from = src))
    BY <1>1, <1>2, <1>4
  <2>. HIDE DEF lo, st, t
  <2>2. Placed(t, lo, st) /\ Covers(t, from) /\ FirstAfter(from, t.start, t.first) /\ Glued(t, from)
    BY ONLY <2>1, TokenHere, ZenonT(40)
  <2>. QED
    BY <2>2 DEF lo, st, t
<1>. QED
  BY <1>2, <1>3, <1>5, <1>6, ReturnKeeps

(* The actions, one by one: the end of the text.                            *)
LEMMA EndOfInputKeeps == IInv /\ EndOfInput => IInv'
<1>. SUFFICES ASSUME IInv, EndOfInput PROVE IInv'
  OBVIOUS
<1>1. mode = "scan" /\ C(src) = "end" /\ Emit("eoi", src, src) /\ UNCHANGED position
  BY DEF EndOfInput
<1>2. Clean(src, src) /\ src \in src .. Len(text)
  BY Types, CleanNone
<1>. QED
  BY <1>1, <1>2, Types, EmitKeeps DEF position

(* A token of one character.                                                *)
LEMMA OneKeeps ==
  ASSUME IInv, mode = "scan", C(src) \notin Breaks \cup {"end", "="}, NEW k, k # "loanword",
         Emit(k, src, src + 1), UNCHANGED position
  PROVE  IInv'
<1>1. Clean(src, src + 1) /\ src + 1 \in src .. Len(text) /\ src + 1 # src
  BY Types, CleanOne DEF Clean
<1>. QED
  BY <1>1, Types, EmitKeeps DEF position

(* A longer one.                                                            *)
LEMMA LongKeeps ==
  ASSUME IInv, mode = "scan", C(src) # "=", NEW k, k # "loanword", NEW e,
         Emit(k, src, e), Clean(src, e), e > src, UNCHANGED position
  PROVE  IInv'
<1>1. e \in src .. Len(text) /\ e # src
  BY Types DEF Clean
<1>. QED
  BY <1>1, Types, EmitKeeps DEF position

(* A character that is a token.                                             *)
LEMMA SimpleKeeps == IInv /\ Simple => IInv'
<1>. SUFFICES ASSUME IInv, Simple PROVE IInv'
  OBVIOUS
<1>1. mode = "scan" /\ C(src) = "(" /\ Emit("mark", src, src + 1) /\ UNCHANGED position
  BY DEF Simple
<1>. QED
  BY <1>1, OneKeeps DEF Breaks

(* A character that starts none.                                            *)
LEMMA UnknownKeeps == IInv /\ Unknown => IInv'
<1>. SUFFICES ASSUME IInv, Unknown PROVE IInv'
  OBVIOUS
<1>1. mode = "scan" /\ C(src) = "bad" /\ Emit("error", src, src + 1) /\ UNCHANGED position
  BY DEF Unknown
<1>. QED
  BY <1>1, OneKeeps DEF Breaks

(* A name.                                                                  *)
LEMMA NameKeeps == IInv /\ Name => IInv'
<1>. SUFFICES ASSUME IInv, Name PROVE IInv'
  OBVIOUS
<1>1. mode = "scan" /\ C(src) \in {"a", "\\"} /\ Emit("name", src, NameEnd(src)) /\ UNCHANGED position
  BY DEF Name
<1>2. Clean(src, NameEnd(src)) /\ NameEnd(src) > src
  BY <1>1, Types, NameEndIs DEF NameChars
<1>. QED
  BY <1>1, <1>2, LongKeeps

(* Punctuation, equal signs among it.                                       *)
LEMMA PunctuationKeeps == IInv /\ Punctuation => IInv'
<1>. SUFFICES ASSUME IInv, Punctuation PROVE IInv'
  OBVIOUS
<1> DEFINE e == PunctEnd(src)
           k == CASE PunctName(src) # <<"=">> -> "punct"
                  [] PunctName(src) = <<"=">> /\ white -> "equal"
                  [] OTHER -> "equal without whitespace"
<1>1. mode = "scan" /\ C(src) \in PunctChars /\ ~IsSeparator /\ Emit(k, src, e) /\ UNCHANGED position
  BY DEF Punctuation
<1>2. TextOK /\ src \in Offsets /\ white \in BOOLEAN
  BY Types
<1>3. /\ Clean(src, e)
      /\ C(src) = "=" /\ e = src + 1 => PunctName(src) = <<"=">>
      /\ e = src /\ ~(C(src) = "=" /\ RunEnd(src, {"="}) - src >= 5) => FourEquals(src)
  BY <1>1, <1>2, PunctEndIs
<1>4. e = src => FourEquals(src)
  BY <1>1, <1>3 DEF IsSeparator
<1>5. k # "loanword"
  OBVIOUS
<1>6. white <=> src # from
  BY <1>1 DEF IInv, ScanInv
<1>7. C(src) = "=" /\ e = src + 1 => (k = "equal without whitespace") = (from = src)
  BY <1>2, <1>3, <1>6
<1> HIDE DEF e, k
<1>8. e \in src .. Len(text)
  BY <1>3 DEF Clean
<1>. QED
  BY <1>1, <1>3, <1>4, <1>5, <1>7, <1>8, Types, EmitKeeps DEF position

(* A number ends after its digits and its suffix.                           *)
LEMMA NumberKeeps ==
  ASSUME IInv, mode = "scan", C(src) \in {"1", "."}, NEW d, Clean(src, d),
         C(src) = "." => d > src, EmitNumber(src, d), UNCHANGED position
  PROVE  IInv'
<1> DEFINE q == RunEnd(d, {"a", "1"})
<1>1. PICK k \in {"number", "error"} : Emit(k, src, q)
  BY DEF EmitNumber
<1>2. TextOK /\ src \in Offsets /\ src \in Nat /\ Len(text) \in Nat
  BY Types
<1>3. d \in src .. Len(text)
  BY DEF Clean
<1>4. d \in Offsets
  BY <1>2, <1>3 DEF Offsets
<1>5. q \in d .. Len(text) /\ C(q) \notin {"a", "1"} /\ Clean(d, q)
  BY <1>2, <1>4, RunEndIs, CleanRun DEF Breaks
<1> HIDE DEF q
<1>6. Clean(src, q)
  BY <1>2, <1>5, CleanJoin
<1>7. q # src
  BY <1>2, <1>3, <1>5
<1>8. q > src
  BY <1>2, <1>3, <1>5, <1>7
<1>. QED
  BY <1>1, <1>6, <1>8, LongKeeps

(* A number.                                                                *)
LEMMA NumbersKeep == IInv /\ Number => IInv'
<1>. SUFFICES ASSUME IInv, Number PROVE IInv'
  OBVIOUS
<1> DEFINE r == RunEnd(src, {"1", "'", "\""})
           d == IF C(r) = "." /\ C(r + 1) # "." THEN RealEnd(src) ELSE r
<1>1. mode = "scan" /\ C(src) = "1" /\ EmitNumber(src, d) /\ UNCHANGED position
  BY DEF Number
<1>2. Clean(src, r) /\ Clean(src, RealEnd(src))
  BY Types, CleanRun, RealEndIs DEF Breaks
<1>3. Clean(src, d)
  BY <1>2
<1> HIDE DEF d
<1>. QED
  BY <1>1, <1>3, NumberKeeps

(* A dot, which may start a number.                                         *)
LEMMA DotKeeps == IInv /\ Dot => IInv'
<1>. SUFFICES ASSUME IInv, Dot PROVE IInv'
  OBVIOUS
<1>1. mode = "scan" /\ C(src) = "." /\ UNCHANGED position
  BY DEF Dot
<1>2. TextOK /\ src \in Offsets /\ src \in Nat /\ Len(text) \in Nat
  BY Types
<1>3. CASE C(src + 1) = "1"
  <2>1. EmitNumber(src, RealEnd(src))
    BY <1>3 DEF Dot
  <2>2. Clean(src, RealEnd(src))
    BY <1>2, RealEndIs
  <2>3. DigitsEnd(src) = src
    BY <1>1, <1>2, DigitsEndIs
  <2>4. RealEnd(src) = DigitsEnd(src + 1)
    BY <1>1, <2>3 DEF RealEnd
  <2>5. src + 1 \in Offsets
    BY <1>1, <1>2, CleanOne DEF Breaks
  <2>6. DigitsEnd(src + 1) \in src + 1 .. Len(text)
    BY <1>2, <2>5, DigitsEndIs DEF Clean
  <2>7. RealEnd(src) > src
    BY <1>2, <2>4, <2>6
  <2>. QED
    BY <1>1, <2>1, <2>2, <2>7, NumberKeeps
<1>4. CASE C(src + 1) # "1"
  <2> DEFINE r == RunEnd(src, {"."})
             e == Min(r, src + 3)
  <2>1. Emit("mark", src, e)
    BY <1>4 DEF Dot
  <2>2. Clean(src, r) /\ r \in src .. Len(text) /\ C(r) # "."
    BY <1>2, CleanRun, RunEndIs DEF Breaks
  <2> HIDE DEF r
  <2>3. r # src
    BY <1>1, <2>2
  <2>4. e \in src .. r /\ e > src
    BY <1>2, <2>2, <2>3 DEF Min
  <2>5. Clean(src, e)
    BY <1>2, <2>2, <2>4, CleanPrefix
  <2>. QED
    BY <1>1, <2>1, <2>4, <2>5, LongKeeps
<1>. QED
  BY <1>3, <1>4

(* The token of a loanword starts after the hash.                           *)
LEMMA LoanwordKeeps == IInv /\ Loanword => IInv'
<1>. SUFFICES ASSUME IInv, Loanword PROVE IInv'
  OBVIOUS
<1> DEFINE s == src + 1
           q == NameEnd(s)
<1>1. mode = "scan" /\ C(src) = "#" /\ UNCHANGED position
  BY DEF Loanword
<1>2. TextOK /\ src \in Offsets /\ src \in Nat /\ Len(text) \in Nat
  BY Types
<1>3. C(src) \notin Breaks \cup {"end", "="}
  BY <1>1 DEF Breaks
<1>4. \/ C(s) \in {"#", "/"} /\ \E k \in {"mark", "error"} : Emit(k, src, src + 2)
      \/ C(s) = "a" /\ \E k \in {"loanword", "error"} : Emit(k, s, q)
      \/ Emit("error", src, src + 1)
  <2>1. CASE C(s) = "#"
    BY <2>1 DEF Loanword
  <2>2. CASE C(s) = "/"
    BY <2>2 DEF Loanword
  <2>3. CASE C(s) = "a"
    BY <2>3 DEF Loanword
  <2>4. CASE C(s) \notin {"#", "/", "a"}
    BY <2>4 DEF Loanword
  <2>. QED
    BY <2>1, <2>2, <2>3, <2>4
<1>5. CASE C(s) \in {"#", "/"} /\ \E k \in {"mark", "error"} : Emit(k, src, src + 2)
  <2>1. PICK k \in {"mark", "error"} : Emit(k, src, src + 2)
    BY <1>5
  <2>2. C(src + 1) \notin Breaks \cup {"end"}
    BY <1>5 DEF Breaks
  <2>3. Clean(src, src + 2) /\ src + 2 > src
    BY <1>2, <1>3, <2>2, CleanTwo
  <2>. QED
    BY <1>1, <1>3, <2>1, <2>3, LongKeeps
<1>6. CASE Emit("error", src, src + 1)
  BY <1>1, <1>3, <1>6, OneKeeps
<1>7. CASE C(s) = "a" /\ \E k \in {"loanword", "error"} : Emit(k, s, q)
  <2>1. PICK k \in {"loanword", "error"} : Emit(k, s, q)
    BY <1>7
  <2>2. Clean(src, s) /\ s \in Offsets
    BY <1>2, <1>3, CleanOne
  <2>3. Clean(s, q) /\ q > s
    BY <1>2, <1>7, <2>2, NameEndIs DEF NameChars
  <2>4. Clean(src, q)
    BY <1>2, <2>2, <2>3, CleanJoin
  <2> HIDE DEF q
  <2>5. /\ token' = TokenAt(k, s, q, line, lineStart, first) /\ src' = token'.end
        /\ mode' \in {"idle", "end"}
        /\ text' = text /\ first' = first /\ white' = white /\ from' = from
    BY <2>1 DEF Emit, Returns, Started, TokenAt
  <2>6. token'.kind = k /\ token'.start = s /\ token'.end = q /\ token'.line = line
        /\ token'.lineStart = lineStart /\ token'.first = first
    BY <2>5 DEF TokenAt
  <2>7. PosAt(src, line, lineStart, lost, stale) /\ Skipped(from, src, first)
    BY <1>1 DEF IInv, PositionInv, ScanInv
  <2>8. PosAt(s, line, lineStart, lost, stale) /\ PosAt(q, line, lineStart, lost, stale)
    BY <1>2, <2>2, <2>4, <2>7, Types, PosClean
  <2>9. lost' = lost /\ stale' = stale /\ line' = line /\ lineStart' = lineStart
    BY <1>1 DEF position
  <2>10. Placed(token', lost', stale')
    BY <2>6, <2>8, <2>9 DEF Placed, PosAt
  <2>11. q \in s .. Len(text) /\ s - 1 = src /\ from <= s /\ q # s /\ q \in src .. Len(text)
    BY <1>2, <2>3, Types DEF Clean
  <2>12. Covers(token', from)
    BY <2>6, <2>7, <2>11 DEF Covers, Skipped
  <2>13. FirstAfter(from, token'.start, token'.first)
    <3>1. \A i : i \in from .. s - 1 <=> i \in from .. src - 1 \/ i = src
      BY <1>2, Types
    <3>2. BreakIn(from, s) <=> BreakIn(from, src)
      BY <1>3, <3>1 DEF BreakIn
    <3>3. CommentIn(from, src) => CommentIn(from, s)
      BY <3>1 DEF CommentIn
    <3>. QED
      BY <2>6, <2>7, <3>2, <3>3 DEF Skipped, FirstAfter
  <2>14. Glued(token', from)
    <3>1. C(s) # "="
      BY <1>7
    <3>. QED
      BY <1>2, <2>2, <2>6, <2>11, <3>1, PartIsEquals DEF Glued
  <2>. QED
    BY <2>5, <2>6, <2>8, <2>9, <2>10, <2>11, <2>12, <2>13, <2>14, Types, ReturnKeeps
<1>. QED
  BY <1>4, <1>5, <1>6, <1>7

-----------------------------------------------------------------------------
(* Between tokens.                                                          *)
LEMMA CallKeeps == IInv /\ Call => IInv'
<1>. SUFFICES ASSUME IInv, Call PROVE IInv'
  OBVIOUS
<1>1. /\ mode' = "scan" /\ first' = FALSE /\ white' = FALSE /\ from' = src
      /\ text' = text /\ src' = src /\ line' = line /\ lineStart' = lineStart
      /\ lost' = lost /\ stale' = stale
  BY DEF Call, position
<1>2. Skipped(src, src, FALSE)
  <2>1. src .. src - 1 = {} /\ src <= src
    BY Types
  <2>2. Trivia(src, src)
    BY Types, TriviaEmpty
  <2>. QED
    BY <2>1, <2>2 DEF Skipped, FirstAfter, BreakIn
<1>3. TypeInv'
  <2>1. src' \in Offsets' /\ from' \in 0 .. src' /\ lineStart' \in 0 .. src'
    BY <1>1, Types DEF Offsets
  <2>. QED
    BY <1>1, <2>1, Types DEF IInv, TypeInv
<1>4. PositionInv'
  BY <1>1, Steady DEF IInv, PositionInv
<1>5. ScanInv'
  BY <1>1, <1>2, Steady DEF ScanInv
<1>. QED
  BY <1>1, <1>3, <1>4, <1>5 DEF IInv, CommentInv, StringInv, ReturnInv, Returned

(* Passing over something on the way to a token.                            *)
LEMMA SkipKeeps ==
  ASSUME IInv, NEW q, SkipTo(q), mode' = "scan", q \in src + 1 .. Len(text),
         line' \in Nat, lineStart' \in 0 .. q,
         first' \in BOOLEAN, lost' \in BOOLEAN, stale' \in BOOLEAN,
         PosAt(q, line', lineStart', lost', stale'), Skipped(from, q, first')
  PROVE  IInv'
<1>1. src' = q /\ white' = TRUE /\ text' = text /\ from' = from
  BY DEF SkipTo
<1>2. q \in 0 .. Len(text) /\ from \in 0 .. q /\ q # from
  BY Types
<1>3. TypeInv'
  <2>1. src' \in Offsets' /\ from' \in 0 .. src' /\ lineStart' \in 0 .. src'
    BY <1>1, <1>2 DEF Offsets
  <2>. QED
    BY <1>1, <2>1 DEF IInv, TypeInv
<1>4. PositionInv'
  BY <1>1, Steady DEF PositionInv
<1>5. ScanInv'
  BY <1>1, <1>2, Steady DEF ScanInv
<1>. QED
  BY <1>3, <1>4, <1>5 DEF IInv, CommentInv, StringInv, ReturnInv, Returned

(* Passing over something that is on one line.                              *)
LEMMA SkipLineKeeps ==
  ASSUME IInv, mode = "scan", NEW q, SkipTo(q), UNCHANGED <<mode, first, position>>,
         Clean(src, q), q # src, Trivia(from, q)
  PROVE  IInv'
<1>1. TextOK /\ src \in Offsets /\ src \in Nat /\ from \in 0 .. src /\ lineStart \in 0 .. src /\ Len(text) \in Nat
  BY Types
<1>2. q \in src .. Len(text) /\ NoBreaks(src, q)
  BY DEF Clean, Solid, NoBreaks
<1>3. q \in src + 1 .. Len(text) /\ lineStart \in 0 .. q
  BY <1>1, <1>2
<1>4. PosAt(q, line, lineStart, lost, stale)
  BY <1>1, PosClean DEF IInv, PositionInv
<1>5. Skipped(from, q, first)
  BY <1>1, <1>2, Types, SkipMore DEF IInv, ScanInv
<1>6. /\ mode' = "scan" /\ first' = first /\ line' = line /\ lineStart' = lineStart
      /\ lost' = lost /\ stale' = stale
  BY DEF position
<1>. QED
  BY <1>3, <1>4, <1>5, <1>6, Types, SkipKeeps

(* Blanks.                                                                  *)
LEMMA BlankKeeps == IInv /\ Blank => IInv'
<1>. SUFFICES ASSUME IInv, Blank PROVE IInv'
  OBVIOUS
<1> DEFINE q == RunEnd(src, {" "})
<1>1. mode = "scan" /\ C(src) = " " /\ SkipTo(q) /\ UNCHANGED <<mode, first, position>>
  BY DEF Blank
<1>2. q \in src .. Len(text) /\ C(q) # " " /\ (\A i \in src .. q - 1 : C(i) = " ") /\ Clean(src, q)
  BY Types, RunEndIs, CleanRun DEF Breaks
<1> HIDE DEF q
<1>3. Trivia(from, src)
  BY <1>1 DEF IInv, ScanInv, Skipped
<1>4. Trivia(from, q)
  BY <1>2, <1>3, Types, TriviaBlanks
<1>. QED
  BY <1>1, <1>2, <1>4, SkipLineKeeps

(* A line break.                                                            *)
LEMMA BreakKeeps == IInv /\ Break => IInv'
<1>. SUFFICES ASSUME IInv, Break PROVE IInv'
  OBVIOUS
<1> DEFINE q == AfterBreak(src)
<1>1. /\ mode = "scan" /\ C(src) \in Breaks /\ SkipTo(q)
      /\ line' = line + 1 /\ lineStart' = q /\ first' = TRUE
      /\ stale' = FALSE /\ mode' = mode /\ lost' = lost
  BY DEF Break
<1>2. q \in src + 1 .. Len(text) /\ \A i \in src .. q - 1 : C(i) \in Breaks
  BY <1>1, Types, AfterBreakIs
<1>3. PosAt(q, line + 1, q, lost, FALSE)
  BY <1>1, Types, PosBreak DEF IInv, PositionInv
<1> HIDE DEF q
<1>4. Trivia(from, src)
  BY <1>1 DEF IInv, ScanInv, Skipped
<1>5. q \in src .. Len(text) /\ q \in 0 .. q
  BY <1>2, Types
<1>6. Trivia(from, q)
  BY <1>2, <1>4, <1>5, Types, TriviaBlanks
<1>7. Skipped(from, q, TRUE)
  BY <1>1, <1>2, <1>6, Types, SkipBreak
<1>8. line + 1 \in Nat
  BY Types
<1>. QED
  BY <1>1, <1>2, <1>3, <1>5, <1>7, <1>8, Types, SkipKeeps

(* A comment up to the end of its line.                                     *)
LEMMA LineCommentKeeps == IInv /\ LineComment => IInv'
<1>. SUFFICES ASSUME IInv, LineComment PROVE IInv'
  OBVIOUS
<1> DEFINE q == LineEnd(src + 2)
<1>1. /\ mode = "scan" /\ <<C(src), C(src + 1)>> \in {<<"/", "/">>, <<"#", "!">>}
      /\ SkipTo(q) /\ UNCHANGED <<mode, first, position>>
  BY DEF LineComment
<1>2. TextOK /\ src \in Offsets /\ src \in Nat /\ Len(text) \in Nat
  BY Types
<1>3. C(src) \notin Breaks \cup {"end"} /\ C(src + 1) \notin Breaks \cup {"end"}
  BY <1>1 DEF Breaks
<1>4. Clean(src, src + 2) /\ src + 2 \in Offsets
  BY <1>2, <1>3, CleanTwo
<1>5. /\ q \in src + 2 .. Len(text) /\ C(q) \in Breaks \cup {"end"}
      /\ \A i \in src + 2 .. q - 1 : C(i) \notin Breaks
  BY <1>2, <1>4, LineEndIs
<1> HIDE DEF q
<1>6. q \in src .. Len(text) /\ q # src
  BY <1>2, <1>5
<1>7. \A i \in src .. q - 1 : C(i) \notin Breaks /\ i \in Offsets
  <2>1. ASSUME NEW i \in src .. q - 1 PROVE C(i) \notin Breaks /\ i \in Offsets
    <3>1. i = src \/ i = src + 1 \/ i \in src + 2 .. q - 1
      BY <1>2, <1>5
    <3>2. i \in Offsets
      BY <1>2, <1>5 DEF Offsets
    <3>. QED
      BY <1>3, <1>5, <3>1, <3>2
  <2>. QED
    BY <2>1
<1>8. Clean(src, q)
  BY <1>6, <1>7 DEF Clean, Solid
<1>9. LineEnd(src) = q
  BY <1>2, <1>5, <1>6, <1>7, LineEndOnly
<1>10. TriviaStep[src] = q
  BY <1>1, <1>2, <1>9, TriviaStepIs
<1>11. Trivia(from, q)
  BY <1>1, <1>2, <1>10, Types, TriviaGrows DEF IInv, ScanInv, Skipped
<1>. QED
  BY <1>1, <1>6, <1>8, <1>11, SkipLineKeeps

(* A separating line.                                                       *)
LEMMA SeparatorKeeps == IInv /\ Separator => IInv'
<1>. SUFFICES ASSUME IInv, Separator PROVE IInv'
  OBVIOUS
<1> DEFINE q == RunEnd(src, {C(src)})
<1>1. /\ mode = "scan" /\ C(src) \in {"-", "="} /\ q - src >= 5
      /\ SkipTo(q) /\ UNCHANGED <<mode, first, position>>
  BY DEF Separator, IsSeparator
<1>2. TextOK /\ src \in Offsets /\ src \in Nat /\ Len(text) \in Nat
  BY Types
<1>3. q \in src .. Len(text) /\ Clean(src, q)
  <2>1. {C(src)} \cap Breaks = {} /\ "end" \notin {C(src)}
    BY <1>1 DEF Breaks
  <2>. QED
    BY <1>2, <2>1, RunEndIs, CleanRun
<1>4. q >= src + 5 /\ q # src
  BY <1>1, <1>2, <1>3
<1>5. TriviaStep[src] = q
  BY <1>1, <1>2, <1>4, TriviaStepIs
<1> HIDE DEF q
<1>6. Trivia(from, q)
  BY <1>1, <1>2, <1>5, Types, TriviaGrows DEF IInv, ScanInv, Skipped
<1>. QED
  BY <1>1, <1>3, <1>4, <1>6, SkipLineKeeps

(* Going on in a comment.                                                   *)
LEMMA InCommentKeeps ==
  ASSUME IInv, NEW q, SkipTo(q), mode' = "comment", q \in src + 1 .. Len(text),
         line' \in Nat, lineStart' = lineStart, first' = first, lost' = lost, stale' \in BOOLEAN,
         PosAt(q, line', lineStart', lost', stale'),
         NEW o \in from .. q - 2, Skipped(from, o, first), CommentOpen(o, q)
  PROVE  IInv'
<1>1. src' = q /\ white' = TRUE /\ text' = text /\ from' = from
  BY DEF SkipTo
<1>2. q \in 0 .. Len(text) /\ from \in 0 .. q /\ lineStart \in 0 .. q
  BY Types
<1>3. TypeInv'
  <2>1. src' \in Offsets' /\ from' \in 0 .. src' /\ lineStart' \in 0 .. src'
    BY <1>1, <1>2 DEF Offsets
  <2>. QED
    BY <1>1, <2>1, Types DEF IInv, TypeInv
<1>4. PositionInv'
  BY <1>1, Steady DEF PositionInv
<1>5. CommentInv'
  <2>1. o \in from' .. src' - 2
    BY <1>1
  <2>2. Skipped(from, o, first)' /\ CommentOpen(o, src)'
    BY <1>1, Steady
  <2>. QED
    BY <1>1, <2>1, <2>2 DEF CommentInv
<1>. QED
  BY <1>3, <1>4, <1>5 DEF IInv, ScanInv, StringInv, ReturnInv, Returned

(* The start of a comment that may go on for lines.                         *)
LEMMA OpenCommentKeeps == IInv /\ OpenComment => IInv'
<1>. SUFFICES ASSUME IInv, OpenComment PROVE IInv'
  OBVIOUS
<1> DEFINE q == src + 2
<1>1. /\ mode = "scan" /\ C(src) = "/" /\ C(src + 1) = "*" /\ mode' = "comment"
      /\ SkipTo(q) /\ first' = first /\ UNCHANGED position
  BY DEF OpenComment
<1>2. TextOK /\ src \in Offsets /\ src \in Nat /\ Len(text) \in Nat
  BY Types
<1>3. Clean(src, q)
  BY <1>1, <1>2, CleanTwo DEF Breaks
<1>4. q \in src + 1 .. Len(text)
  BY <1>2, <1>3 DEF Clean
<1>5. PosAt(q, line, lineStart, lost, stale)
  BY <1>2, <1>3, Types, PosClean DEF IInv, PositionInv
<1>6. src \in from .. q - 2 /\ Skipped(from, src, first)
  BY <1>1, Types DEF IInv, ScanInv
<1>7. CommentOpen(src, q)
  <2>1. src + 2 .. q - 1 = {} /\ src + 2 <= q
    BY <1>2
  <2>. QED
    BY <1>1, <2>1 DEF CommentOpen
<1>. QED
  BY <1>1, <1>4, <1>5, <1>6, <1>7, Types, InCommentKeeps DEF position

(* A step inside it.                                                        *)
LEMMA CommentStepKeeps == IInv /\ CommentStep => IInv'
<1>. SUFFICES ASSUME IInv, CommentStep PROVE IInv'
  OBVIOUS
<1> DEFINE closes == C(src) = "*" /\ C(src + 1) = "/"
           breaks == C(src) \in Breaks
           q == IF closes THEN src + 2 ELSE IF breaks THEN AfterBreak(src) ELSE src + 1
<1>1. /\ mode = "comment" /\ C(src) # "end" /\ SkipTo(q)
      /\ mode' = IF closes THEN "scan" ELSE mode
      /\ line' = IF breaks THEN line + 1 ELSE line
      /\ stale' = (stale \/ breaks)
      /\ first' = first /\ lineStart' = lineStart /\ lost' = lost
  BY DEF CommentStep
<1>2. /\ TextOK /\ src \in Offsets /\ src \in Nat /\ Len(text) \in Nat /\ line \in Nat
      /\ lineStart \in 0 .. src /\ from \in 0 .. src /\ stale \in BOOLEAN /\ first \in BOOLEAN
  BY Types
<1>3. PICK o \in from .. src - 2 : Skipped(from, o, first) /\ CommentOpen(o, src)
  BY <1>1 DEF IInv, CommentInv
<1>4. o \in Offsets /\ from \in 0 .. o /\ o \in Nat
  BY <1>2 DEF Offsets
<1>5. PosAt(src, line, lineStart, lost, stale)
  BY DEF IInv, PositionInv
<1>6. CASE closes
  <2>1. q = src + 2 /\ ~breaks /\ Closes(src)
    BY <1>6 DEF Breaks, Closes
  <2>2. line' = line /\ stale' = stale /\ mode' = "scan"
    BY <1>1, <1>2, <1>6, <2>1
  <2>3. Clean(src, src + 2)
    BY <1>2, <1>6, CleanTwo DEF Breaks
  <2>4. src + 2 \in src + 1 .. Len(text) /\ lineStart \in 0 .. src + 2
    BY <1>2, <2>3 DEF Clean
  <2>5. PosAt(src + 2, line, lineStart, lost, stale)
    BY <1>2, <1>5, <2>3, PosClean
  <2>6. Skipped(from, src + 2, first)
    BY <1>2, <1>3, <1>4, <2>1, SkipComment
  <2>7. SkipTo(src + 2)
    BY <1>1, <2>1
  <2>. QED
    BY <1>1, <2>2, <2>4, <2>5, <2>6, <2>7, Types, SkipKeeps
<1>7. CASE ~closes /\ breaks
  <2> DEFINE e == AfterBreak(src)
  <2>1. line' = line + 1 /\ stale' = TRUE /\ mode' = "comment" /\ SkipTo(e)
    BY <1>1, <1>7
  <2>2. e \in src + 1 .. Len(text) /\ \A i \in src .. e - 1 : C(i) \in Breaks
    BY <1>2, <1>7, AfterBreakIs
  <2>3. PosAt(e, line + 1, lineStart, lost, TRUE)
    BY <1>2, <1>5, <1>7, PosBreak
  <2> HIDE DEF e
  <2>4. CommentOpen(o, e) /\ o \in from .. e - 2
    <3>1. \A i \in o + 2 .. e - 1 : i \in o + 2 .. src - 1 \/ i \in src .. e - 1
      BY <1>2, <1>4, <2>2
    <3>2. \A i \in src .. e - 1 : ~Closes(i)
      BY <2>2 DEF Closes, Breaks
    <3>3. o + 2 <= src
      BY <1>3 DEF CommentOpen
    <3>4. o + 2 <= e /\ o \in from .. e - 2
      BY <1>2, <1>4, <2>2, <3>3
    <3>. QED
      BY <1>3, <3>1, <3>2, <3>4 DEF CommentOpen
  <2>5. line + 1 \in Nat
    BY <1>2
  <2>. QED
    BY <1>1, <1>3, <2>1, <2>2, <2>3, <2>4, <2>5, InCommentKeeps
<1>8. CASE ~closes /\ ~breaks
  <2> DEFINE e == src + 1
  <2>1. line' = line /\ stale' = stale /\ mode' = "comment" /\ SkipTo(e)
    BY <1>1, <1>2, <1>8
  <2>2. Clean(src, e)
    BY <1>1, <1>2, <1>8, CleanOne
  <2>3. PosAt(e, line, lineStart, lost, stale)
    BY <1>2, <1>5, <2>2, PosClean
  <2>4. e \in src + 1 .. Len(text)
    BY <1>2, <2>2 DEF Clean
  <2>5. CommentOpen(o, e) /\ o \in from .. e - 2
    <3>1. \A i \in o + 2 .. e - 1 : i \in o + 2 .. src - 1 \/ i = src
      BY <1>2, <1>4
    <3>2. ~Closes(src)
      BY <1>8 DEF Closes
    <3>3. o + 2 <= src
      BY <1>3 DEF CommentOpen
    <3>4. o + 2 <= e /\ o \in from .. e - 2
      BY <1>2, <1>4, <3>3
    <3>. QED
      BY <1>3, <3>1, <3>2, <3>4 DEF CommentOpen
  <2> HIDE DEF e
  <2>. QED
    BY <1>1, <1>2, <1>3, <2>1, <2>3, <2>4, <2>5, InCommentKeeps
<1>. QED
  BY <1>6, <1>7, <1>8

(* The token of an unclosed comment is its last character.                  *)
LEMMA CommentUnclosedKeeps == IInv /\ CommentUnclosed => IInv'
<1>. SUFFICES ASSUME IInv, CommentUnclosed PROVE IInv'
  OBVIOUS
<1> DEFINE s == src - 1
<1>1. mode = "comment" /\ C(src) = "end" /\ Emit("error", s, src) /\ UNCHANGED position
  BY DEF CommentUnclosed
<1>2. /\ TextOK /\ src \in Offsets /\ src \in Nat /\ Len(text) \in Nat /\ from \in 0 .. src
      /\ src <= Len(text) /\ lineStart \in 0 .. src
  BY Types
<1>3. PICK o \in from .. src - 2 : Skipped(from, o, first) /\ CommentOpen(o, src)
  BY <1>1 DEF IInv, CommentInv
<1>4. o \in Nat /\ o + 2 <= src /\ C(o) = "/" /\ C(o + 1) = "*" /\ from <= o
  BY <1>2, <1>3 DEF CommentOpen
<1>5. s \in Nat /\ s \in Offsets /\ s + 1 = src /\ from <= s /\ s # src /\ src \in src .. Len(text)
      /\ src \in s .. Len(text)
  BY <1>2, <1>4 DEF Offsets
<1>6. /\ token' = TokenAt("error", s, src, line, lineStart, first) /\ src' = token'.end
      /\ mode' \in {"idle", "end"}
      /\ text' = text /\ first' = first /\ white' = white /\ from' = from
  BY <1>1 DEF Emit, Returns, Started, TokenAt
<1>7. token'.kind = "error" /\ token'.start = s /\ token'.end = src /\ token'.line = line
      /\ token'.lineStart = lineStart /\ token'.first = first
  BY <1>6 DEF TokenAt
<1>8. PosAt(src, line, lineStart, lost, stale)
  BY DEF IInv, PositionInv
<1>9. lost' = lost /\ stale' = stale /\ line' = line /\ lineStart' = lineStart
  BY <1>1 DEF position
<1>10. Placed(token', lost', stale')
  <2>. SUFFICES ASSUME C(s) \notin Breaks
                PROVE  /\ ~lost => line = LineOf(s)
                       /\ ~lost /\ ~stale => LineStartAt(s, lineStart)
    BY <1>7, <1>9 DEF Placed
  <2>1. C(s) # "end"
    BY <1>2, <1>5, CharAt
  <2>2. Clean(s, src)
    BY <1>2, <1>5, <2>1, CleanOne
  <2>3. LineOf(src) = LineOf(s)
    BY <1>2, <1>5, <2>2, SameLine
  <2>4. \A i \in lineStart .. s - 1 : i \in lineStart .. src - 1
    BY <1>2, <1>5
  <2>. QED
    BY <1>8, <2>3, <2>4 DEF PosAt, LineStartAt, NoBreaks
<1>11. Covers(token', from)
  BY <1>2, <1>5, <1>7 DEF Covers
<1>12. o \in from .. s - 1 /\ \A i \in from .. o - 1 : i \in from .. s - 1
  BY <1>2, <1>4, <1>5
<1>13. FirstAfter(from, token'.start, token'.first)
  <2>1. CommentIn(from, s)
    BY <1>4, <1>12 DEF CommentIn
  <2>2. BreakIn(from, o) => BreakIn(from, s)
    BY <1>12 DEF BreakIn
  <2>. QED
    BY <1>3, <1>7, <2>1, <2>2 DEF FirstAfter, Skipped
<1>14. Glued(token', from)
  BY <1>7, <1>12 DEF Glued
<1>. QED
  BY <1>5, <1>6, <1>7, <1>8, <1>9, <1>10, <1>11, <1>13, <1>14, Types, ReturnKeeps

-----------------------------------------------------------------------------
(* Strings and characters.                                                  *)
LEMMA OpenStringKeeps == IInv /\ OpenString => IInv'
<1>. SUFFICES ASSUME IInv, OpenString PROVE IInv'
  OBVIOUS
<1> DEFINE r == RunEnd(src, {C(src)})
           n == r - src
<1>1. mode = "scan" /\ C(src) \in {"'", "\""} /\ UNCHANGED position
  BY DEF OpenString
<1>2. /\ TextOK /\ src \in Offsets /\ src \in Nat /\ Len(text) \in Nat /\ from \in 0 .. src
      /\ lineStart \in 0 .. src
  BY Types
<1>3. r \in src .. Len(text) /\ C(r) \notin {C(src)} /\ Clean(src, r)
  <2>1. {C(src)} \cap Breaks = {} /\ "end" \notin {C(src)}
    BY <1>1 DEF Breaks
  <2>. QED
    BY <1>2, <2>1, RunEndIs, CleanRun
<1>4. \/ n = 2 /\ Emit("string", src, src + 2)
      \/ /\ token' = Started("string", src, src) /\ src' = src + n
         /\ quotes' = [char |-> C(src), opened |-> n, seen |-> 0]
         /\ mode' = "string"
         /\ UNCHANGED <<text, first, white, from>>
  BY DEF OpenString
<1> HIDE DEF r
<1>5. r # src
  BY <1>3
<1>6. r > src /\ src + n = r
  BY <1>2, <1>3, <1>5
<1>7. CASE n = 2 /\ Emit("string", src, src + 2)
  <2>1. r = src + 2
    BY <1>2, <1>3, <1>7
  <2>. QED
    BY <1>1, <1>3, <1>6, <1>7, <2>1, LongKeeps
<1>8. CASE /\ token' = Started("string", src, src) /\ src' = src + n
           /\ quotes' = [char |-> C(src), opened |-> n, seen |-> 0]
           /\ mode' = "string"
           /\ UNCHANGED <<text, first, white, from>>
  <2>1. /\ src' = r /\ text' = text /\ first' = first /\ white' = white /\ from' = from
        /\ line' = line /\ lineStart' = lineStart /\ lost' = lost /\ stale' = stale
    BY <1>1, <1>6, <1>8 DEF position
  <2>2. /\ DOMAIN token' = {"kind", "start", "end", "line", "lineStart", "first"}
        /\ token'.kind = "string" /\ token'.start = src /\ token'.line = line
        /\ token'.lineStart = lineStart /\ token'.first = first
    BY <1>8 DEF Started
  <2>3. PosAt(src, line, lineStart, lost, stale) /\ Skipped(from, src, first)
    BY <1>1 DEF IInv, PositionInv, ScanInv
  <2>4. PosAt(r, line, lineStart, lost, stale)
    BY <1>2, <1>3, <2>3, PosClean
  <2>5. TypeInv'
    <3>1. src' \in Offsets' /\ from' \in 0 .. src' /\ lineStart' \in 0 .. src'
      BY <1>2, <1>3, <2>1 DEF Offsets
    <3>2. DOMAIN quotes' = {"char", "opened", "seen"} /\ quotes'.char \in {"'", "\""}
      BY <1>1, <1>8
    <3>. QED
      BY <1>8, <2>1, <3>1, <3>2 DEF IInv, TypeInv
  <2>6. PositionInv'
    BY <2>1, <2>4, Steady DEF PositionInv
  <2>7. StringInv'
    <3>1. Placed(token', lost, stale)
      BY <2>2, <2>3 DEF Placed, PosAt
    <3>2. Placed(token, lost, stale)'
      BY <2>1, <3>1, Steady
    <3>3. Skipped(from, token.start, token.first)'
      BY <2>1, <2>2, <2>3, Steady
    <3>4. src \in from .. r - 1
      BY <1>2, <1>3, <1>6
    <3>5. C(token.start)' \in {"'", "\""}
      BY <1>1, <2>1, <2>2, SteadyText
    <3>. QED
      BY <2>1, <2>2, <3>2, <3>3, <3>4, <3>5 DEF StringInv
  <2>. QED
    BY <1>8, <2>5, <2>6, <2>7 DEF IInv, ScanInv, CommentInv, ReturnInv, Returned
<1>. QED
  BY <1>4, <1>7, <1>8

(* Going on in a string.                                                    *)
LEMMA InStringKeeps ==
  ASSUME IInv, mode = "string", NEW n, InString(n), src' \in src .. Len(text),
         line' \in Nat, lineStart' = lineStart, lost' \in BOOLEAN, stale' \in BOOLEAN,
         lost => lost', stale => stale',
         PosAt(src', line', lineStart, lost', stale')
  PROVE  IInv'
<1>1. /\ text' = text /\ mode' = "string" /\ first' = first /\ white' = white
      /\ token' = token /\ from' = from /\ quotes' = [quotes EXCEPT !.seen = n]
  BY DEF InString
<1>2. /\ src \in Nat /\ Len(text) \in Nat /\ from \in 0 .. src /\ lineStart \in 0 .. src
      /\ first \in BOOLEAN /\ white \in BOOLEAN
  BY Types
<1>3. /\ DOMAIN quotes = {"char", "opened", "seen"} /\ quotes.char \in {"'", "\""}
  BY DEF IInv, TypeInv
<1>4. TypeInv'
  <2>1. src' \in Offsets' /\ from' \in 0 .. src' /\ lineStart' \in 0 .. src'
    BY <1>1, <1>2 DEF Offsets
  <2>2. DOMAIN quotes' = {"char", "opened", "seen"} /\ quotes'.char \in {"'", "\""}
    BY <1>1, <1>3
  <2>. QED
    BY <1>1, <1>2, <2>1, <2>2 DEF IInv, TypeInv
<1>5. PositionInv'
  BY <1>1, Steady DEF PositionInv
<1>6. StringInv'
  <2>1. /\ DOMAIN token = {"kind", "start", "end", "line", "lineStart", "first"}
        /\ token.start \in from .. src - 1 /\ C(token.start) \in {"'", "\""} /\ token.kind = "string"
        /\ Placed(token, lost, stale) /\ Skipped(from, token.start, token.first)
    BY DEF IInv, StringInv
  <2>2. Placed(token', lost', stale')
    BY <1>1, <2>1 DEF Placed
  <2>3. Placed(token, lost, stale)' /\ Skipped(from, token.start, token.first)'
    BY <1>1, <2>1, <2>2, Steady
  <2>4. token'.start \in from' .. src' - 1
    <3>. DEFINE ts == token.start  fr == from  s == src  r == src'
    <3>1. ts \in fr .. s - 1 /\ s \in Nat /\ fr \in 0 .. s /\ r \in s .. Len(text) /\ Len(text) \in Nat
      BY <1>2, <2>1
    <3>2. token'.start = ts /\ from' = fr
      BY <1>1
    <3>. HIDE DEF ts, fr, s, r
    <3>3. ts \in fr .. r - 1
      BY ONLY <3>1
    <3>4. r = src'
      BY DEF r
    <3>. QED
      BY ONLY <3>2, <3>3, <3>4
  <2>5. C(token.start)' \in {"'", "\""}
    BY <1>1, <2>1, SteadyText
  <2>. QED
    BY <1>1, <2>1, <2>3, <2>4, <2>5 DEF StringInv
<1>. QED
  BY <1>1, <1>4, <1>5, <1>6 DEF IInv, ScanInv, CommentInv, ReturnInv, Returned

(* The end of a string.                                                     *)
LEMMA StringEndsKeeps ==
  ASSUME IInv, mode = "string", NEW k \in {"string", "error"}, NEW e, StringEnds(k, e),
         e \in src .. Len(text), line' = line, lineStart' = lineStart,
         lost' \in BOOLEAN, stale' \in BOOLEAN, lost => lost', stale => stale',
         PosAt(e, line, lineStart, lost', stale')
  PROVE  IInv'
<1>1. /\ TextOK /\ src \in Nat /\ Len(text) \in Nat /\ from \in 0 .. src /\ src <= Len(text)
  BY Types
<1>2. /\ DOMAIN token = {"kind", "start", "end", "line", "lineStart", "first"}
      /\ token.start \in from .. src - 1 /\ C(token.start) \in {"'", "\""} /\ token.kind = "string"
      /\ Placed(token, lost, stale) /\ Skipped(from, token.start, token.first)
  BY DEF IInv, StringInv
<1>3. /\ token' = [token EXCEPT !.kind = k, !.end = e] /\ src' = token'.end
      /\ mode' = IF token'.kind = "eoi" THEN "end" ELSE "idle"
      /\ text' = text /\ first' = first /\ white' = white /\ from' = from
  BY DEF StringEnds, Returns
<1>4. /\ token'.kind = k /\ token'.end = e /\ token'.start = token.start
      /\ token'.line = token.line /\ token'.lineStart = token.lineStart /\ token'.first = token.first
  BY <1>2, <1>3
<1>5. mode' \in {"idle", "end"}
  BY <1>3
<1>6. Placed(token', lost', stale')
  BY <1>2, <1>4 DEF Placed
<1>7. token.start \in Nat /\ from <= token.start /\ token.start < e /\ e <= Len(text) /\ token.start \in Offsets
      /\ e \in token.start .. Len(text)
  <2>. DEFINE ts == token.start  fr == from  s == src  n == Len(text)
  <2>1. ts \in fr .. s - 1 /\ s \in Nat /\ fr \in 0 .. s /\ e \in s .. n /\ n \in Nat
    BY <1>1, <1>2
  <2>. HIDE DEF ts, fr, s, n
  <2>2. fr \in Nat /\ s \in Nat /\ ts \in Nat /\ e \in Nat /\ fr <= ts /\ ts < s /\ s <= e /\ e <= n
    BY ONLY <2>1
  <2>3. ts < e
    BY ONLY <2>2
  <2>4. e \in ts .. n /\ ts \in 0 .. n
    BY ONLY <2>1, <2>2, <2>3
  <2>. QED
    BY <2>2, <2>3, <2>4 DEF ts, fr, s, n, Offsets
<1>8. Covers(token', from)
  <2>1. token.start <= e /\ token.start # e
    BY <1>1, <1>7
  <2>. QED
    BY <1>2, <1>4, <1>7, <2>1 DEF Covers, Skipped
<1>9. FirstAfter(from, token'.start, token'.first)
  BY <1>2, <1>4 DEF Skipped
<1>10. Glued(token', from)
  BY <1>1, <1>2, <1>4, <1>7, PartIsEquals DEF Glued
<1>. QED
  BY <1>3, <1>4, <1>5, <1>6, <1>8, <1>9, <1>10, Types, ReturnKeeps

(* Going on over a stretch without a line break.                            *)
LEMMA StringCleanKeeps ==
  ASSUME IInv, mode = "string", NEW n, InString(n), Clean(src, src'), UNCHANGED position
  PROVE  IInv'
<1>1. src' \in src .. Len(text)
  BY DEF Clean
<1>2. PosAt(src, line, lineStart, lost, stale)
  BY DEF IInv, PositionInv
<1>3. line' = line /\ lineStart' = lineStart /\ lost' = lost /\ stale' = stale
  BY DEF position
<1>4. PosAt(src', line, lineStart, lost, stale)
  BY <1>2, Types, PosClean
<1>. QED
  BY <1>1, <1>3, <1>4, Types, InStringKeeps

(* The quotes around a string.                                              *)
LEMMA StringQuoteKeeps == IInv /\ StringQuote => IInv'
<1>. SUFFICES ASSUME IInv, StringQuote PROVE IInv'
  OBVIOUS
<1>1. mode = "string" /\ C(src) = quotes.char /\ UNCHANGED position
  BY DEF StringQuote
<1>2. C(src) \notin Breaks \cup {"end"}
  BY <1>1 DEF IInv, TypeInv, Breaks
<1>3. Clean(src, src + 1) /\ src + 1 \in src .. Len(text)
  BY <1>2, Types, CleanOne DEF Clean
<1>4. CASE quotes.seen + 1 = quotes.opened
  <2>1. StringEnds("string", src + 1)
    BY <1>4 DEF StringQuote
  <2>2. PosAt(src, line, lineStart, lost, stale)
    BY DEF IInv, PositionInv
  <2>3. PosAt(src + 1, line, lineStart, lost, stale)
    BY <1>3, <2>2, Types, PosClean
  <2>4. line' = line /\ lineStart' = lineStart /\ lost' = lost /\ stale' = stale
    BY <1>1 DEF position
  <2>. QED
    BY <1>1, <1>3, <2>1, <2>3, <2>4, Types, StringEndsKeeps
<1>5. CASE quotes.seen + 1 # quotes.opened
  <2>1. InString(quotes.seen + 1) /\ src' = src + 1
    BY <1>5 DEF StringQuote
  <2>. QED
    BY <1>1, <1>3, <2>1, StringCleanKeeps
<1>. QED
  BY <1>4, <1>5

(* A line break in it.                                                      *)
LEMMA StringBreakKeeps == IInv /\ StringBreak => IInv'
<1>. SUFFICES ASSUME IInv, StringBreak PROVE IInv'
  OBVIOUS
<1> DEFINE q == AfterBreak(src)
<1>1. mode = "string" /\ C(src) \in Breaks /\ stale' = TRUE /\ lineStart' = lineStart
  BY DEF StringBreak
<1>2. q \in src + 1 .. Len(text)
  BY <1>1, Types, AfterBreakIs
<1>3. PosAt(q, line + 1, lineStart, lost, TRUE)
  BY <1>1, Types, PosBreak DEF IInv, PositionInv
<1>4. CASE SingleLine
  <2>1. StringEnds("error", src + 1) /\ lost' = TRUE /\ line' = line
    BY <1>4 DEF StringBreak
  <2>2. src + 1 \in src .. Len(text)
    <3>. HIDE DEF q
    <3>. QED
      BY <1>2, Types
  <2>3. PosAt(src + 1, line, lineStart, lost', stale')
    BY <2>1 DEF PosAt
  <2>. QED
    BY <1>1, <2>1, <2>2, <2>3, StringEndsKeeps
<1>5. CASE ~SingleLine
  <2>1. InString(quotes.seen) /\ src' = q /\ line' = line + 1 /\ lost' = lost
    BY <1>5 DEF StringBreak
  <2>2. src' \in src .. Len(text)
    <3>. HIDE DEF q
    <3>. QED
      BY <1>2, <2>1, Types
  <2>3. line' \in Nat
    BY <2>1, Types
  <2>. QED
    BY <1>1, <1>3, <2>1, <2>2, <2>3, Types, InStringKeeps
<1>. QED
  BY <1>4, <1>5

(* An escape in it.                                                         *)
LEMMA StringEscapeKeeps == IInv /\ StringEscape => IInv'
<1>. SUFFICES ASSUME IInv, StringEscape PROVE IInv'
  OBVIOUS
<1>1. /\ mode = "string" /\ C(src) = "\\" /\ InString(0) /\ src' = Min(src + 2, Len(text))
      /\ lost' = (lost \/ C(src + 1) \in Breaks) /\ stale' = (stale \/ C(src + 1) \in Breaks)
      /\ line' = line /\ lineStart' = lineStart
  BY DEF StringEscape
<1>2. Clean(src, src + 1) /\ src + 1 \in Offsets
  BY <1>1, Types, CleanOne DEF Breaks
<1>3. src + 1 \in Nat /\ src + 1 <= Len(text)
  BY <1>2, Types DEF Offsets
<1>4. CASE C(src + 1) \in Breaks
  <2>1. lost' = TRUE /\ stale' = TRUE
    BY <1>1, <1>4
  <2>2. src' \in src .. Len(text)
    BY <1>1, <1>3, Types DEF Min
  <2>3. PosAt(src', line', lineStart, lost', stale')
    BY <2>1 DEF PosAt
  <2>. QED
    BY <1>1, <2>1, <2>2, <2>3, Types, InStringKeeps
<1>5. CASE C(src + 1) = "end"
  <2>1. src + 1 = Len(text)
    BY <1>3, <1>5, Types, CharAt
  <2>2. src' = src + 1
    BY <1>1, <2>1, Types DEF Min
  <2>3. lost' = lost /\ stale' = stale
    BY <1>1, <1>5, Types DEF Breaks
  <2>. QED
    BY <1>1, <1>2, <2>2, <2>3, StringCleanKeeps DEF position
<1>6. CASE C(src + 1) \notin Breaks \cup {"end"}
  <2>1. Clean(src, src + 2) /\ src + 2 \in Offsets
    BY <1>1, <1>6, Types, CleanTwo DEF Breaks
  <2>2. src' = src + 2
    BY <1>1, <2>1, Types DEF Min, Offsets
  <2>3. lost' = lost /\ stale' = stale
    BY <1>1, <1>6, Types
  <2>. QED
    BY <1>1, <2>1, <2>2, <2>3, StringCleanKeeps DEF position
<1>. QED
  BY <1>4, <1>5, <1>6

(* Any other character of it.                                               *)
LEMMA StringOtherKeeps == IInv /\ StringOther => IInv'
<1>. SUFFICES ASSUME IInv, StringOther PROVE IInv'
  OBVIOUS
<1>1. /\ mode = "string" /\ C(src) \notin Breaks \cup {"end"}
      /\ InString(0) /\ src' = src + 1 /\ UNCHANGED position
  BY DEF StringOther
<1>2. Clean(src, src + 1)
  BY <1>1, Types, CleanOne
<1>. QED
  BY <1>1, <1>2, StringCleanKeeps

(* A string that the text ends in.                                          *)
LEMMA StringUnclosedKeeps == IInv /\ StringUnclosed => IInv'
<1>. SUFFICES ASSUME IInv, StringUnclosed PROVE IInv'
  OBVIOUS
<1>1. mode = "string" /\ StringEnds("error", src)
  BY DEF StringUnclosed
<1>2. line' = line /\ lineStart' = lineStart /\ lost' = lost /\ stale' = stale
  BY DEF StringUnclosed, position
<1>3. src \in src .. Len(text)
  BY Types
<1>4. PosAt(src, line, lineStart, lost, stale)
  BY DEF IInv, PositionInv
<1>. QED
  BY <1>1, <1>2, <1>3, <1>4, Types, StringEndsKeeps

-----------------------------------------------------------------------------
(* A character literal: what it takes after the quote has a line break only *)
(* if that is its first character, which is then counted as lost.           *)
LEMMA CharacterKeeps == IInv /\ Character => IInv'
<1>. SUFFICES ASSUME IInv, Character PROVE IInv'
  OBVIOUS
<1> DEFINE p == src + 1
           q == CASE C(p) = "\\" -> EscapeEnd(p + 1, FALSE)
                  [] C(p) = "end" -> p
                  [] OTHER -> p + 1
           valid == /\ C(p) \notin Breaks \cup {"end"}
                    /\ C(p) = "\\" => q > p + 1
                    /\ C(q) = "'"
           k == IF valid THEN "char" ELSE "error"
           e == IF valid THEN q + 1 ELSE q
<1>1. /\ mode = "scan" /\ C(src) = "'" /\ Emit(k, src, e)
      /\ lost' = (lost \/ C(p) \in Breaks) /\ stale' = (stale \/ C(p) \in Breaks)
      /\ line' = line /\ lineStart' = lineStart
  BY DEF Character
<1>2. Clean(src, p) /\ p \in Offsets
  BY <1>1, Types, CleanOne DEF Breaks
<1>3. src \in Nat /\ Len(text) \in Nat /\ p = src + 1 /\ p \in 0 .. Len(text) /\ p \in Nat
  BY <1>2, Types DEF Offsets
<1>4. k \in {"char", "error"} /\ e \in {q, q + 1} /\ (e = q + 1 \/ e = q)
  OBVIOUS
<1>5. CASE C(p) \in Breaks
  <2>1. q = p + 1 /\ e = q
    BY <1>5 DEF Breaks
  <2>2. p < Len(text)
    BY <1>3, <1>5, Types, CharAt DEF Breaks
  <2> HIDE DEF p, q, e, k
  <2>3. e \in src .. Len(text) /\ e # src
    BY ONLY <1>3, <2>1, <2>2
  <2>4. lost' = TRUE /\ stale' = TRUE
    BY <1>1, <1>5
  <2>. QED
    BY <1>1, <1>4, <2>3, <2>4, EmitKeeps
<1>6. CASE C(p) \notin Breaks
  <2>1. Clean(src, q) /\ q \in p .. Len(text)
    <3>1. CASE C(p) = "\\"
      <4> DEFINE r == EscapeEnd(p + 1, FALSE)
      <4>1. Clean(p, p + 1) /\ p + 1 \in Offsets
        BY <1>2, <3>1, Types, CleanOne DEF Breaks
      <4>2. r \in p + 1 .. Len(text) /\ \A i \in p + 1 .. r - 1 : C(i) \notin Breaks
        BY <4>1, Types, EscapeEndIs
      <4>3. q = r
        BY <3>1
      <4> HIDE DEF r, q, p
      <4>4. \A i \in p + 1 .. r - 1 : i \in Offsets
        BY <1>3, <4>2 DEF Offsets
      <4>5. Clean(p + 1, r)
        BY <4>2, <4>4 DEF Clean, Solid
      <4>6. Clean(p, r)
        BY <1>2, <4>1, <4>5, Types, CleanJoin
      <4>7. Clean(src, r)
        BY <1>2, <4>6, Types, CleanJoin
      <4>. QED
        BY <1>3, <4>3, <4>6, <4>7 DEF Clean
    <3>2. CASE C(p) = "end"
      <4>1. q = p
        BY <3>2
      <4> HIDE DEF p, q
      <4>. QED
        BY <1>2, <1>3, <4>1
    <3>3. CASE C(p) \notin {"\\", "end"}
      <4>1. q = p + 1
        BY <3>3
      <4> HIDE DEF p, q
      <4>2. Clean(p, p + 1) /\ p + 1 \in Offsets
        BY <1>2, <1>6, <3>3, Types, CleanOne
      <4>3. Clean(src, p + 1)
        BY <1>2, <4>2, Types, CleanJoin
      <4>. QED
        BY <1>3, <4>1, <4>2, <4>3 DEF Clean
    <3>. QED
      BY <3>1, <3>2, <3>3
  <2>2. Clean(src, e)
    <3>1. CASE valid
      <4>1. e = q + 1 /\ C(q) = "'"
        BY <3>1
      <4> HIDE DEF p, q, e, valid
      <4>2. q \in Offsets
        BY <1>3, <2>1 DEF Offsets
      <4>3. Clean(q, q + 1)
        BY <4>1, <4>2, Types, CleanOne DEF Breaks
      <4>. QED
        BY <2>1, <4>1, <4>3, Types, CleanJoin
    <3>2. CASE ~valid
      BY <2>1, <3>2
    <3>. QED
      BY <3>1, <3>2
  <2> HIDE DEF p, q, e, k
  <2>3. e \in src .. Len(text)
    BY <2>2 DEF Clean
  <2>4. q \in Nat /\ q > src
    BY <1>3, <2>1
  <2>5. e # src
    BY <1>3, <1>4, <2>4
  <2>6. lost' = lost /\ stale' = stale
    BY <1>1, <1>6, Types
  <2>. QED
    BY <1>1, <1>4, <2>2, <2>3, <2>5, <2>6, Types, EmitKeeps
<1>. QED
  BY <1>5, <1>6

-----------------------------------------------------------------------------
(* Nothing happens.                                                         *)
LEMMA StutterKeeps == IInv /\ UNCHANGED vars => IInv'
<1>. SUFFICES ASSUME IInv, UNCHANGED vars PROVE IInv'
  OBVIOUS
<1>1. /\ text' = text /\ src' = src /\ line' = line /\ lineStart' = lineStart /\ mode' = mode
      /\ first' = first /\ white' = white /\ quotes' = quotes /\ token' = token /\ from' = from
      /\ lost' = lost /\ stale' = stale
  BY DEF vars
<1>2. TypeInv'
  BY <1>1, SteadyText DEF IInv, TypeInv
<1>3. PositionInv'
  BY <1>1, Steady DEF IInv, PositionInv
<1>4. ScanInv'
  BY <1>1, Steady DEF IInv, ScanInv
<1>5. CommentInv'
  BY <1>1, Steady DEF IInv, CommentInv
<1>6. StringInv'
  BY <1>1, Steady, SteadyText DEF IInv, StringInv
<1>7. ReturnInv'
  BY <1>1, Steady DEF IInv, ReturnInv, Returned
<1>. QED
  BY <1>2, <1>3, <1>4, <1>5, <1>6, <1>7 DEF IInv

(* The initial states.                                                      *)
LEMMA InitIInv == Init => IInv
<1>. SUFFICES ASSUME Init PROVE IInv
  OBVIOUS
<1>1. /\ text \in Texts /\ src = 0 /\ line = 1 /\ lineStart = 0 /\ mode = "idle" /\ first = FALSE
      /\ white = FALSE /\ token.kind = "none" /\ from = 0 /\ lost = FALSE /\ stale = FALSE
  BY DEF Init, NoToken
<1>2. TextOK /\ Len(text) \in Nat
  BY <1>1, TextsAssumption, CharAt DEF TextOK
<1>3. TypeInv
  <2>1. src \in Offsets /\ from \in 0 .. src /\ lineStart \in 0 .. src /\ line \in Nat
    BY <1>1, <1>2 DEF Offsets
  <2>. QED
    BY <1>1, <2>1 DEF TypeInv
<1>4. PositionInv
  <2>1. Reaches(LineStep, 0, 0)
    BY <1>2, LineStepIs, ReachUnfolds
  <2>2. {i \in 0 .. 0 - 1 : Begins(i)} = {}
    OBVIOUS
  <2>3. LineOf(0) = 1
    BY <2>2, FS_EmptySet DEF LineOf
  <2>4. LineStartAt(0, 0)
    BY DEF LineStartAt, NoBreaks
  <2>. QED
    BY <1>1, <2>1, <2>3, <2>4 DEF PositionInv, PosAt
<1>. QED
  BY <1>1, <1>3, <1>4 DEF IInv, ScanInv, CommentInv, StringInv, ReturnInv, Returned

(* Every step.                                                              *)
LEMMA NextKeeps == IInv /\ [Next]_vars => IInv'
<1>. SUFFICES ASSUME IInv, [Next]_vars PROVE IInv'
  OBVIOUS
<1>1. CASE UNCHANGED vars
  BY <1>1, StutterKeeps
<1>2. CASE Call \/ EndOfInput \/ Finished
  BY <1>2, CallKeeps, EndOfInputKeeps, StutterKeeps DEF Finished
<1>3. CASE Blank \/ Break \/ LineComment \/ OpenComment \/ CommentStep \/ CommentUnclosed \/ Separator
  BY <1>3, BlankKeeps, BreakKeeps, LineCommentKeeps, OpenCommentKeeps, CommentStepKeeps,
     CommentUnclosedKeeps, SeparatorKeeps
<1>4. CASE Punctuation \/ Simple \/ Name \/ Loanword \/ Number \/ Dot \/ Unknown
  BY <1>4, PunctuationKeeps, SimpleKeeps, NameKeeps, LoanwordKeeps, NumbersKeep, DotKeeps, UnknownKeeps
<1>5. CASE OpenString \/ Character \/ StringQuote \/ StringBreak \/ StringEscape \/ StringOther \/ StringUnclosed
  BY <1>5, OpenStringKeeps, CharacterKeeps, StringQuoteKeeps, StringBreakKeeps, StringEscapeKeeps,
     StringOtherKeeps, StringUnclosedKeeps
<1>. QED
  BY <1>1, <1>2, <1>3, <1>4, <1>5 DEF Next

(* Every behaviour.                                                         *)
LEMMA Invariance == Spec => []IInv
<1>. QED
  BY InitIInv, NextKeeps, PTL DEF Spec

-----------------------------------------------------------------------------
(* For texts of any length: the line and the start of the line that a token *)
(* is given are those of its first character, unless a break was lost or    *)
(* lineStart is of an earlier line (START_TOKEN, and every place that       *)
(* counts a line break).                                                    *)
THEOREM PositionsStayExact == Spec => []PositionsExact
<1>. QED
  BY Invariance, Consequences, PTL

(* For texts of any length: tokens come in order, nothing but blanks, line  *)
(* breaks, closed comments and separators is between them, and every token  *)
(* but the end of the input takes a character, except at exactly four       *)
(* equals signs (Lexer_Next and the functions it calls).                    *)
THEOREM NoTextIsLost == Spec => []TextCovered
<1>. QED
  BY Invariance, Consequences, PTL

(* For texts of any length: a token marked first on its line has a line     *)
(* break before it, one with a break and no comment before it is marked,    *)
(* and an equals sign is marked as glued exactly if nothing is before it    *)
(* (isFirstContentOnLine, hasPrecedingWhitespace).                          *)
THEOREM MarksStayExact == Spec => []MarksExact
<1>. QED
  BY Invariance, Consequences, PTL
=============================================================================
