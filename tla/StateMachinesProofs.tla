------------------------ MODULE StateMachinesProofs ------------------------
(***************************************************************************)
(* Proofs about the methods that loop over a list or a range and about     *)
(* those that sort a list, for lists of every length, ranges of numbers of *)
(* every size that a wider type is there to compute (as an int is for      *)
(* Integer16, the code modelled) and every behaviour of the function that  *)
(* the program gives them.                                                 *)
(***************************************************************************)
EXTENDS StateMachines, SequenceTheorems, FiniteSetTheorems, WellFoundedInduction, TLAPS

(* A number that fits does not wrap.                                        *)
LEMMA WrapFits ==
  ASSUME NEW x \in Numbers
  PROVE  Wrap(x) = x
<1>1. Half \in Nat /\ Half > 0 /\ x \in Int /\ x + Half \in Nat /\ x + Half < 2 * Half
  BY WidthAssumption DEF Numbers
<1>2. (x + Half) % (2 * Half) = x + Half
  BY <1>1
<1>. QED
  BY <1>1, <1>2 DEF Wrap

(* Multiplication keeps the order.                                          *)
LEMMA Times ==
  ASSUME NEW i \in Int, NEW j \in Int, i <= j, NEW b \in Nat
  PROVE  i * b <= j * b
<1>1. (j - i) * b >= 0
  BY SMT
<1>2. (j - i) * b = j * b - i * b
  BY SMT
<1>. QED
  BY <1>1, <1>2

(* How often b fits into x.                                                 *)
LEMMA Fits ==
  ASSUME NEW x \in Nat, NEW b \in Nat, b > 0, NEW k \in Nat
  PROVE  k <= x \div b <=> k * b <= x
<1> DEFINE q == x \div b
           r == x % b
<1>1. q \in Nat /\ r \in 0 .. b - 1 /\ x = b * q + r
  OBVIOUS
<1> HIDE DEF q, r
<1>2. ASSUME k <= q PROVE k * b <= x
  <2>1. k * b <= q * b
    BY <1>1, <1>2, Times
  <2>2. q * b = b * q
    BY <1>1
  <2>. QED
    BY <1>1, <2>1, <2>2
<1>3. ASSUME k > q PROVE k * b > x
  <2>1. q + 1 <= k
    BY <1>1, <1>3
  <2>2. (q + 1) * b <= k * b
    BY <1>1, <2>1, Times
  <2>3. (q + 1) * b = b * q + b
    BY <1>1
  <2>. QED
    BY <1>1, <2>2, <2>3
<1>. QED
  BY <1>1, <1>2, <1>3 DEF q

(* The answers.                                                             *)
LEMMA Booleans ==
  /\ Bool(TRUE)[2] /\ ~Bool(FALSE)[2] /\ Bool(TRUE) # Bool(FALSE)
  /\ \A p \in BOOLEAN : p => Bool(p) = Bool(TRUE)
  /\ \A p \in BOOLEAN : ~p => Bool(p) = Bool(FALSE)
<1>1. Bool(TRUE)[2] /\ ~Bool(FALSE)[2]
  BY DEF Bool
<1>2. Bool(TRUE) # Bool(FALSE)
  BY <1>1
<1>3. \A p \in BOOLEAN : p => Bool(p) = Bool(TRUE)
  OBVIOUS
<1>4. \A p \in BOOLEAN : ~p => Bool(p) = Bool(FALSE)
  OBVIOUS
<1>. QED
  BY <1>1, <1>2, <1>3, <1>4

(* Which of its numbers a range that is not empty has.                      *)
LEMMA RangeSize ==
  ASSUME NEW r, r.start \in Int, r.end \in Int, r.step \in Int, ~RangeEmpty(r), NEW k \in Nat
  PROVE  LET size == Abs(r.end - r.start) \div Abs(r.step) + 1
         IN /\ size \in Nat /\ size >= 1
            /\ k < size <=> IF Up(r) THEN r.start + k * r.step <= r.end
                                     ELSE r.start + k * r.step >= r.end
<1> DEFINE x == Abs(r.end - r.start)
           b == Abs(r.step)
           q == x \div b
<1>1. CASE Up(r)
  <2>1. x = r.end - r.start /\ x \in Nat /\ b = r.step /\ b \in Nat /\ b > 0
    BY <1>1 DEF Up, RangeEmpty, Abs
  <2> HIDE DEF x, b
  <2>2. q \in Nat /\ (k <= q <=> k * b <= x)
    BY <2>1, Fits
  <2> HIDE DEF q
  <2>3. k * b = k * r.step /\ k * b \in Int
    BY <2>1
  <2>4. k < q + 1 <=> r.start + k * r.step <= r.end
    BY <2>1, <2>2, <2>3
  <2>. QED
    BY <1>1, <2>2, <2>4 DEF q, x, b
<1>2. CASE ~Up(r)
  <2>1. x = r.start - r.end /\ x \in Nat /\ b = - r.step /\ b \in Nat /\ b > 0
    BY <1>2 DEF Up, RangeEmpty, Abs
  <2> HIDE DEF x, b
  <2>2. q \in Nat /\ (k <= q <=> k * b <= x)
    BY <2>1, Fits
  <2> HIDE DEF q
  <2> DEFINE s == r.step
  <2>3. s \in Int /\ b = 0 - s
    BY <2>1
  <2> HIDE DEF s
  <2>4. k * b = 0 - k * s /\ k * s \in Int
    BY <2>3
  <2> DEFINE y == k * s
  <2>5. k * b = 0 - y /\ y \in Int
    BY <2>4
  <2> HIDE DEF y
  <2>6. k < q + 1 <=> r.start + y >= r.end
    BY <2>1, <2>2, <2>5
  <2>7. k < q + 1 <=> r.start + k * r.step >= r.end
    BY <2>6 DEF y, s
  <2>. QED
    BY <1>2, <2>2, <2>7 DEF q, x, b
<1>. QED
  BY <1>1, <1>2

-----------------------------------------------------------------------------
(* A sequence, whatever its elements are, and the state of a loop.          *)
IsSeq(s) == Len(s) \in Nat /\ s = [k \in 1 .. Len(s) |-> s[k]]
Fields(at, done, index, count, result) ==
  [at |-> at, done |-> done, index |-> index, count |-> count, result |-> result]
InfoShape(i) ==
  /\ i = Fields(i.at, i.done, i.index, i.count, i.result)
  /\ i.index \in Nat /\ i.count \in Nat /\ IsSeq(i.result)

(* What the method was called with.                                         *)
CallOK ==
  /\ call.method \in Loops /\ call.arity \in 0 .. 2
  /\ IF IsRange
     THEN /\ call.range.start \in Numbers /\ call.range.end \in Numbers
          /\ call.range.step \in Numbers
     ELSE /\ Len(call.a) \in Nat
          /\ call.d = [k \in 1 .. Len(call.a) |-> IF k < Len(call.a) THEN k + 1 ELSE Null]

(* The register of a loop that has come to the item with its index, as long *)
(* as the program has assigned to nothing.                                  *)
Positioned(i) ==
  /\ i.index \in 0 .. SizeOf
  /\ IF IsRange
     THEN /\ i.done <=> i.index = SizeOf
          /\ ~i.done => i.at = call.range.start + i.index * call.range.step
     ELSE i.at = IF i.index < SizeOf THEN i.index + 1 ELSE Null

(* The size is a number, and only a list that is empty has none.            *)
LEMMA SizeIsNat ==
  ASSUME CallOK
  PROVE  /\ SizeOf \in Nat
         /\ IsRange => (SizeOf = 0 <=> RangeEmpty(call.range))
<1>1. CASE IsRange
  <2> DEFINE r == call.range
  <2>1. r.start \in Int /\ r.end \in Int /\ r.step \in Int
    BY <1>1, WidthAssumption DEF CallOK, Numbers
  <2>2. CASE RangeEmpty(r)
    BY <1>1, <2>2 DEF SizeOf
  <2>3. CASE ~RangeEmpty(r)
    <3> DEFINE size == Abs(r.end - r.start) \div Abs(r.step) + 1
    <3>0. 0 \in Nat
      OBVIOUS
    <3> HIDE DEF r
    <3>1. size \in Nat /\ size >= 1
      BY <2>1, <2>3, <3>0, RangeSize
    <3>2. SizeOf = size
      BY <1>1, <2>3 DEF SizeOf, r
    <3>. QED
      BY <2>3, <3>1, <3>2 DEF r
  <2>. QED
    BY <2>2, <2>3
<1>2. CASE ~IsRange
  BY <1>2 DEF SizeOf, CallOK
<1>. QED
  BY <1>1, <1>2

(* Whether there is an item, and which.                                     *)
LEMMA AtItem ==
  ASSUME CallOK, NEW i, Positioned(i), a = call.a
  PROVE  /\ More(i) <=> i.index < SizeOf
         /\ More(i) => Item(i) = ItemOf(i.index)
<1>1. SizeOf \in Nat /\ i.index \in Nat /\ i.index <= SizeOf
  BY SizeIsNat DEF Positioned
<1>2. CASE IsRange
  BY <1>1, <1>2 DEF More, Item, ItemOf, Positioned
<1>3. CASE ~IsRange
  BY <1>1, <1>3 DEF More, Item, ItemOf, Positioned, Null
<1>. QED
  BY <1>2, <1>3

(* Assigning to a field of a loop's state leaves the others alone.          *)
LEMMA InfoRecord ==
  ASSUME NEW j, j = Fields(j.at, j.done, j.index, j.count, j.result), NEW v
  PROVE  /\ [j EXCEPT !.at = v] = Fields(v, j.done, j.index, j.count, j.result)
         /\ [j EXCEPT !.done = v] = Fields(j.at, v, j.index, j.count, j.result)
         /\ [j EXCEPT !.index = v] = Fields(j.at, j.done, v, j.count, j.result)
         /\ [j EXCEPT !.count = v] = Fields(j.at, j.done, j.index, v, j.result)
         /\ [j EXCEPT !.result = v] = Fields(j.at, j.done, j.index, j.count, v)
<1>1. PICK S : j \in [at : S, done : S, index : S, count : S, result : S] /\ v \in S
  <2> DEFINE S == {j.at, j.done, j.index, j.count, j.result, v}
  <2>1. /\ j.at \in S /\ j.done \in S /\ j.index \in S /\ j.count \in S /\ j.result \in S
        /\ v \in S
    OBVIOUS
  <2> HIDE DEF S
  <2>2. j \in [at : S, done : S, index : S, count : S, result : S]
    BY <2>1 DEF Fields
  <2>. QED
    BY <2>1, <2>2
<1>2. [j EXCEPT !.at = v] = Fields(v, j.done, j.index, j.count, j.result)
  BY <1>1 DEF Fields
<1>3. [j EXCEPT !.done = v] = Fields(j.at, v, j.index, j.count, j.result)
  BY <1>1 DEF Fields
<1>4. [j EXCEPT !.index = v] = Fields(j.at, j.done, v, j.count, j.result)
  BY <1>1 DEF Fields
<1>5. [j EXCEPT !.count = v] = Fields(j.at, j.done, j.index, v, j.result)
  BY <1>1 DEF Fields
<1>6. [j EXCEPT !.result = v] = Fields(j.at, j.done, j.index, j.count, v)
  BY <1>1 DEF Fields
<1>. QED
  BY <1>2, <1>3, <1>4, <1>5, <1>6

(* A state has the fields it was made of.                                   *)
LEMMA FieldsOf ==
  ASSUME NEW j, NEW p, NEW q, NEW n, NEW c, NEW s, j = Fields(p, q, n, c, s)
  PROVE  /\ j.at = p /\ j.done = q /\ j.index = n /\ j.count = c /\ j.result = s
         /\ j = Fields(j.at, j.done, j.index, j.count, j.result)
  BY DEF Fields

(* The two ways to move on.                                                 *)
MovedList(i, x, z, j) == j = [i EXCEPT !.at = x, !.index = z]
MovedRange(i, x, y, z, j) == j = [i EXCEPT !.at = x, !.done = y, !.index = z]

(* They keep what was counted and collected.                                *)
LEMMA MovedListIs ==
  ASSUME NEW i, i = Fields(i.at, i.done, i.index, i.count, i.result), NEW x, NEW z, NEW j,
         MovedList(i, x, z, j)
  PROVE  j = Fields(x, i.done, z, i.count, i.result)
<1> DEFINE u == [i EXCEPT !.at = x]
<1>1. u = Fields(x, i.done, i.index, i.count, i.result)
  BY InfoRecord
<1>2. j = [u EXCEPT !.index = z]
  BY DEF MovedList
<1> HIDE DEF u
<1>3. /\ u.at = x /\ u.done = i.done /\ u.count = i.count /\ u.result = i.result
      /\ u = Fields(u.at, u.done, u.index, u.count, u.result)
  BY <1>1, FieldsOf
<1>4. [u EXCEPT !.index = z] = Fields(u.at, u.done, z, u.count, u.result)
  BY <1>3, InfoRecord
<1>. QED
  BY <1>2, <1>3, <1>4

(* For a range.                                                             *)
LEMMA MovedRangeIs ==
  ASSUME NEW i, i = Fields(i.at, i.done, i.index, i.count, i.result),
         NEW x, NEW y, NEW z, NEW j, MovedRange(i, x, y, z, j)
  PROVE  j = Fields(x, y, z, i.count, i.result)
<1> DEFINE u == [i EXCEPT !.at = x]
           v == [u EXCEPT !.done = y]
<1>1. u = Fields(x, i.done, i.index, i.count, i.result)
  BY InfoRecord
<1>2. j = [v EXCEPT !.index = z]
  BY DEF MovedRange
<1> HIDE DEF u
<1>3. /\ u.at = x /\ u.index = i.index /\ u.count = i.count /\ u.result = i.result
      /\ u = Fields(u.at, u.done, u.index, u.count, u.result)
  BY <1>1, FieldsOf
<1>4. v = Fields(u.at, y, u.index, u.count, u.result)
  BY <1>3, InfoRecord
<1> HIDE DEF v
<1>5. /\ v.at = u.at /\ v.done = y /\ v.count = u.count /\ v.result = u.result
      /\ v = Fields(v.at, v.done, v.index, v.count, v.result)
  BY <1>4, FieldsOf
<1>6. [v EXCEPT !.index = z] = Fields(v.at, v.done, z, v.count, v.result)
  BY <1>5, InfoRecord
<1>. QED
  BY <1>2, <1>3, <1>5, <1>6

(* Moving on.                                                               *)
LEMMA Advanced ==
  ASSUME NEW i, InfoShape(i)
  PROVE  LET j == Advance(i)
             r == call.range
             fits == IF Up(r) THEN r.end - r.step >= i.at ELSE r.end - r.step <= i.at
         IN /\ InfoShape(j) /\ j.index = i.index + 1 /\ j.count = i.count /\ j.result = i.result
            /\ IsRange => /\ j.done <=> ~fits
                          /\ j.at = IF fits THEN Wrap(i.at + r.step) ELSE i.at
            /\ ~IsRange => j.at = Rest(i.at)
<1> DEFINE j == Advance(i)
           r == call.range
           fits == IF Up(r) THEN r.end - r.step >= i.at ELSE r.end - r.step <= i.at
           x == IF fits THEN Wrap(i.at + r.step) ELSE i.at
           z == i.index + 1
           w == Rest(i.at)
<1>1. /\ i = Fields(i.at, i.done, i.index, i.count, i.result)
      /\ i.index \in Nat /\ z \in Nat /\ i.count \in Nat /\ IsSeq(i.result)
  BY DEF InfoShape
<1>2. ASSUME NEW p, NEW q, j = Fields(p, q, z, i.count, i.result)
      PROVE  /\ j.at = p /\ j.done = q /\ j.index = z /\ j.count = i.count
             /\ j.result = i.result /\ InfoShape(j)
  <2> HIDE DEF j, z
  <2>1. /\ j.at = p /\ j.done = q /\ j.index = z /\ j.count = i.count
        /\ j.result = i.result
    BY <1>2 DEF Fields
  <2>. QED
    BY <2>1, <1>1, <1>2 DEF InfoShape
<1>3. CASE IsRange
  <2> DEFINE y == ~fits
  <2>1. MovedRange(i, x, y, z, j)
    BY <1>3 DEF Advance, RangeAdvance, MovedRange
  <2> HIDE DEF j, x, y, z
  <2>2. j = Fields(x, y, z, i.count, i.result)
    BY <2>1, <1>1, MovedRangeIs
  <2>3. /\ j.at = x /\ j.done = y /\ j.index = z /\ j.count = i.count
        /\ j.result = i.result /\ InfoShape(j)
    BY <2>2, <1>2
  <2>. QED
    BY <1>3, <2>3 DEF j, x, y, z
<1>4. CASE ~IsRange
  <2>1. MovedList(i, w, z, j)
    BY <1>4 DEF Advance, ListAdvance, MovedList
  <2> HIDE DEF j, w, z
  <2>2. j = Fields(w, i.done, z, i.count, i.result)
    BY <2>1, <1>1, MovedListIs
  <2>3. /\ j.at = w /\ j.index = z /\ j.count = i.count
        /\ j.result = i.result /\ InfoShape(j)
    BY <2>2, <1>2
  <2>. QED
    BY <1>4, <2>3 DEF j, w, z
<1>. QED
  BY <1>3, <1>4

(* A loop that moves on from an item comes to the next, if the program has  *)
(* assigned to nothing; a range's number does not wrap on the way.          *)
LEMMA StaysPositioned ==
  ASSUME CallOK, NEW i, InfoShape(i), Positioned(i), i.index < SizeOf, d = call.d
  PROVE  Positioned(Advance(i))
<1> DEFINE j == Advance(i)
           k == i.index
           n == SizeOf
<1>1. n \in Nat /\ k \in Nat /\ k < n /\ j.index = k + 1
  BY SizeIsNat, Advanced DEF InfoShape
<1>2. CASE ~IsRange
  <2>1. i.at = k + 1 /\ j.at = Rest(i.at)
    BY <1>2, Advanced DEF Positioned
  <2>2. Rest(k + 1) = call.d[k + 1]
    BY <1>1 DEF Rest, Null
  <2>3. n = Len(call.a) /\ k + 1 \in 1 .. n
    BY <1>1, <1>2 DEF SizeOf
  <2>4. call.d[k + 1] = IF k + 1 < n THEN k + 2 ELSE Null
    BY <1>1, <1>2, <2>3 DEF CallOK
  <2> HIDE DEF k, n, j
  <2>5. j.at = IF k + 1 < n THEN (k + 1) + 1 ELSE Null
    BY <1>1, <2>1, <2>2, <2>4
  <2>6. j.index \in 0 .. n
    BY <1>1
  <2>. QED
    BY <1>1, <1>2, <2>5, <2>6 DEF Positioned, n, j
<1>3. CASE IsRange
  <2> DEFINE r == call.range
             s == r.step
             fits == IF Up(r) THEN r.end - s >= i.at ELSE r.end - s <= i.at
  <2>1. /\ r.start \in Numbers /\ r.end \in Numbers /\ s \in Numbers
        /\ r.start \in Int /\ r.end \in Int /\ s \in Int
    BY <1>3, WidthAssumption DEF CallOK, Numbers
  <2>2. ~RangeEmpty(r) /\ n = Abs(r.end - r.start) \div Abs(s) + 1
    BY <1>1, <1>3, SizeIsNat DEF SizeOf
  <2>3. i.at = r.start + k * s
    BY <1>1, <1>3 DEF Positioned
  <2>4. (j.done <=> ~fits) /\ j.at = IF fits THEN Wrap(i.at + s) ELSE i.at
    BY <1>3, Advanced
  <2> DEFINE p == k * s
  <2>5. p \in Int /\ (k + 1) * s = p + s /\ k + 1 \in Nat
    BY <1>1, <2>1
  <2>6. k + 1 < n <=> IF Up(r) THEN r.start + (k + 1) * s <= r.end ELSE r.start + (k + 1) * s >= r.end
    <3> HIDE DEF r, n
    <3>. QED
      BY <2>1, <2>2, <2>5, RangeSize DEF n
  <2>7. IF Up(r) THEN s > 0 /\ r.start <= r.end /\ r.start + p <= r.end
                 ELSE s < 0 /\ r.end < r.start /\ r.start + p >= r.end
    <3>1. k < n <=> IF Up(r) THEN r.start + k * s <= r.end ELSE r.start + k * s >= r.end
      <4> HIDE DEF r, n
      <4>. QED
        BY <1>1, <2>1, <2>2, RangeSize
    <3>. QED
      BY <1>1, <2>1, <2>2, <3>1 DEF Up, RangeEmpty
  <2>8. IF Up(r) THEN p >= 0 ELSE p <= 0
    <3>1. CASE Up(r)
      <4>1. 0 * s <= k * s /\ 0 * s = 0
        BY <3>1, <1>1, <2>1, <2>7, Times
      <4>. QED
        BY <3>1, <4>1
    <3>2. CASE ~Up(r)
      <4>1. s \in Int /\ s < 0
        BY <3>2, <2>1, <2>7
      <4> HIDE DEF s, k
      <4>2. k * s <= 0
        BY <4>1, <1>1
      <4>. QED
        BY <3>2, <4>2
    <3>. QED
      BY <3>1, <3>2
  <2> HIDE DEF p, s
  <2>9. fits <=> k + 1 < n
    BY <2>1, <2>3, <2>5, <2>6 DEF p
  <2>10. ASSUME fits PROVE i.at + s \in Numbers
    BY <2>10, <2>1, <2>3, <2>5, <2>7, <2>8, WidthAssumption DEF Numbers, p
  <2>11. fits => j.at = r.start + (k + 1) * s
    <3>1. SUFFICES ASSUME fits PROVE j.at = r.start + (k + 1) * s
      OBVIOUS
    <3>2. j.at = i.at + s
      BY <3>1, <2>4, <2>10, WrapFits
    <3>. QED
      BY <3>2, <2>1, <2>3, <2>5 DEF p
  <2> HIDE DEF fits, k, n, j
  <2>12. j.index \in 0 .. n /\ (j.done <=> j.index = n)
    BY <1>1, <2>4, <2>9
  <2>13. ~j.done => j.at = call.range.start + j.index * call.range.step
    BY <1>1, <2>4, <2>11 DEF s
  <2>. QED
    BY <1>3, <2>12, <2>13 DEF Positioned, n, j
<1>. QED
  BY <1>2, <1>3

-----------------------------------------------------------------------------
(* The stack of a method with the call of the function on it.               *)
LEMMA CallOnStack ==
  ASSUME NEW n \in 0 .. 2, NEW x, NEW y, NEW f, NEW args, args = SubSeq(<<x, y>>, 1, n),
         NEW st, st = <<>> \o <<f>> \o args
  PROVE  /\ Len(st) = n + 1
         /\ SubSeq(st, Len(st) - n + 1, Len(st)) = args
         /\ SubSeq(st, 1, Len(st) - n - 1) = <<>>
<1>1. PICK S : x \in S /\ y \in S /\ f \in S
  <2>1. x \in {x, y, f} /\ y \in {x, y, f} /\ f \in {x, y, f}
    OBVIOUS
  <2>. QED
    BY <2>1
<1>2. args \in Seq(S) /\ Len(args) = n
  <2> DEFINE xy == <<x, y>>
  <2>1. \A i \in 1 .. n : xy[i] \in S
    BY <1>1
  <2>2. 1 \in Int /\ n \in Int /\ args = SubSeq(xy, 1, n)
    OBVIOUS
  <2> HIDE DEF xy
  <2>3. /\ SubSeq(xy, 1, n) \in Seq(S)
        /\ Len(SubSeq(xy, 1, n)) = IF 1 <= n THEN n - 1 + 1 ELSE 0
    BY <2>1, <2>2, SubSeqProperties
  <2>. QED
    BY <2>2, <2>3
<1> DEFINE g == <<f>>
<1>3. <<f>> \in Seq(S) /\ Len(<<f>>) = 1
  BY <1>1
<1>4. <<>> \o <<f>> = <<f>>
  BY <1>3, ConcatEmptySeq
<1>5. st = g \o args /\ g \in Seq(S) /\ Len(g) = 1
  BY <1>3, <1>4
<1> HIDE DEF g
<1>6. /\ st \in Seq(S) /\ Len(st) = 1 + n
      /\ \A i \in 1 .. 1 + n : st[i] = IF i <= 1 THEN g[i] ELSE args[i - 1]
  <2>1. /\ g \o args \in Seq(S) /\ Len(g \o args) = Len(g) + Len(args)
        /\ \A i \in 1 .. Len(g) + Len(args) :
             (g \o args)[i] = IF i <= Len(g) THEN g[i] ELSE args[i - Len(g)]
    BY ONLY <1>2, <1>5, ConcatProperties
  <2>. QED
    BY <1>2, <1>5, <2>1
<1>7. SubSeq(st, 1, 0) = <<>>
  BY SubSeqEmpty
<1>8. SubSeq(st, 2, 1 + n) = args
  <2> DEFINE t == SubSeq(st, 2, 1 + n)
  <2>1. \A i \in 2 .. 1 + n : st[i] \in S
    <3>1. \A i \in 1 .. Len(st) : st[i] \in S
      <4>1. st \in Seq(S)
        BY <1>6
      <4>. QED
        BY ONLY <4>1, ElementOfSeq
    <3>2. n \in Int /\ Len(st) = 1 + n
      BY <1>6
    <3>. QED
      BY ONLY <3>1, <3>2
  <2>2. /\ t \in Seq(S) /\ Len(t) = (IF 2 <= 1 + n THEN 1 + n - 2 + 1 ELSE 0)
        /\ \A i \in 1 .. 1 + n - 2 + 1 : t[i] = st[2 + i - 1]
    <3>1. 2 \in Int /\ 1 + n \in Int
      OBVIOUS
    <3>. QED
      BY ONLY <2>1, <3>1, SubSeqProperties
  <2> HIDE DEF t
  <2>3. Len(t) = n
    BY <2>2
  <2>4. ASSUME NEW i \in 1 .. n PROVE t[i] = args[i]
    <3>1. t[i] = st[i + 1]
      BY <2>2
    <3>2. i + 1 \in 1 .. 1 + n /\ ~(i + 1 <= 1) /\ i + 1 - 1 = i
      OBVIOUS
    <3>3. st[i + 1] = args[i + 1 - 1]
      BY <3>2, <1>6
    <3>. QED
      BY <3>1, <3>2, <3>3
  <2>. QED
    BY <1>2, <2>2, <2>3, <2>4, SeqEqual DEF t
<1>9. Len(st) = n + 1 /\ Len(st) - n + 1 = 2 /\ Len(st) - n - 1 = 0 /\ Len(st) = 1 + n
  BY <1>6
<1>. QED
  BY <1>7, <1>8, <1>9

(* A stack with one value.                                                  *)
LEMMA OneOnStack ==
  ASSUME NEW v
  PROVE  /\ SubSeq(<<v>>, 1, Len(<<v>>) - 1) = <<>> /\ <<v>>[Len(<<v>>)] = v
         /\ Append(<<>>, v) = <<v>>
  OBVIOUS

-----------------------------------------------------------------------------
(* The inductive invariant.  Holds says of the state i of a loop what the   *)
(* first m answers have made of it.                                         *)
YesTo(m) == {k \in 1 .. m : seen[k].answer = Bool(TRUE)}
RankTo(m, k) == Cardinality({j \in YesTo(m) : j <= k})

Collected(result, m) ==
  /\ Len(result) = Cardinality(YesTo(m))
  /\ \A k \in YesTo(m) : result[RankTo(m, k)] = seen[k].kept
  /\ \A x \in 1 .. Len(result) : \E k \in YesTo(m) : RankTo(m, k) = x

Holds(i, m) ==
  /\ call.method = "map" => i.result = [k \in 1 .. m |-> seen[k].answer]
  /\ call.method = "where" => Collected(i.result, m)
  /\ call.method = "count" => i.count = Cardinality(YesTo(m))
  /\ call.method \in {"any", "first", "index-of"} => YesTo(m) = {}
  /\ call.method = "all" => YesTo(m) = 1 .. m

Through(i, m) == i.index = m /\ Holds(i, m)

(* each has moved on before it asks; the others do so with the answer.      *)
Progress ==
  /\ pc = "start" => Len(seen) = 0 /\ Through(info, 0)
  /\ pc = "user" => IF call.method = "each" THEN info.index = Len(seen) + 1
                    ELSE Through(info, Len(seen))
  /\ pc = "body" => /\ Len(seen) > 0
                    /\ IF call.method = "each" THEN info.index = Len(seen)
                       ELSE /\ Through(info, Len(seen) - 1)
                            /\ seen[Len(seen)].kept = Num(Item(info))

(* As long as the program has assigned to nothing, the loop is where its    *)
(* index says.                                                              *)
Wanted(k) == SubSeq(<<Num(ItemOf(k)), Num(k)>>, 1, Argc)

Unassigned ==
  /\ a = call.a /\ d = call.d
  /\ pc \in {"start", "user", "body"} => Positioned(info)
  /\ pc \in {"user", "body"} /\ call.method # "each" => info.index < SizeOf
  /\ Len(seen) <= SizeOf
  /\ \A k \in 1 .. Len(seen) : seen[k].given = Wanted(k - 1)
  /\ pc = "user" => Len(seen) < SizeOf /\ Given = Wanted(Len(seen))
  /\ pc = "returned" => Decided \/ Len(seen) = SizeOf

StackOK ==
  /\ pc = "start" => stack = IF call.method = "each" THEN <<None>> ELSE <<>>
  /\ pc = "user" => \E x, y : stack = <<>> \o <<Fn>> \o SubSeq(<<x, y>>, 1, Argc)
  /\ pc = "body" => stack = <<seen[Len(seen)].answer>>
  /\ pc = "returned" => stack = <<Expected>>

SeenOK ==
  /\ IsSeq(seen)
  /\ call.method # "each" => \A k \in 1 .. Len(seen) : seen[k].answer \in {Bool(TRUE), Bool(FALSE)}

LoopInv ==
  /\ CallOK /\ InfoShape(info) /\ SeenOK /\ assigns \in Nat
  /\ pc \in {"start", "user", "body", "returned", "escaped"}
  /\ Progress /\ StackOK
  /\ assigns = 0 => Unassigned

IInv == call.method \in Loops => LoopInv

(* What depends on the call alone, or on the answers, does not change when  *)
(* they do not.                                                             *)
LEMMA SameCall ==
  ASSUME call' = call
  PROVE  /\ CallOK' <=> CallOK
         /\ SizeOf' = SizeOf /\ Argc' = Argc
         /\ \A i : Positioned(i)' <=> Positioned(i)
         /\ \A k : Wanted(k)' = Wanted(k)
<1>1. (IsRange' <=> IsRange) /\ SizeOf' = SizeOf /\ Argc' = Argc
  BY DEF IsRange, SizeOf, Argc
<1>2. CallOK' <=> CallOK
  BY <1>1 DEF CallOK
<1>3. \A i : Positioned(i)' <=> Positioned(i)
  BY <1>1 DEF Positioned
<1>4. \A k : Wanted(k)' = Wanted(k)
  <2>1. \A k : ItemOf(k)' = ItemOf(k)
    BY <1>1 DEF ItemOf
  <2>. QED
    BY <1>1, <2>1 DEF Wanted
<1>. QED
  BY <1>1, <1>2, <1>3, <1>4

(* What depends on the call and the answers.                                *)
LEMMA SameAnswers ==
  ASSUME call' = call, seen' = seen
  PROVE  /\ SeenOK' <=> SeenOK
         /\ Expected' = Expected /\ (Decided' <=> Decided)
         /\ \A i, m : Holds(i, m)' <=> Holds(i, m)
         /\ \A i, m : Through(i, m)' <=> Through(i, m)
<1>1. /\ SeenOK' <=> SeenOK
      /\ Yes' = Yes /\ (Decided' <=> Decided)
  BY DEF SeenOK, Decided, Yes
<1>2. Expected' = Expected
  BY <1>1 DEF Expected, Rank
<1>3. \A m : YesTo(m)' = YesTo(m)
  BY DEF YesTo
<1>4. \A s, m : Collected(s, m)' <=> Collected(s, m)
  BY <1>3 DEF Collected, RankTo
<1>5. \A i, m : Holds(i, m)' <=> Holds(i, m)
  BY <1>3, <1>4 DEF Holds
<1>6. \A i, m : Through(i, m)' <=> Through(i, m)
  BY <1>5 DEF Through
<1>. QED
  BY <1>1, <1>2, <1>5, <1>6

(* What a loop that has gone through every answer returns is what is        *)
(* expected of it.                                                          *)
LEMMA ExpectedIs ==
  ASSUME SeenOK, NEW i, InfoShape(i), Holds(i, Len(seen))
  PROVE  /\ call.method = "each" => Expected = <<"argument">>
         /\ call.method \in {"map", "where"} => Expected = List(i.result)
         /\ call.method = "count" => Expected = Num(i.count)
         /\ call.method = "any" => Expected = Bool(FALSE)
         /\ call.method = "all" => Expected = Bool(TRUE)
         /\ call.method \in {"first", "index-of"} => Expected = None
<1> DEFINE n == Len(seen)
<1>1. Yes = YesTo(n) /\ (\A k : Rank(k) = RankTo(n, k)) /\ n \in Nat
  BY DEF Yes, YesTo, Rank, RankTo, SeenOK, IsSeq
<1>2. call.method = "each" => Expected = <<"argument">>
  BY DEF Expected
<1>3. CASE call.method = "map"
  BY <1>3 DEF Expected, Holds
<1>4. CASE call.method = "where"
  <2> DEFINE r == i.result
             e == [x \in 1 .. Cardinality(Yes) |-> seen[CHOOSE k \in Yes : Rank(k) = x].kept]
  <2>1. Collected(r, n) /\ IsSeq(r)
    BY <1>4 DEF Holds, InfoShape
  <2>2. Len(r) = Cardinality(Yes) /\ r = [x \in 1 .. Cardinality(Yes) |-> r[x]]
    BY <1>1, <2>1 DEF Collected, IsSeq
  <2>3. ASSUME NEW x \in 1 .. Cardinality(Yes) PROVE r[x] = e[x]
    <3>1. \E k \in Yes : Rank(k) = x
      BY <1>1, <2>1, <2>2 DEF Collected
    <3> DEFINE c == CHOOSE k \in Yes : Rank(k) = x
    <3>2. c \in Yes /\ Rank(c) = x
      BY <3>1
    <3>3. e[x] = seen[c].kept
      OBVIOUS
    <3> HIDE DEF c, e
    <3>4. r[RankTo(n, c)] = seen[c].kept
      BY <1>1, <2>1, <3>2 DEF Collected
    <3>. QED
      BY <1>1, <3>2, <3>3, <3>4
  <2>4. r = e
    BY <2>2, <2>3
  <2>5. Expected = List(e)
    BY <1>4 DEF Expected
  <2>. QED
    BY <1>4, <2>4, <2>5
<1>5. CASE call.method = "count"
  BY <1>1, <1>5 DEF Expected, Holds
<1>6. CASE call.method = "any"
  <2>1. Yes = {}
    BY <1>1, <1>6 DEF Holds
  <2>2. Expected = Bool(Yes # {})
    BY <1>6 DEF Expected
  <2>. QED
    BY <1>6, <2>1, <2>2, Booleans
<1>7. CASE call.method = "all"
  <2>1. Yes = 1 .. n
    BY <1>1, <1>7 DEF Holds
  <2>2. Expected = Bool(Yes = 1 .. n)
    BY <1>7 DEF Expected
  <2>. QED
    BY <1>7, <2>1, <2>2, Booleans
<1>8. CASE call.method \in {"first", "index-of"}
  <2>1. Yes = {}
    BY <1>1, <1>8 DEF Holds
  <2>2. ~Decided
    BY <1>8, <2>1 DEF Decided
  <2>. QED
    BY <1>8, <2>2 DEF Expected
<1>. QED
  BY <1>2, <1>3, <1>4, <1>5, <1>6, <1>7, <1>8

(* The function is asked about the next item, or there is none and the      *)
(* method returns.                                                          *)
LEMMA NextCallInv ==
  ASSUME CallOK, SeenOK, assigns \in Nat, call.method # "each",
         NEW i, InfoShape(i), Through(i, Len(seen)),
         assigns = 0 => /\ a = call.a /\ d = call.d /\ Positioned(i) /\ Len(seen) <= SizeOf
                        /\ \A k \in 1 .. Len(seen) : seen[k].given = Wanted(k - 1),
         NEW over, over = Expected, NextCall(<<>>, i, over)
  PROVE  LoopInv'
<1> DEFINE n == Len(seen)
<1>1. /\ UNCHANGED <<a, d, call, seen, assigns>> /\ info' = i
      /\ IF More(i) THEN pc' = "user" /\ stack' = <<>> \o <<Fn>> \o Args(i)
                    ELSE pc' = "returned" /\ stack' = Append(<<>>, over)
  BY DEF NextCall, CallUser, Return
<1>2. CallOK' /\ InfoShape(info)' /\ SeenOK' /\ (assigns \in Nat)'
  BY <1>1, SameCall, SameAnswers DEF InfoShape
<1>3. (pc \in {"start", "user", "body", "returned", "escaped"})'
  BY <1>1
<1>4. Progress'
  <2>1. Through(info, Len(seen))'
    BY <1>1, SameAnswers
  <2>. QED
    BY <1>1, <2>1 DEF Progress
<1>5. StackOK'
  <2>1. CASE More(i)
    <3>1. Args(i) = SubSeq(<<Num(Item(i)), Num(i.index)>>, 1, Argc')
      BY <1>1, SameCall DEF Args
    <3>. QED
      BY <1>1, <2>1, <3>1 DEF StackOK
  <2>2. CASE ~More(i)
    <3>1. Expected' = Expected
      BY <1>1, SameAnswers
    <3>2. stack' = <<Expected'>>
      BY <1>1, <2>2, <3>1, OneOnStack
    <3>. QED
      BY <1>1, <2>2, <3>2 DEF StackOK
  <2>. QED
    BY <2>1, <2>2
<1>6. (assigns = 0 => Unassigned)'
  <2>1. SUFFICES ASSUME assigns = 0 PROVE Unassigned'
    BY <1>1
  <2>2. /\ a = call.a /\ d = call.d /\ Positioned(i) /\ n <= SizeOf
        /\ \A k \in 1 .. n : seen[k].given = Wanted(k - 1)
    BY <2>1
  <2>3. /\ SizeOf' = SizeOf /\ \A k : Wanted(k)' = Wanted(k)
        /\ Argc' = Argc /\ Positioned(info)' /\ Len(seen') = n
    BY <1>1, <2>2, SameCall
  <2>4. /\ More(i) <=> i.index < SizeOf
        /\ More(i) => Item(i) = ItemOf(i.index)
    BY <2>2, AtItem
  <2>5. i.index = n /\ n \in Nat /\ SizeOf \in Nat
    BY SizeIsNat DEF Through, SeenOK, IsSeq
  <2>6. ASSUME More(i) PROVE Given' = Wanted(n)
    <3>1. Args(i) = Wanted(n) /\ Argc \in 0 .. 2
      BY <2>4, <2>5, <2>6 DEF Args, Wanted, Argc, CallOK, Loops, Searches, Sorts
    <3> DEFINE z == stack'
               w == Wanted(n)
               x == Num(ItemOf(n))
               y == Num(n)
    <3>2. z = <<>> \o <<Fn>> \o w /\ w = SubSeq(<<x, y>>, 1, Argc)
      BY <1>1, <2>6, <3>1 DEF Wanted
    <3> HIDE DEF z, w, x, y
    <3>3. SubSeq(z, Len(z) - Argc + 1, Len(z)) = w
      BY <3>1, <3>2, CallOnStack
    <3>. QED
      BY <2>3, <3>3 DEF Given, z, w
  <2>7. ~More(i) => n = SizeOf
    BY <2>2, <2>4, <2>5
  <2>8. \A k \in 1 .. n : (seen[k].given)' = Wanted(k - 1)'
    BY <1>1, <2>2, <2>3
  <2>9. (pc = "user" => Len(seen) < SizeOf /\ Given = Wanted(Len(seen)))'
    BY <1>1, <2>3, <2>4, <2>5, <2>6
  <2>. QED
    BY <1>1, <2>2, <2>3, <2>4, <2>5, <2>7, <2>8, <2>9 DEF Unassigned
<1>. QED
  BY <1>2, <1>3, <1>4, <1>5, <1>6 DEF LoopInv

(* The last answer, when the method gets it.                                *)
LEMMA BodyFacts ==
  ASSUME LoopInv, pc = "body", call.method # "each"
  PROVE  LET n == Len(seen)
         IN /\ n \in Nat /\ n > 0 /\ info.index = n - 1 /\ Holds(info, n - 1)
            /\ Popped = <<>> /\ Answer = seen[n].answer
            /\ Answer \in {Bool(TRUE), Bool(FALSE)} /\ (Truth <=> Answer = Bool(TRUE))
            /\ Truth => YesTo(n) = YesTo(n - 1) \cup {n}
            /\ ~Truth => YesTo(n) = YesTo(n - 1)
            /\ YesTo(n - 1) \subseteq 1 .. n - 1 /\ n \notin YesTo(n - 1)
            /\ IsFiniteSet(YesTo(n - 1)) /\ Cardinality(YesTo(n - 1)) \in Nat
            /\ seen[n].kept = Num(Item(info))
<1> DEFINE n == Len(seen)
<1>1. /\ n \in Nat /\ n > 0 /\ info.index = n - 1 /\ Holds(info, n - 1)
      /\ seen[n].kept = Num(Item(info))
  BY DEF LoopInv, Progress, Through, SeenOK, IsSeq
<1>2. stack = <<seen[n].answer>>
  BY DEF LoopInv, StackOK
<1>3. Popped = <<>> /\ Answer = seen[n].answer
  BY <1>2, OneOnStack DEF Popped, Answer
<1>4. Answer \in {Bool(TRUE), Bool(FALSE)}
  <2>1. \A k \in 1 .. n : seen[k].answer \in {Bool(TRUE), Bool(FALSE)}
    BY DEF LoopInv, SeenOK
  <2> HIDE DEF n
  <2>2. n \in 1 .. n
    BY <1>1
  <2>3. seen[n].answer \in {Bool(TRUE), Bool(FALSE)}
    BY <2>1, <2>2
  <2>. QED
    BY <2>3, <1>3
<1>5. Truth <=> Answer = Bool(TRUE)
  BY <1>4, Booleans DEF Truth
<1>6. 1 .. n = (1 .. n - 1) \cup {n} /\ n \notin 1 .. n - 1
  BY <1>1
<1>7. Truth => YesTo(n) = YesTo(n - 1) \cup {n}
  BY <1>3, <1>5, <1>6 DEF YesTo
<1>8. ~Truth => YesTo(n) = YesTo(n - 1)
  BY <1>3, <1>5, <1>6 DEF YesTo
<1>9. YesTo(n - 1) \subseteq 1 .. n - 1
  BY DEF YesTo
<1>10. IsFiniteSet(YesTo(n - 1)) /\ Cardinality(YesTo(n - 1)) \in Nat
  <2>1. IsFiniteSet(1 .. n - 1)
    BY <1>1, FS_Interval
  <2>. QED
    BY <1>9, <2>1, FS_Subset, FS_CardinalityType
<1>. QED
  BY <1>1, <1>3, <1>4, <1>5, <1>6, <1>7, <1>8, <1>9, <1>10

(* The method takes the answer into account, moves on and asks again.       *)
LEMMA BodyInv ==
  ASSUME LoopInv, pc = "body", call.method # "each",
         NEW i, InfoShape(i), i.at = info.at, i.done = info.done, i.index = info.index,
         Holds(i, Len(seen)), NEW over, over = Expected, NextCall(Popped, Advance(i), over)
  PROVE  LoopInv'
<1> DEFINE n == Len(seen)
           j == Advance(i)
<1>1. n \in Nat /\ n > 0 /\ info.index = n - 1 /\ Popped = <<>>
  BY BodyFacts
<1>2. InfoShape(j) /\ j.index = n /\ j.count = i.count /\ j.result = i.result
  BY <1>1, Advanced
<1>3. Through(j, n)
  <2>1. Holds(j, n)
    <3> HIDE DEF j
    <3>. QED
      BY <1>2 DEF Holds
  <2>. QED
    BY <1>2, <2>1 DEF Through
<1>4. ASSUME assigns = 0
      PROVE  /\ a = call.a /\ d = call.d /\ Positioned(j) /\ n <= SizeOf
             /\ \A k \in 1 .. n : seen[k].given = Wanted(k - 1)
  <2>1. Unassigned
    BY <1>4 DEF LoopInv
  <2>2. Positioned(info) /\ info.index < SizeOf
    BY <2>1 DEF Unassigned
  <2>3. Positioned(i) /\ i.index < SizeOf
    BY <2>2 DEF Positioned
  <2>4. d = call.d /\ CallOK
    BY <2>1 DEF Unassigned, LoopInv
  <2>5. Positioned(j)
    BY <2>3, <2>4, StaysPositioned
  <2>. QED
    BY <2>1, <2>5 DEF Unassigned
<1>5. CallOK /\ SeenOK /\ assigns \in Nat /\ NextCall(<<>>, j, over)
  BY <1>1 DEF LoopInv
<1> HIDE DEF j
<1>. QED
  BY <1>2, <1>3, <1>4, <1>5, NextCallInv

(* The answer decides and the method returns.                               *)
LEMMA DecidedInv ==
  ASSUME LoopInv, pc = "body", call.method # "each", Decided,
         NEW v, v = Expected, Return(Popped, v, info)
  PROVE  LoopInv'
<1>1. /\ UNCHANGED <<a, d, call, seen, assigns, info>> /\ pc' = "returned"
      /\ stack' = <<Expected>>
  <2>1. Popped = <<>>
    BY BodyFacts
  <2>. QED
    BY <2>1, OneOnStack DEF Return
<1>2. /\ CallOK' /\ SeenOK' /\ Expected' = Expected /\ Decided'
  BY <1>1, SameCall, SameAnswers DEF LoopInv
<1>3. InfoShape(info)' /\ (assigns \in Nat)' /\ (pc \in {"start", "user", "body", "returned", "escaped"})'
  BY <1>1 DEF LoopInv, InfoShape
<1>4. Progress' /\ StackOK'
  BY <1>1, <1>2 DEF Progress, StackOK
<1>5. (assigns = 0 => Unassigned)'
  <2>1. SUFFICES ASSUME assigns = 0 PROVE Unassigned'
    BY <1>1
  <2>2. Unassigned
    BY <2>1 DEF LoopInv
  <2>3. SizeOf' = SizeOf /\ \A k : Wanted(k)' = Wanted(k)
    BY <1>1, SameCall
  <2>4. \A k \in 1 .. Len(seen) : (seen[k].given)' = Wanted(k - 1)'
    BY <1>1, <2>2, <2>3 DEF Unassigned
  <2>. QED
    BY <1>1, <1>2, <2>2, <2>3, <2>4 DEF Unassigned
<1>. QED
  BY <1>2, <1>3, <1>4, <1>5 DEF LoopInv

(* A method that starts asks about the first item.                          *)
LEMMA StartInv ==
  ASSUME LoopInv, pc = "start", call.method # "each",
         NEW over, over = Expected, NextCall(stack, info, over)
  PROVE  LoopInv'
<1>1. stack = <<>> /\ Len(seen) = 0 /\ Through(info, Len(seen))
  BY DEF LoopInv, StackOK, Progress
<1>2. /\ CallOK /\ SeenOK /\ assigns \in Nat /\ InfoShape(info)
      /\ assigns = 0 => /\ a = call.a /\ d = call.d /\ Positioned(info) /\ Len(seen) <= SizeOf
                        /\ \A k \in 1 .. Len(seen) : seen[k].given = Wanted(k - 1)
  BY DEF LoopInv, Unassigned
<1>. QED
  BY <1>1, <1>2, NextCallInv

-----------------------------------------------------------------------------
(* A sequence with another element, and a state with another field.         *)
Appended(s, x, t) == t = Append(s, x)
ResultSet(i, x, j) == j = [i EXCEPT !.result = x]
CountSet(i, x, j) == j = [i EXCEPT !.count = x]

(* What Append does to a sequence.                                          *)
LEMMA AppendIs ==
  ASSUME NEW s, IsSeq(s), NEW x, NEW t, Appended(s, x, t)
  PROVE  /\ IsSeq(t) /\ Len(t) = Len(s) + 1 /\ t[Len(s) + 1] = x
         /\ \A k \in 1 .. Len(s) : t[k] = s[k]
<1> DEFINE S == {s[k] : k \in 1 .. Len(s)} \cup {x}
           n == Len(s)
<1>1. s \in Seq(S) /\ n \in Nat /\ x \in S
  BY DEF IsSeq
<1>2. /\ Append(s, x) \in Seq(S) /\ Len(Append(s, x)) = n + 1
      /\ Append(s, x)[n + 1] = x /\ \A k \in 1 .. n : Append(s, x)[k] = s[k]
  BY <1>1
<1>3. ASSUME NEW q \in Seq(S) PROVE IsSeq(q)
  BY DEF IsSeq
<1>. QED
  BY <1>2, <1>3 DEF Appended

(* Another value collected.                                                 *)
LEMMA ResultSetIs ==
  ASSUME NEW i, InfoShape(i), NEW x, IsSeq(x), NEW j, ResultSet(i, x, j)
  PROVE  /\ InfoShape(j) /\ j.at = i.at /\ j.done = i.done
         /\ j.index = i.index /\ j.count = i.count /\ j.result = x
<1>1. /\ i = Fields(i.at, i.done, i.index, i.count, i.result)
      /\ i.index \in Nat /\ i.count \in Nat /\ IsSeq(i.result)
  BY DEF InfoShape
<1>2. j = Fields(i.at, i.done, i.index, i.count, x)
  BY <1>1, InfoRecord DEF ResultSet
<1>3. /\ j.at = i.at /\ j.done = i.done /\ j.index = i.index /\ j.count = i.count
      /\ j.result = x /\ j = Fields(j.at, j.done, j.index, j.count, j.result)
  BY <1>2, FieldsOf
<1>. QED
  BY <1>1, <1>3 DEF InfoShape

(* Another answer counted.                                                  *)
LEMMA CountSetIs ==
  ASSUME NEW i, InfoShape(i), NEW x \in Nat, NEW j, CountSet(i, x, j)
  PROVE  /\ InfoShape(j) /\ j.at = i.at /\ j.done = i.done
         /\ j.index = i.index /\ j.count = x /\ j.result = i.result
<1>1. /\ i = Fields(i.at, i.done, i.index, i.count, i.result)
      /\ i.index \in Nat /\ i.count \in Nat /\ IsSeq(i.result)
  BY DEF InfoShape
<1>2. j = Fields(i.at, i.done, i.index, x, i.result)
  BY <1>1, InfoRecord DEF CountSet
<1>3. /\ j.at = i.at /\ j.done = i.done /\ j.index = i.index /\ j.count = x
      /\ j.result = i.result /\ j = Fields(j.at, j.done, j.index, j.count, j.result)
  BY <1>2, FieldsOf
<1>. QED
  BY <1>1, <1>3 DEF InfoShape

(* The list of the answers with the last one added.                         *)
LEMMA AnswerAdded ==
  ASSUME NEW n \in Nat, n > 0, NEW f, NEW r, IsSeq(r), r = [k \in 1 .. n - 1 |-> f[k]],
         NEW x, Appended(r, f[n], x)
  PROVE  IsSeq(x) /\ x = [k \in 1 .. n |-> f[k]]
<1> DEFINE m == Len(r)
<1>1. m = n - 1
  <2>1. DOMAIN r = 1 .. n - 1 /\ DOMAIN r = 1 .. m /\ m \in Nat
    BY DEF IsSeq
  <2> HIDE DEF m
  <2>. QED
    BY <2>1
<1>2. /\ IsSeq(x) /\ Len(x) = m + 1 /\ x[m + 1] = f[n]
      /\ \A k \in 1 .. m : x[k] = r[k]
  BY AppendIs
<1> HIDE DEF m
<1>3. Len(x) = n /\ x[n] = f[n] /\ \A k \in 1 .. n - 1 : x[k] = f[k]
  BY <1>1, <1>2
<1>4. x = [k \in 1 .. n |-> x[k]]
  BY <1>2, <1>3 DEF IsSeq
<1>5. \A k \in 1 .. n : x[k] = f[k]
  BY <1>3
<1>. QED
  BY <1>2, <1>4, <1>5

(* map.                                                                     *)
LEMMA MapInv ==
  ASSUME LoopInv, Map
  PROVE  LoopInv'
<1> DEFINE n == Len(seen)
           i == IF pc = "body" THEN [info EXCEPT !.result = Append(@, Answer)] ELSE info
<1>1. call.method = "map" /\ Iterate(i, List(i.result)) /\ call.method # "each"
  BY DEF Map
<1>2. InfoShape(info) /\ SeenOK
  BY DEF LoopInv
<1>3. CASE pc = "start"
  <2>1. i = info /\ Holds(info, n)
    BY <1>3 DEF LoopInv, Progress, Through
  <2>2. List(info.result) = Expected
    BY <1>1, <1>2, <2>1, ExpectedIs
  <2>3. NextCall(stack, info, List(info.result))
    BY <1>1, <1>3, <2>1 DEF Iterate
  <2>. QED
    BY <1>1, <1>3, <2>2, <2>3, StartInv
<1>4. CASE pc = "body"
  <2> DEFINE r == info.result
             f == [k \in 1 .. n |-> seen[k].answer]
             v == f[n]
             x == Append(r, v)
  <2>1. n \in Nat /\ n > 0 /\ Holds(info, n - 1) /\ Answer = seen[n].answer
    BY <1>1, <1>4, BodyFacts
  <2>2. v = Answer /\ \A k \in 1 .. n - 1 : f[k] = seen[k].answer
    <3> DEFINE m == n
    <3>1. m \in Nat /\ m > 0
      BY <2>1
    <3> HIDE DEF m
    <3>2. m \in 1 .. m /\ \A k \in 1 .. m - 1 : k \in 1 .. m
      BY <3>1
    <3>. QED
      BY <2>1, <3>2 DEF m
  <2>3. IsSeq(r) /\ r = [k \in 1 .. n - 1 |-> f[k]]
    <3>1. IsSeq(r) /\ r = [k \in 1 .. n - 1 |-> seen[k].answer]
      BY <1>1, <1>2, <2>1 DEF InfoShape, Holds
    <3> HIDE DEF f
    <3>. QED
      BY <3>1, <2>2
  <2>4. ResultSet(info, x, i)
    BY <1>4, <2>2 DEF ResultSet
  <2>5. Appended(r, v, x) /\ [k \in 1 .. n |-> f[k]] = [k \in 1 .. n |-> seen[k].answer]
    BY DEF Appended
  <2> HIDE DEF x, r, f, i
  <2>6. IsSeq(x) /\ x = [k \in 1 .. n |-> seen[k].answer]
    <3> HIDE DEF n
    <3>1. n \in Nat /\ n > 0 /\ Appended(r, f[n], x)
      BY <2>1, <2>5
    <3>2. IsSeq(x) /\ x = [k \in 1 .. n |-> f[k]]
      BY ONLY <3>1, <2>3, AnswerAdded
    <3>. QED
      BY <2>5, <3>2
  <2>7. /\ InfoShape(i) /\ i.at = info.at /\ i.done = info.done /\ i.index = info.index
        /\ i.result = x
    BY <1>2, <2>4, <2>6, ResultSetIs
  <2>8. Holds(i, n)
    BY <1>1, <2>6, <2>7 DEF Holds
  <2>9. List(i.result) = Expected
    BY <1>1, <1>2, <2>7, <2>8, ExpectedIs
  <2>10. NextCall(Popped, Advance(i), List(i.result))
    BY <1>1, <1>4 DEF Iterate
  <2>. QED
    BY <1>1, <1>4, <2>7, <2>8, <2>9, <2>10, BodyInv
<1>. QED
  BY <1>1, <1>3, <1>4 DEF Iterate

(* The values collected with the last one added: the earlier ones keep      *)
(* their places.                                                            *)
LEMMA KeptAdded ==
  ASSUME NEW n \in Nat, n > 0, NEW r, IsSeq(r), Collected(r, n - 1),
         YesTo(n) = YesTo(n - 1) \cup {n}, YesTo(n - 1) \subseteq 1 .. n - 1,
         IsFiniteSet(YesTo(n - 1)), NEW x, Appended(r, seen[n].kept, x)
  PROVE  IsSeq(x) /\ Collected(x, n)
<1> DEFINE Y == YesTo(n - 1)
           c == Cardinality(Y)
           m == Len(r)
<1>1. /\ Y \subseteq 1 .. n - 1 /\ n \notin Y /\ IsFiniteSet(Y)
      /\ \A k \in Y : k \in Int /\ k < n
  OBVIOUS
<1>2. /\ m = c /\ \A k \in Y : r[RankTo(n - 1, k)] = seen[k].kept
      /\ \A y \in 1 .. m : \E k \in Y : RankTo(n - 1, k) = y
  BY DEF Collected
<1>3. /\ IsSeq(x) /\ Len(x) = m + 1 /\ x[m + 1] = seen[n].kept
      /\ \A k \in 1 .. m : x[k] = r[k]
  BY AppendIs
<1> HIDE DEF Y, m
<1>4. c \in Nat /\ Cardinality(Y \cup {n}) = c + 1
  BY <1>1, FS_AddElement, FS_CardinalityType
<1>5. YesTo(n) = Y \cup {n}
  BY DEF Y
<1>6. ASSUME NEW k \in Y
      PROVE  RankTo(n, k) = RankTo(n - 1, k) /\ RankTo(n - 1, k) \in 1 .. c
  <2> DEFINE Z == {j \in Y : j <= k}
  <2>1. {j \in YesTo(n) : j <= k} = Z
    BY <1>1, <1>5
  <2>2. Z \subseteq Y /\ k \in Z
    BY <1>1
  <2> HIDE DEF Z
  <2>3. Cardinality(Z) \in Nat /\ Cardinality(Z) <= c /\ Cardinality(Z) # 0
    BY <1>1, <2>2, FS_Subset, FS_CardinalityType, FS_EmptySet
  <2> HIDE DEF c
  <2>4. RankTo(n - 1, k) = Cardinality(Z)
    BY DEF RankTo, Y, Z
  <2>5. RankTo(n, k) = Cardinality(Z)
    BY <2>1 DEF RankTo
  <2>. QED
    BY <1>4, <2>3, <2>4, <2>5
<1>7. RankTo(n, n) = c + 1
  <2>1. {j \in YesTo(n) : j <= n} = Y \cup {n}
    BY <1>1, <1>5
  <2>. QED
    BY <1>4, <2>1 DEF RankTo
<1>8. Len(x) = Cardinality(YesTo(n))
  BY <1>2, <1>3, <1>4, <1>5
<1> HIDE DEF c
<1>9. ASSUME NEW k \in YesTo(n) PROVE x[RankTo(n, k)] = seen[k].kept
  <2>1. CASE k = n
    BY <2>1, <1>2, <1>3, <1>7
  <2>2. CASE k \in Y
    BY <2>2, <1>2, <1>3, <1>6
  <2>. QED
    BY <2>1, <2>2, <1>5
<1>10. ASSUME NEW y \in 1 .. Len(x) PROVE \E k \in YesTo(n) : RankTo(n, k) = y
  <2>1. CASE y = c + 1
    BY <2>1, <1>5, <1>7
  <2>2. CASE y # c + 1
    <3>1. y \in 1 .. m
      BY <2>2, <1>2, <1>3, <1>4
    <3>2. PICK k \in Y : RankTo(n - 1, k) = y
      BY <3>1, <1>2
    <3>. QED
      BY <3>2, <1>5, <1>6
  <2>. QED
    BY <2>1, <2>2
<1>. QED
  BY <1>3, <1>8, <1>9, <1>10 DEF Collected

(* The values collected when the answer is no.                              *)
LEMMA NothingAdded ==
  ASSUME NEW n \in Nat, n > 0, NEW r, Collected(r, n - 1), YesTo(n) = YesTo(n - 1)
  PROVE  Collected(r, n)
  BY DEF Collected, RankTo

(* where.                                                                   *)
LEMMA WhereInv ==
  ASSUME LoopInv, Where
  PROVE  LoopInv'
<1> DEFINE n == Len(seen)
           i == IF AnsweredYes THEN [info EXCEPT !.result = Append(@, Num(Item(info)))] ELSE info
<1>1. call.method = "where" /\ Iterate(i, List(i.result)) /\ call.method # "each"
  BY DEF Where
<1>2. InfoShape(info) /\ SeenOK /\ IsSeq(info.result)
  BY DEF LoopInv, InfoShape
<1>3. CASE pc = "start"
  <2>1. i = info /\ Holds(info, n)
    BY <1>3 DEF LoopInv, Progress, Through, AnsweredYes
  <2>2. List(info.result) = Expected
    BY <1>1, <1>2, <2>1, ExpectedIs
  <2>3. NextCall(stack, info, List(info.result))
    BY <1>1, <1>3, <2>1 DEF Iterate
  <2>. QED
    BY <1>1, <1>3, <2>2, <2>3, StartInv
<1>4. CASE pc = "body"
  <2>1. /\ n \in Nat /\ n > 0 /\ Collected(info.result, n - 1)
        /\ YesTo(n - 1) \subseteq 1 .. n - 1 /\ IsFiniteSet(YesTo(n - 1))
        /\ seen[n].kept = Num(Item(info))
        /\ Truth => YesTo(n) = YesTo(n - 1) \cup {n}
        /\ ~Truth => YesTo(n) = YesTo(n - 1)
    BY <1>1, <1>4, BodyFacts DEF Holds
  <2>2. /\ InfoShape(i) /\ i.at = info.at /\ i.done = info.done /\ i.index = info.index
        /\ Collected(i.result, n)
    <3>1. CASE Truth
      <4> DEFINE r == info.result
                 v == seen[n].kept
                 x == Append(r, v)
      <4>1. ResultSet(info, x, i) /\ Appended(r, v, x)
        BY <1>4, <3>1, <2>1 DEF ResultSet, AnsweredYes, Appended
      <4> HIDE DEF x, r, i, n
      <4>2. IsSeq(x) /\ Collected(x, n)
        <5>1. /\ n \in Nat /\ n > 0 /\ IsSeq(r) /\ Collected(r, n - 1)
              /\ YesTo(n) = YesTo(n - 1) \cup {n} /\ YesTo(n - 1) \subseteq 1 .. n - 1
              /\ IsFiniteSet(YesTo(n - 1)) /\ Appended(r, seen[n].kept, x)
          BY <1>2, <2>1, <3>1, <4>1 DEF r
        <5>. QED
          BY ONLY <5>1, KeptAdded
      <4>. QED
        BY <1>2, <4>1, <4>2, ResultSetIs
    <3>2. CASE ~Truth
      <4>1. i = info
        BY <3>2 DEF AnsweredYes
      <4> HIDE DEF i, n
      <4>2. Collected(info.result, n)
        BY <2>1, <3>2, NothingAdded
      <4>. QED
        BY <1>2, <4>1, <4>2
    <3>. QED
      BY <3>1, <3>2
  <2> HIDE DEF i
  <2>3. Holds(i, n)
    BY <1>1, <2>2 DEF Holds
  <2>4. List(i.result) = Expected
    BY <1>1, <1>2, <2>2, <2>3, ExpectedIs
  <2>5. NextCall(Popped, Advance(i), List(i.result))
    BY <1>1, <1>4 DEF Iterate
  <2>. QED
    BY <1>1, <1>4, <2>2, <2>3, <2>4, <2>5, BodyInv
<1>. QED
  BY <1>1, <1>3, <1>4 DEF Iterate

(* count.                                                                   *)
LEMMA CountInv ==
  ASSUME LoopInv, Count
  PROVE  LoopInv'
<1> DEFINE n == Len(seen)
           i == IF AnsweredYes THEN [info EXCEPT !.count = @ + 1] ELSE info
<1>1. call.method = "count" /\ Iterate(i, Num(i.count)) /\ call.method # "each"
  BY DEF Count
<1>2. InfoShape(info) /\ SeenOK /\ info.count \in Nat
  BY DEF LoopInv, InfoShape
<1>3. CASE pc = "start"
  <2>1. i = info /\ Holds(info, n)
    BY <1>3 DEF LoopInv, Progress, Through, AnsweredYes
  <2>2. Num(info.count) = Expected
    BY <1>1, <1>2, <2>1, ExpectedIs
  <2>3. NextCall(stack, info, Num(info.count))
    BY <1>1, <1>3, <2>1 DEF Iterate
  <2>. QED
    BY <1>1, <1>3, <2>2, <2>3, StartInv
<1>4. CASE pc = "body"
  <2>1. /\ n \in Nat /\ n > 0 /\ info.count = Cardinality(YesTo(n - 1))
        /\ n \notin YesTo(n - 1) /\ IsFiniteSet(YesTo(n - 1))
        /\ Truth => YesTo(n) = YesTo(n - 1) \cup {n}
        /\ ~Truth => YesTo(n) = YesTo(n - 1)
    BY <1>1, <1>4, BodyFacts DEF Holds
  <2>2. /\ InfoShape(i) /\ i.at = info.at /\ i.done = info.done /\ i.index = info.index
        /\ i.count = Cardinality(YesTo(n))
    <3>1. CASE Truth
      <4> DEFINE x == info.count + 1
      <4>1. CountSet(info, x, i)
        BY <1>4, <3>1 DEF CountSet, AnsweredYes
      <4>2. x \in Nat /\ x = Cardinality(YesTo(n))
        BY <1>2, <2>1, <3>1, FS_AddElement
      <4> HIDE DEF x, i
      <4>. QED
        BY <1>2, <4>1, <4>2, CountSetIs
    <3>2. CASE ~Truth
      <4>1. i = info
        BY <3>2 DEF AnsweredYes
      <4> HIDE DEF i
      <4>. QED
        BY <1>2, <2>1, <3>2, <4>1
    <3>. QED
      BY <3>1, <3>2
  <2> HIDE DEF i
  <2>3. Holds(i, n)
    BY <1>1, <2>2 DEF Holds
  <2>4. Num(i.count) = Expected
    BY <1>1, <1>2, <2>2, <2>3, ExpectedIs
  <2>5. NextCall(Popped, Advance(i), Num(i.count))
    BY <1>1, <1>4 DEF Iterate
  <2>. QED
    BY <1>1, <1>4, <2>2, <2>3, <2>4, <2>5, BodyInv
<1>. QED
  BY <1>1, <1>3, <1>4 DEF Iterate

(* What the last answer decides: any?, first and index-of by a yes.         *)
LEMMA YesDecides ==
  ASSUME LoopInv, pc = "body", call.method \in {"any", "first", "index-of"}, Truth
  PROVE  /\ Decided
         /\ call.method = "any" => Expected = Bool(TRUE)
         /\ call.method = "first" => Expected = Num(Item(info))
         /\ call.method = "index-of" => Expected = Num(info.index)
<1> DEFINE n == Len(seen)
<1>1. /\ n \in Nat /\ n > 0 /\ info.index = n - 1 /\ Answer = seen[n].answer
      /\ Truth <=> Answer = Bool(TRUE)
      /\ seen[n].kept = Num(Item(info))
  BY BodyFacts
<1>2. n \in Yes /\ Yes # {}
  <2> DEFINE m == n
  <2>1. m \in Nat /\ m > 0
    BY <1>1
  <2> HIDE DEF m
  <2>2. m \in 1 .. m
    BY <2>1
  <2>. QED
    BY <1>1, <2>2 DEF Yes, m
<1>3. seen # <<>>
  BY <1>1
<1>4. Decided
  BY <1>2, <1>3 DEF Decided
<1>5. CASE call.method = "any"
  <2>1. Expected = Bool(Yes # {})
    BY <1>5 DEF Expected
  <2>. QED
    BY <1>2, <1>4, <1>5, <2>1, Booleans
<1>6. CASE call.method = "first"
  BY <1>1, <1>4, <1>6 DEF Expected
<1>7. CASE call.method = "index-of"
  BY <1>1, <1>4, <1>7 DEF Expected
<1>. QED
  BY <1>4, <1>5, <1>6, <1>7

(* all? by a no.                                                            *)
LEMMA NoDecides ==
  ASSUME LoopInv, pc = "body", call.method = "all", ~Truth
  PROVE  Decided /\ Expected = Bool(FALSE)
<1> DEFINE n == Len(seen)
<1>1. /\ n \in Nat /\ n > 0 /\ Answer = seen[n].answer
      /\ Truth <=> Answer = Bool(TRUE)
  BY BodyFacts
<1>2. n \notin Yes /\ n \in 1 .. n /\ Yes # 1 .. n
  <2> DEFINE m == n
  <2>1. m \in Nat /\ m > 0
    BY <1>1
  <2> HIDE DEF m
  <2>2. m \in 1 .. m
    BY <2>1
  <2>3. n \notin Yes
    BY <1>1 DEF Yes
  <2>. QED
    BY <2>2, <2>3 DEF m
<1>3. seen # <<>>
  BY <1>1
<1>4. Decided
  BY <1>2, <1>3 DEF Decided
<1>5. Expected = Bool(Yes = 1 .. n)
  BY DEF Expected
<1>. QED
  BY <1>2, <1>4, <1>5, Booleans

(* A search whose last answer does not decide goes on.                      *)
LEMMA GoesOn ==
  ASSUME LoopInv, call.method \in {"any", "all", "first", "index-of"},
         pc = "body" => (Truth <=> call.method = "all"),
         NEW over, over = CASE call.method = "any" -> Bool(FALSE)
                            [] call.method = "all" -> Bool(TRUE)
                            [] OTHER -> None,
         Iterate(info, over)
  PROVE  LoopInv'
<1> DEFINE n == Len(seen)
<1>1. InfoShape(info) /\ SeenOK /\ call.method # "each"
  BY DEF LoopInv
<1>2. Holds(info, n) /\ (pc = "start" \/ pc = "body")
  <2>1. CASE pc = "start"
    BY <2>1 DEF LoopInv, Progress, Through
  <2>2. CASE pc = "body"
    <3>1. /\ n \in Nat /\ n > 0 /\ Holds(info, n - 1)
          /\ Truth => YesTo(n) = YesTo(n - 1) \cup {n}
          /\ ~Truth => YesTo(n) = YesTo(n - 1)
      BY <1>1, <2>2, BodyFacts
    <3>2. CASE call.method = "all"
      <4>1. YesTo(n) = (1 .. n - 1) \cup {n}
        BY <2>2, <3>1, <3>2 DEF Holds
      <4>2. (1 .. n - 1) \cup {n} = 1 .. n
        BY <3>1
      <4>. QED
        BY <2>2, <3>2, <4>1, <4>2 DEF Holds
    <3>3. CASE call.method # "all"
      <4>1. YesTo(n) = {}
        BY <2>2, <3>1, <3>3 DEF Holds
      <4>. QED
        BY <2>2, <3>3, <4>1 DEF Holds
    <3>. QED
      BY <3>2, <3>3
  <2>. QED
    BY <2>1, <2>2 DEF Iterate
<1>3. over = Expected
  BY <1>1, <1>2, ExpectedIs
<1>4. CASE pc = "start"
  <2>1. NextCall(stack, info, over)
    BY <1>4 DEF Iterate
  <2>. QED
    BY <1>1, <1>3, <1>4, <2>1, StartInv
<1>5. CASE pc = "body"
  <2>1. NextCall(Popped, Advance(info), over)
    BY <1>5 DEF Iterate
  <2>. QED
    BY <1>1, <1>2, <1>3, <1>5, <2>1, BodyInv
<1>. QED
  BY <1>2, <1>4, <1>5

(* The searches.                                                            *)
LEMMA SearchInv ==
  ASSUME LoopInv, AnyAll \/ Find \/ RangeFind \/ RangeAll
  PROVE  LoopInv'
<1> DEFINE stop == IF call.method = "all" THEN AnsweredNo ELSE AnsweredYes
           over == CASE call.method = "any" -> Bool(FALSE)
                     [] call.method = "all" -> Bool(TRUE)
                     [] OTHER -> None
           found == CASE call.method = "any" -> Bool(TRUE)
                      [] call.method = "all" -> Bool(FALSE)
                      [] call.method = "first" -> Num(Item(info))
                      [] OTHER -> Num(info.index)
<1>1. call.method \in {"any", "all", "first", "index-of"} /\ call.method # "each"
  BY DEF AnyAll, Find, RangeFind, RangeAll
<1>2. \/ stop /\ Return(Popped, found, info)
      \/ ~stop /\ Iterate(info, over)
  <2>1. CASE AnyAll
    <3>1. CASE call.method = "all"
      BY <2>1, <3>1, Booleans DEF AnyAll
    <3>2. CASE call.method = "any"
      BY <2>1, <3>2, Booleans DEF AnyAll
    <3>. QED
      BY <2>1, <3>1, <3>2 DEF AnyAll
  <2>2. CASE Find
    BY <2>2 DEF Find
  <2>3. CASE RangeFind
    BY <2>3 DEF RangeFind, Item
  <2>4. CASE RangeAll
    BY <2>4 DEF RangeAll
  <2>. QED
    BY <2>1, <2>2, <2>3, <2>4
<1>3. CASE stop /\ Return(Popped, found, info)
  <2>1. pc = "body" /\ (Truth <=> call.method # "all")
    BY <1>3 DEF AnsweredYes, AnsweredNo
  <2>2. Decided /\ found = Expected
    BY <1>1, <2>1, YesDecides, NoDecides
  <2> HIDE DEF found
  <2>. QED
    BY <1>1, <1>3, <2>1, <2>2, DecidedInv
<1>4. CASE ~stop /\ Iterate(info, over)
  <2>1. pc = "body" => (Truth <=> call.method = "all")
    BY <1>4 DEF AnsweredYes, AnsweredNo
  <2> HIDE DEF over
  <2>. QED
    BY <1>1, <1>4, <2>1, GoesOn DEF over
<1>. QED
  BY <1>2, <1>3, <1>4

(* each: it moves on, and asks about the item it comes from.                *)
LEMMA EachInv ==
  ASSUME LoopInv, Each
  PROVE  LoopInv'
<1> DEFINE n == Len(seen)
           j == Advance(info)
<1>1. /\ call.method = "each" /\ InfoShape(info) /\ CallOK /\ SeenOK /\ assigns \in Nat
      /\ n \in Nat /\ info.index = n /\ pc \in {"start", "body"}
  BY DEF LoopInv, Each, Progress, Through, SeenOK, IsSeq
<1>2. Popped = <<>>
  <2>1. PICK v : stack = <<v>>
    BY <1>1 DEF LoopInv, StackOK
  <2>. QED
    BY <2>1, OneOnStack DEF Popped
<1>3. /\ UNCHANGED <<a, d, call, seen, assigns>>
      /\ IF More(info) THEN pc' = "user" /\ info' = j /\ stack' = <<>> \o <<Fn>> \o Args(info)
                       ELSE pc' = "returned" /\ info' = info /\ stack' = Append(<<>>, <<"argument">>)
  BY <1>2 DEF Each, CallUser, Return
<1>4. CallOK' /\ SeenOK' /\ (assigns \in Nat)'
  BY <1>1, <1>3, SameCall, SameAnswers
<1>5. InfoShape(j) /\ j.index = n + 1
  BY <1>1, Advanced
<1> HIDE DEF j
<1>6. InfoShape(info)' /\ (More(info) => info'.index = n + 1)
  BY <1>1, <1>3, <1>5 DEF InfoShape
<1>7. (pc \in {"start", "user", "body", "returned", "escaped"})'
  BY <1>3
<1>8. Progress'
  BY <1>1, <1>3, <1>6 DEF Progress
<1>9. StackOK'
  <2>1. CASE More(info)
    <3>1. Args(info) = SubSeq(<<Num(Item(info)), Num(info.index)>>, 1, Argc')
      BY <1>3, SameCall DEF Args
    <3>. QED
      BY <1>3, <2>1, <3>1 DEF StackOK
  <2>2. CASE ~More(info)
    <3>1. Expected' = <<"argument">>
      BY <1>1, <1>3 DEF Expected
    <3>2. stack' = <<Expected'>>
      BY <1>3, <2>2, <3>1, OneOnStack
    <3>. QED
      BY <1>3, <2>2, <3>2 DEF StackOK
  <2>. QED
    BY <2>1, <2>2
<1>10. (assigns = 0 => Unassigned)'
  <2>1. SUFFICES ASSUME assigns = 0 PROVE Unassigned'
    BY <1>3
  <2>2. /\ a = call.a /\ d = call.d /\ Positioned(info) /\ n <= SizeOf
        /\ \A k \in 1 .. n : seen[k].given = Wanted(k - 1)
    BY <1>1, <2>1 DEF LoopInv, Unassigned
  <2>3. /\ SizeOf' = SizeOf /\ \A k : Wanted(k)' = Wanted(k)
        /\ Argc' = Argc /\ Len(seen') = n
    BY <1>3, SameCall
  <2>4. /\ More(info) <=> info.index < SizeOf
        /\ More(info) => Item(info) = ItemOf(info.index)
    BY <1>1, <2>2, AtItem
  <2>5. SizeOf \in Nat /\ (~More(info) => n = SizeOf)
    BY <1>1, <2>2, <2>4, SizeIsNat
  <2>6. ASSUME More(info) PROVE Given' = Wanted(n) /\ Positioned(info)'
    <3>1. Args(info) = Wanted(n) /\ Argc \in 0 .. 2
      BY <1>1, <2>4, <2>6 DEF Args, Wanted, Argc, CallOK, Loops, Searches, Sorts
    <3> DEFINE z == stack'
               w == Wanted(n)
               x == Num(ItemOf(n))
               y == Num(n)
    <3>2. z = <<>> \o <<Fn>> \o w /\ w = SubSeq(<<x, y>>, 1, Argc)
      BY <1>3, <2>6, <3>1 DEF Wanted
    <3> HIDE DEF z, w, x, y
    <3>3. SubSeq(z, Len(z) - Argc + 1, Len(z)) = w
      BY <3>1, <3>2, CallOnStack
    <3>4. Positioned(j)
      BY <1>1, <2>2, <2>4, <2>6, StaysPositioned DEF j
    <3>5. \A i : Positioned(i)' <=> Positioned(i)
      BY <1>3, SameCall
    <3>. QED
      BY <1>3, <2>3, <2>6, <3>3, <3>4, <3>5 DEF Given, z, w
  <2>7. \A k \in 1 .. n : (seen[k].given)' = Wanted(k - 1)'
    BY <1>3, <2>2, <2>3
  <2>8. (pc = "user" => Len(seen) < SizeOf /\ Given = Wanted(Len(seen)))'
    BY <1>1, <1>3, <2>3, <2>4, <2>5, <2>6
  <2>. QED
    BY <1>1, <1>3, <2>2, <2>3, <2>5, <2>6, <2>7, <2>8 DEF Unassigned
<1>. QED
  BY <1>4, <1>6, <1>7, <1>8, <1>9, <1>10 DEF LoopInv

(* What the answers up to the last have made of a loop does not change when *)
(* another one comes.                                                       *)
LEMMA LaterAnswer ==
  ASSUME call' = call, Len(seen) \in Nat, \A k \in 1 .. Len(seen) : seen'[k] = seen[k]
  PROVE  \A i, m : m = Len(seen) => (Through(i, m)' <=> Through(i, m))
<1>1. \A m : m = Len(seen) => YesTo(m)' = YesTo(m)
  BY DEF YesTo
<1>2. \A m, k : m = Len(seen) => RankTo(m, k)' = RankTo(m, k)
  BY <1>1 DEF RankTo
<1>3. \A m : m = Len(seen) => \A k \in YesTo(m) : seen'[k] = seen[k]
  BY DEF YesTo
<1>4. \A s, m : m = Len(seen) => (Collected(s, m)' <=> Collected(s, m))
  BY <1>1, <1>2, <1>3 DEF Collected
<1>5. \A m : m = Len(seen) => [k \in 1 .. m |-> seen'[k].answer] = [k \in 1 .. m |-> seen[k].answer]
  OBVIOUS
<1>6. \A i, m : m = Len(seen) => (Holds(i, m)' <=> Holds(i, m))
  BY <1>1, <1>4, <1>5 DEF Holds
<1>. QED
  BY <1>6 DEF Through

(* The function returns.                                                    *)
LEMMA ReturnsInv ==
  ASSUME LoopInv, NEW r, UserReturns(r)
  PROVE  LoopInv'
<1> DEFINE n == Len(seen)
           w == IF call.method = "each" THEN None ELSE Num(Item(info))
           e == [given |-> Given, answer |-> r, kept |-> w]
<1>1. /\ pc = "user" /\ pc' = "body" /\ UNCHANGED <<a, d, call, info, assigns>>
      /\ InfoShape(info) /\ CallOK /\ SeenOK /\ assigns \in Nat /\ n \in Nat /\ IsSeq(seen)
      /\ call.method \in Loops /\ ~Sorting
  BY DEF LoopInv, UserReturns, SeenOK, IsSeq, CallOK, Loops, Searches, Sorting, Sorts
<1>2. Appended(seen, e, seen')
  BY <1>1 DEF UserReturns, Appended
<1>3. e.given = Given /\ e.answer = r /\ e.kept = w
  OBVIOUS
<1> HIDE DEF e
<1>4. /\ IsSeq(seen') /\ Len(seen') = n + 1 /\ seen'[n + 1] = e
      /\ \A k \in 1 .. n : seen'[k] = seen[k]
  BY <1>1, <1>2, AppendIs
<1>5. stack' = <<r>>
  <2>1. PICK x, y : stack = <<>> \o <<Fn>> \o SubSeq(<<x, y>>, 1, Argc)
    BY <1>1 DEF LoopInv, StackOK
  <2>2. Argc \in 0 .. 2
    BY <1>1 DEF Argc, CallOK, Loops, Searches, Sorts
  <2> DEFINE args == SubSeq(<<x, y>>, 1, Argc)
             m == Argc
  <2>3. args = SubSeq(<<x, y>>, 1, m) /\ stack = <<>> \o <<Fn>> \o args /\ m \in 0 .. 2
    BY <2>1, <2>2
  <2> HIDE DEF args, m
  <2>4. SubSeq(stack, 1, Len(stack) - m - 1) = <<>>
    BY <2>3, CallOnStack
  <2>. QED
    BY <2>4, OneOnStack DEF UserReturns, m
<1>6. InfoShape(info)' /\ CallOK' /\ (assigns \in Nat)'
      /\ (pc \in {"start", "user", "body", "returned", "escaped"})'
  BY <1>1, SameCall DEF InfoShape
<1>7. SeenOK'
  <2>1. ASSUME call.method # "each", NEW k \in 1 .. n + 1
        PROVE  seen'[k].answer \in {Bool(TRUE), Bool(FALSE)}
    <3>1. CASE k \in 1 .. n
      BY <1>1, <1>4, <2>1, <3>1 DEF SeenOK
    <3>2. CASE k = n + 1
      <4>1. Answers = {Bool(TRUE), Bool(FALSE)}
        <5>1. call.method \in Loops \ {"each"}
          BY <1>1, <2>1
        <5>. QED
          BY <1>1, <2>1, <5>1 DEF Answers
      <4>2. r \in Answers
        BY DEF UserReturns
      <4>. QED
        BY <1>3, <1>4, <3>2, <4>1, <4>2
    <3>3. k \in 1 .. n \/ k = n + 1
      <4> HIDE DEF n
      <4>. QED
        BY <1>1
    <3>. QED
      BY <3>1, <3>2, <3>3
  <2>. QED
    BY <1>1, <1>4, <2>1 DEF SeenOK
<1>8. Progress'
  <2>1. CASE call.method = "each"
    <3>1. info.index = n + 1
      BY <1>1, <2>1 DEF LoopInv, Progress
    <3>. QED
      BY <1>1, <1>4, <2>1, <3>1 DEF Progress
  <2>2. CASE call.method # "each"
    <3>1. Through(info, n)
      BY <1>1, <2>2 DEF LoopInv, Progress
    <3>2. \A i, m : m = n => (Through(i, m)' <=> Through(i, m))
      BY <1>1, <1>4, LaterAnswer
    <3>3. PICK m : m = n
      OBVIOUS
    <3>4. Through(info, m)'
      BY <1>1, <3>1, <3>2, <3>3
    <3>5. Len(seen') - 1 = m /\ Len(seen') > 0
      BY <1>1, <1>4, <3>3
    <3>6. Through(info, Len(seen) - 1)'
      BY <3>4, <3>5
    <3>7. (seen[Len(seen)].kept = Num(Item(info)))'
      BY <1>1, <1>3, <1>4, <2>2 DEF Item, IsRange
    <3>. QED
      BY <1>1, <2>2, <3>5, <3>6, <3>7 DEF Progress
  <2>. QED
    BY <2>1, <2>2
<1>9. StackOK'
  BY <1>1, <1>3, <1>4, <1>5 DEF StackOK
<1>10. (assigns = 0 => Unassigned)'
  <2>1. SUFFICES ASSUME assigns = 0 PROVE Unassigned'
    BY <1>1
  <2>2. Unassigned
    BY <2>1 DEF LoopInv
  <2>3. /\ SizeOf' = SizeOf /\ \A k : Wanted(k)' = Wanted(k)
        /\ \A i : Positioned(i)' <=> Positioned(i)
    BY <1>1, SameCall
  <2>4. /\ a = call.a /\ d = call.d /\ Positioned(info)'
        /\ (call.method # "each" => info.index < SizeOf)
        /\ n < SizeOf /\ Given = Wanted(n) /\ SizeOf \in Nat
        /\ \A k \in 1 .. n : seen[k].given = Wanted(k - 1)
    BY <1>1, <2>2, <2>3, SizeIsNat DEF Unassigned
  <2>5. ASSUME NEW k \in 1 .. n + 1 PROVE seen'[k].given = Wanted(k - 1)'
    <3>1. CASE k \in 1 .. n
      BY <1>4, <2>3, <2>4, <3>1
    <3>2. CASE k = n + 1
      <4>1. k - 1 = n
        BY <1>1, <3>2
      <4>. QED
        BY <1>3, <1>4, <2>3, <2>4, <3>2, <4>1
    <3>. QED
      BY <1>1, <3>1, <3>2
  <2>6. (Len(seen) <= SizeOf)'
    BY <1>1, <1>4, <2>3, <2>4
  <2>7. (\A k \in 1 .. Len(seen) : seen[k].given = Wanted(k - 1))'
    BY <1>4, <2>5
  <2>. QED
    BY <1>1, <2>3, <2>4, <2>6, <2>7 DEF Unassigned
<1>. QED
  BY <1>6, <1>7, <1>8, <1>9, <1>10 DEF LoopInv

(* The function assigns to a cell: from then on the loop goes where the     *)
(* links lead, and what it makes of the answers stays.                      *)
LEMMA AssignsInv ==
  ASSUME LoopInv, pc = "user", assigns' = assigns + 1, UNCHANGED <<call, pc, stack, info, seen>>
  PROVE  LoopInv'
<1>1. CallOK' /\ InfoShape(info)' /\ SeenOK' /\ Argc' = Argc
      /\ (pc \in {"start", "user", "body", "returned", "escaped"})'
  BY SameCall, SameAnswers DEF LoopInv, InfoShape
<1>2. (assigns \in Nat)' /\ assigns' # 0
  BY DEF LoopInv
<1>3. Progress'
  <2>1. \A i, m : Through(i, m)' <=> Through(i, m)
    BY SameAnswers
  <2>2. call.method # "each" => Through(info, Len(seen))'
    BY <2>1 DEF LoopInv, Progress
  <2>. QED
    BY <2>2 DEF LoopInv, Progress
<1>4. StackOK'
  BY <1>1 DEF LoopInv, StackOK
<1>. QED
  BY <1>1, <1>2, <1>3, <1>4 DEF LoopInv

(* It never comes back.                                                     *)
LEMMA EscapesInv ==
  ASSUME LoopInv, UserEscapes
  PROVE  LoopInv'
<1>1. pc = "user" /\ pc' = "escaped" /\ UNCHANGED <<a, d, call, stack, info, seen, assigns>>
  BY DEF UserEscapes
<1>2. CallOK' /\ InfoShape(info)' /\ SeenOK' /\ (assigns \in Nat)'
      /\ (pc \in {"start", "user", "body", "returned", "escaped"})'
  BY <1>1, SameCall, SameAnswers DEF LoopInv, InfoShape
<1>3. Progress' /\ StackOK'
  BY <1>1 DEF Progress, StackOK
<1>4. (assigns = 0 => Unassigned)'
  <2>1. SUFFICES ASSUME assigns = 0 PROVE Unassigned'
    BY <1>1
  <2>2. Unassigned
    BY <2>1 DEF LoopInv
  <2>3. SizeOf' = SizeOf /\ \A k : Wanted(k)' = Wanted(k)
    BY <1>1, SameCall
  <2>4. \A k \in 1 .. Len(seen) : (seen[k].given)' = Wanted(k - 1)'
    BY <1>1, <2>2, <2>3 DEF Unassigned
  <2>. QED
    BY <1>1, <2>2, <2>3, <2>4 DEF Unassigned
<1>. QED
  BY <1>2, <1>3, <1>4 DEF LoopInv

(* Nothing happens.                                                         *)
LEMMA StuttersInv ==
  ASSUME LoopInv, UNCHANGED vars
  PROVE  LoopInv'
<1>1. UNCHANGED <<a, d, call, pc, stack, info, seen, assigns>>
  BY DEF vars
<1>2. CallOK' /\ InfoShape(info)' /\ SeenOK' /\ Progress' /\ StackOK'
  <2>1. CallOK' /\ InfoShape(info)' /\ SeenOK'
    BY <1>1, SameCall, SameAnswers DEF LoopInv, InfoShape
  <2>2. /\ \A i, m : Through(i, m)' <=> Through(i, m)
        /\ Expected' = Expected /\ Argc' = Argc /\ Item(info)' = Item(info)
    BY <1>1, SameCall, SameAnswers DEF Item, IsRange
  <2>3. StackOK'
    BY <1>1, <2>2 DEF LoopInv, StackOK
  <2>4. Progress'
    BY <1>1, <2>2 DEF LoopInv, Progress
  <2>. QED
    BY <2>1, <2>3, <2>4
<1>3. (assigns = 0 => Unassigned)'
  <2>1. /\ \A k : Wanted(k)' = Wanted(k)
        /\ SizeOf' = SizeOf /\ Argc' = Argc /\ (Decided' <=> Decided)
        /\ \A i : Positioned(i)' <=> Positioned(i)
    BY <1>1, SameCall, SameAnswers
  <2>2. Given' = Given
    BY <1>1, <2>1 DEF Given
  <2>. QED
    BY <1>1, <2>1, <2>2 DEF LoopInv, Unassigned
<1>. QED
  BY <1>1, <1>2, <1>3 DEF LoopInv

(* Every step of a method that loops.                                       *)
LEMMA NextInv ==
  ASSUME IInv, [Next]_vars
  PROVE  IInv'
<1>1. call' = call
  BY DEF Next, Machine, User, Finished, vars, Each, Map, Where, Count, AnyAll, Find, RangeFind,
         RangeAll, Iterate, NextCall, CallUser, Return, StartClone, CloneCell, FinishClone, Initial,
         SortStep, OuterLoop, StepLoop, AfterStepLoop, MergeLoop, AfterCompare, Returns, UserReturns,
         UserEscapes, UserSetsA, UserSetsD
<1>2. SUFFICES ASSUME call.method \in Loops PROVE LoopInv'
  BY <1>1 DEF IInv
<1>3. LoopInv /\ ~Sorting /\ pc \in {"start", "user", "body", "returned", "escaped"}
  BY <1>2 DEF IInv, LoopInv, Sorting, Sorts, Loops, Searches
<1>4. CASE Each
  BY <1>3, <1>4, EachInv
<1>5. CASE Map
  BY <1>3, <1>5, MapInv
<1>6. CASE Where
  BY <1>3, <1>6, WhereInv
<1>7. CASE Count
  BY <1>3, <1>7, CountInv
<1>8. CASE AnyAll \/ Find \/ RangeFind \/ RangeAll
  BY <1>3, <1>8, SearchInv
<1>9. ~(StartClone \/ CloneCell \/ FinishClone \/ Initial \/ OuterLoop \/ StepLoop
        \/ AfterStepLoop \/ MergeLoop \/ AfterCompare)
  BY <1>3 DEF StartClone, CloneCell, FinishClone, Initial, OuterLoop, StepLoop, AfterStepLoop,
              MergeLoop, AfterCompare
<1>10. CASE Returns
  BY <1>3, <1>10, ReturnsInv DEF Returns
<1>11. CASE UserEscapes
  BY <1>3, <1>11, EscapesInv
<1>12. ASSUME NEW c, NEW k, UserSetsA(c, k) PROVE LoopInv'
  BY <1>3, <1>12, AssignsInv DEF UserSetsA, MayAssign
<1>13. ASSUME NEW c, NEW e, UserSetsD(c, e) PROVE LoopInv'
  BY <1>3, <1>13, AssignsInv DEF UserSetsD, MayAssign
<1>14. CASE UNCHANGED vars
  BY <1>3, <1>14, StuttersInv
<1>. QED
  BY <1>4, <1>5, <1>6, <1>7, <1>8, <1>9, <1>10, <1>11, <1>12, <1>13, <1>14
  DEF Next, Machine, User, Finished

(* Before the first answer there is nothing.                                *)
LEMMA NoAnswerYet ==
  ASSUME seen = <<>>, NEW at, NEW done, info = LoopInfo(at, done)
  PROVE  /\ InfoShape(info) /\ SeenOK /\ Len(seen) = 0 /\ Through(info, 0)
         /\ info.at = at /\ info.done = done /\ info.index = 0
<1>1. /\ info = Fields(at, done, 0, 0, <<>>)
  BY DEF LoopInfo, Fields
<1>2. /\ info.at = at /\ info.done = done /\ info.index = 0 /\ info.count = 0
      /\ info.result = <<>>
      /\ info = Fields(info.at, info.done, info.index, info.count, info.result)
  BY <1>1, FieldsOf
<1>3. IsSeq(<<>>) /\ Len(<<>>) = 0
  BY DEF IsSeq
<1>4. InfoShape(info) /\ SeenOK /\ Len(seen) = 0
  BY <1>2, <1>3 DEF InfoShape, SeenOK
<1>5. YesTo(0) = {} /\ 1 .. 0 = {}
  BY DEF YesTo
<1>6. Cardinality(YesTo(0)) = 0
  BY <1>5, FS_EmptySet
<1>7. Collected(info.result, 0)
  BY <1>2, <1>3, <1>5, <1>6 DEF Collected
<1>8. info.result = [k \in 1 .. 0 |-> seen[k].answer]
  BY <1>2
<1>9. Holds(info, 0)
  BY <1>2, <1>5, <1>6, <1>7, <1>8 DEF Holds
<1>. QED
  BY <1>2, <1>4, <1>9 DEF Through

(* A method that has been called.                                           *)
LEMMA CalledInv ==
  ASSUME CallOK, seen = <<>>, assigns = 0, pc = "start", NEW at, NEW done, info = LoopInfo(at, done),
         stack = IF call.method = "each" THEN <<None>> ELSE <<>>,
         a = call.a, d = call.d,
         IF IsRange THEN at = call.range.start /\ done = RangeEmpty(call.range)
                    ELSE at = HeadOf(Len(call.a))
  PROVE  LoopInv
<1>1. /\ InfoShape(info) /\ SeenOK /\ Len(seen) = 0 /\ Through(info, 0)
      /\ info.at = at /\ info.done = done /\ info.index = 0
  BY NoAnswerYet
<1>2. Progress /\ StackOK
  BY <1>1 DEF Progress, StackOK
<1>3. SizeOf \in Nat /\ (IsRange => (SizeOf = 0 <=> RangeEmpty(call.range)))
  BY SizeIsNat
<1>4. Positioned(info)
  <2>1. CASE IsRange
    <3>1. call.range.start \in Int /\ call.range.step \in Int
      BY <2>1, WidthAssumption DEF CallOK, Numbers
    <3>2. call.range.start + 0 * call.range.step = call.range.start
      BY <3>1
    <3>. QED
      BY <1>1, <1>3, <2>1, <3>2 DEF Positioned
  <2>2. CASE ~IsRange
    <3>1. SizeOf = Len(call.a)
      BY <2>2 DEF SizeOf
    <3>. QED
      BY <1>1, <1>3, <2>2, <3>1 DEF Positioned, HeadOf, Null
  <2>. QED
    BY <2>1, <2>2
<1>5. Unassigned
  BY <1>1, <1>3, <1>4 DEF Unassigned
<1>. QED
  BY <1>1, <1>2, <1>5 DEF LoopInv

(* The initial states.                                                      *)
LEMMA InitInv == Init => IInv
<1>1. SUFFICES ASSUME Init, call.method \in Loops PROVE LoopInv
  BY DEF IInv
<1>2. seen = <<>> /\ assigns = 0
  BY <1>1 DEF Init
<1>3. CASE InitList
  <2>1. PICK n \in 0 .. MaxLoop, method \in Loops, arity \in {1, 2} :
             /\ a = [i \in 1 .. n |-> i] /\ d = Linked(n, Null)
             /\ Calls(method, "list", HeadOf(n), arity, "none", NoRange)
             /\ info = LoopInfo(HeadOf(n), FALSE)
             /\ stack = IF method = "each" THEN <<None>> ELSE <<>>
             /\ pc = "start"
    BY <1>3 DEF InitList
  <2>2. /\ call.method = method /\ call.of = "list" /\ call.arity = arity
        /\ call.a = a /\ call.d = d
    BY <2>1 DEF Calls
  <2>3. n \in Nat /\ Len(call.a) = n
    BY <2>1, <2>2, BoundsAssumption
  <2>4. CallOK /\ ~IsRange
    BY <2>1, <2>2, <2>3 DEF CallOK, IsRange, Linked
  <2>. QED
    BY <1>2, <2>1, <2>2, <2>3, <2>4, CalledInv
<1>4. CASE InitRange
  <2>1. PICK r \in [start : Numbers, end : Numbers, step : Numbers], method \in Loops,
             arity \in 0 .. 2 :
             /\ a = <<>> /\ d = <<>>
             /\ Calls(method, "range", Null, arity, "none", r)
             /\ info = LoopInfo(r.start, RangeEmpty(r))
             /\ stack = IF method = "each" THEN <<None>> ELSE <<>>
             /\ pc = "start"
    BY <1>4 DEF InitRange
  <2>2. /\ call.method = method /\ call.of = "range" /\ call.arity = arity
        /\ call.a = a /\ call.d = d /\ call.range = r
    BY <2>1 DEF Calls
  <2>3. CallOK /\ IsRange
    BY <2>1, <2>2 DEF CallOK, IsRange
  <2> DEFINE at == r.start
             done == RangeEmpty(r)
  <2>4. info = LoopInfo(at, done) /\ at = call.range.start /\ done = RangeEmpty(call.range)
    BY <2>1, <2>2
  <2> HIDE DEF at, done
  <2>. QED
    BY <1>2, <2>1, <2>2, <2>3, <2>4, CalledInv
<1>5. CASE InitSort
  <2>1. call.method \in Sorts
    BY <1>5 DEF InitSort, Calls
  <2>. QED
    BY <1>1, <2>1 DEF Sorts, Loops, Searches
<1>. QED
  BY <1>1, <1>3, <1>4, <1>5 DEF Init

(* The loops keep their invariant.                                          *)
THEOREM LoopsIInv == Spec => []IInv
<1>1. Init => IInv
  BY InitInv
<1>2. IInv /\ [Next]_vars => IInv'
  BY NextInv
<1>. QED
  BY <1>1, <1>2, PTL DEF Spec

(* A method that loops gives its function every item of the list or range,  *)
(* once, in order, and stops at the end or at the answer that decides, as   *)
(* long as the program does not assign to the list: for lists of every      *)
(* length and numbers of every size that is computed in a wider type, of    *)
(* which none wraps on the way.                                             *)
THEOREM EveryItemOnce == Spec => []GoesThroughAll
<1>1. IInv => GoesThroughAll
  <2>1. SUFFICES ASSUME LoopInv, assigns = 0 PROVE GoesThroughAll
    BY DEF IInv, GoesThroughAll
  <2>2. Unassigned
    BY <2>1 DEF LoopInv
  <2>3. \A k \in 1 .. Len(seen) : seen[k].given = SubSeq(<<Num(ItemOf(k - 1)), Num(k - 1)>>, 1, Argc)
    BY <2>2 DEF Unassigned, Wanted
  <2>. QED
    BY <2>2, <2>3 DEF Unassigned, GoesThroughAll
<1>. QED
  BY <1>1, LoopsIInv, PTL

(* When it has gone through, its closure holds one value and it is what the *)
(* answers add up to, whatever the program has assigned meanwhile.          *)
THEOREM LoopsAgree == Spec => []ResultAgrees
<1>1. IInv => ResultAgrees
  BY DEF IInv, LoopInv, StackOK, ResultAgrees
<1>. QED
  BY <1>1, LoopsIInv, PTL

-----------------------------------------------------------------------------
(* Induction on a stretch of numbers.                                       *)
LEMMA Upwards ==
  ASSUME NEW N \in Nat, NEW G, 0 \in G, \A k \in 1 .. N : k - 1 \in G => k \in G
  PROVE  \A k \in 0 .. N : k \in G
<1> DEFINE M == (0 .. N) \ G
           T == {0 .. k : k \in M}
           R == StrictSubsetOrdering(0 .. N)
<1>1. ASSUME M # {} PROVE FALSE
  <2>1. IsWellFoundedOn(R, FiniteSubsetsOf(0 .. N))
    BY FS_StrictSubsetOrderingWellFounded
  <2>2. T \subseteq FiniteSubsetsOf(0 .. N)
    <3>1. ASSUME NEW k \in M PROVE 0 .. k \in FiniteSubsetsOf(0 .. N)
      <4>1. 0 .. k \subseteq 0 .. N
        OBVIOUS
      <4>2. IsFiniteSet(0 .. k)
        BY FS_Interval
      <4>. QED
        BY <4>1, <4>2 DEF FiniteSubsetsOf
    <3>. QED
      BY <3>1
  <2>3. T # {}
    BY <1>1
  <2>4. PICK x \in T : \A y \in T : ~ (<<y, x>> \in R)
    <3> HIDE DEF T, R
    <3>. QED
      BY <2>1, <2>2, <2>3, WFMin
  <2>5. PICK m \in M : x = 0 .. m
    OBVIOUS
  <2>6. m \in 1 .. N /\ m - 1 \in M
    <3>1. m \in 0 .. N /\ m \notin G /\ m # 0
      OBVIOUS
    <3>2. m \in 1 .. N /\ m - 1 \in 0 .. N
      BY ONLY <3>1, N \in Nat
    <3>. QED
      BY <3>1, <3>2
  <2>7. 0 .. m - 1 \subseteq 0 .. m /\ m \in 0 .. m /\ m \notin 0 .. m - 1
    BY <2>6
  <2>8. 0 .. m - 1 \in SUBSET (0 .. N) /\ 0 .. m \in SUBSET (0 .. N)
    BY <2>6
  <2>9. <<0 .. m - 1, 0 .. m>> \in R
    BY <2>7, <2>8 DEF StrictSubsetOrdering
  <2>. QED
    BY <2>4, <2>5, <2>6, <2>9
<1>. QED
  BY <1>1

-----------------------------------------------------------------------------
(* Sorting.  The n cells b + 1 .. b + n that are linked anew are in some    *)
(* order s; f is the links, i the state of the sort.                        *)
Order(s, n, b) ==
  /\ s \in [1 .. n -> b + 1 .. b + n]
  /\ \A j, k \in 1 .. n : s[j] = s[k] => j = k
  /\ \A c \in b + 1 .. b + n : \E k \in 1 .. n : s[k] = c

At(s, n, k) == IF k \in 1 .. n THEN s[k] ELSE Null
Leads(f, s, j, k) == \A m \in j .. k - 1 : f[s[m]] = s[m + 1]

(* The cells after the first w lead to the end.                             *)
LeadsOn(f, s, n, w) == Leads(f, s, w + 1, n) /\ (w < n => f[s[n]] = Null)

(* The first w are in the list that is being made.                          *)
Built(f, i, s, n, w) ==
  /\ i.tail = At(s, n, w)
  /\ i.list = IF w = 0 THEN Null ELSE s[1]
  /\ Leads(f, s, 1, w)

(* After them come those of p up to the x-th, and then those of q.          *)
Merging(f, i, s, n, w, x) ==
  /\ w \in 0 .. n /\ x \in w .. n /\ i.psize = x - w /\ i.qsize \in Nat
  /\ Built(f, i, s, n, w)
  /\ w < x => i.p = s[w + 1]
  /\ i.q = At(s, n, x + 1)
  /\ Leads(f, s, w + 1, x) /\ LeadsOn(f, s, n, x)

(* In order by the keys v, and as before where these are equal.             *)
Less(v, c, e) == v[c] < v[e] \/ (v[c] = v[e] /\ c < e)

(* Runs have length k: somewhere between j and m one ends.                  *)
IsCut(c, k) == \E m \in Nat : c = m * k
Parted(j, m, k) == \E c \in j .. m - 1 : IsCut(c, k)

RunsFrom(v, s, n, l, k) ==
  \A j, m \in 1 .. n : l < j /\ j < m =>
    IF Parted(j, m, k) THEN s[j] < s[m] ELSE Less(v, s[j], s[m])
RunsTo(v, s, n, u, k) ==
  \A j, m \in 1 .. n : j < m /\ m <= u /\ ~Parted(j, m, k) => Less(v, s[j], s[m])
Apart(s, n, k) ==
  \A j, m \in 1 .. n : j < m /\ Parted(j, m, k) => s[j] < s[m]

(* After t merges of runs of length k.                                      *)
Merged(v, s, n, w, k, t) ==
  /\ t \in Nat /\ (t > 0 => (t - 1) * (2 * k) < n)
  /\ w = IF t * (2 * k) <= n THEN t * (2 * k) ELSE n
  /\ RunsTo(v, s, n, w, 2 * k) /\ Apart(s, n, 2 * k) /\ RunsFrom(v, s, n, w, k)

(* In the middle of the one that starts after o.                            *)
InMerge(v, s, n, w, x, qsize, k, o) ==
  /\ o \in Nat /\ o <= w /\ o < n /\ IsCut(o, 2 * k)
  /\ x <= o + 2 * k /\ (x < n => x + qsize = o + 2 * k)
  /\ RunsTo(v, s, n, o, 2 * k) /\ Apart(s, n, 2 * k) /\ RunsFrom(v, s, n, o + 2 * k, k)
  /\ \A j, m \in 1 .. n : j < m /\ m <= o + 2 * k =>
       /\ o < j /\ j <= w => Less(v, s[j], s[m])
       /\ w < j /\ m <= x => Less(v, s[j], s[m])
       /\ x < j => Less(v, s[j], s[m])
       /\ w < j /\ j <= x /\ x < m => s[j] < s[m]

-----------------------------------------------------------------------------
Size == Len(call.a)
Base == IF call.method = "sort" THEN Size ELSE 0
Proper == call.order = "keys" /\ Size <= 2 * ByteValues - 2

SortCallOK ==
  /\ call.of = "list" /\ IsSeq(call.a) /\ call.head = HeadOf(Size)
  /\ \E last \in 0 .. Size : /\ call.d = Linked(Size, last)
                             /\ call.method = "sort!" => last = Null
  /\ call.order = "keys" => \A k \in 1 .. Size : call.a[k] \in Int

SFields(list, p, q, tail, stepSize, psize, qsize, numMerges) ==
  [list |-> list, p |-> p, q |-> q, tail |-> tail, stepSize |-> stepSize, psize |-> psize,
   qsize |-> qsize, numMerges |-> numMerges]
SortShape(i) ==
  /\ i = SFields(i.list, i.p, i.q, i.tail, i.stepSize, i.psize, i.qsize, i.numMerges)
  /\ i.stepSize \in Nat /\ i.stepSize > 0

(* The cells of the argument and the copies of them.                        *)
Memory ==
  /\ IsSeq(a) /\ IsSeq(d) /\ Len(d) = Len(a) /\ Len(a) >= Size /\ assigns \in Nat
  /\ call.method = "sort" /\ assigns = 0 =>
       \A k \in 1 .. Size : a[k] = call.a[k] /\ d[k] = call.d[k]
  /\ pc \in {"called", "clone"} => call.method = "sort" /\ Len(a) = Size /\ assigns = 0

Copies ==
  /\ Len(a) = Base + Size
  /\ call.method = "sort" \/ call.order = "keys" => \A k \in 1 .. Size : a[Base + k] = call.a[k]

(* The copy so far.  The tortoise is behind it, unless the list is a circle. *)
Cloning ==
  /\ IsSeq(info.copy) /\ Len(info.copy) \in Nat /\ Size > 0
  /\ \/ info.tortoise \in 1 .. Size /\ \A k \in 1 .. Size : call.d[k] # Null
     \/ /\ call.d = Linked(Size, Null)
        /\ info.copy = [k \in 1 .. Len(info.copy) |-> call.a[k]]
        /\ Len(info.copy) \in 1 .. Size
        /\ info.tortoise = IF Len(info.copy) < Size THEN Len(info.copy) + 1 ELSE Null

(* The points of the sort.                                                  *)
StartPoint ==
  /\ info.stepSize = 1 /\ info.list = IF Size = 0 THEN Null ELSE Base + 1
  /\ LeadsOn(d, [k \in 1 .. Size |-> Base + k], Size, 0)
OuterPoint(s) ==
  /\ Order(s, Size, Base) /\ info.list = s[1] /\ LeadsOn(d, s, Size, 0)
  /\ Proper => RunsFrom(a, s, Size, 0, info.stepSize)
StepPoint(s, w) ==
  /\ Order(s, Size, Base) /\ w \in 0 .. Size
  /\ Built(d, info, s, Size, w) /\ info.p = At(s, Size, w + 1) /\ LeadsOn(d, s, Size, w)
  /\ Proper => \E t \in Nat : /\ Merged(a, s, Size, w, info.stepSize, t)
                              /\ info.numMerges = t % ByteValues
MergePoint(s, w, x) ==
  /\ Order(s, Size, Base) /\ Merging(d, info, s, Size, w, x)
  /\ Proper => \E t \in Nat :
       /\ InMerge(a, s, Size, w, x, info.qsize, info.stepSize, t * (2 * info.stepSize))
       /\ info.numMerges = (t + 1) % ByteValues
EndPoint(s, c) ==
  /\ stack = <<<<"cell", c>>>>
  /\ IF Size = 0 THEN c = Null
     ELSE Order(s, Size, Base) /\ c = s[1] /\ LeadsOn(d, s, Size, 0)
  /\ Proper => \A j, m \in 1 .. Size : j < m => Less(a, s[j], s[m])

SortPoint ==
  /\ pc = "start" => StartPoint
  /\ pc \in {"outer", "step", "merge", "user", "body"} => Size > 0
  /\ pc = "outer" => \E s : OuterPoint(s)
  /\ pc = "step" => \E s, w : StepPoint(s, w)
  /\ pc \in {"merge", "user", "body"} => \E s, w, x : MergePoint(s, w, x)
  /\ pc = "returned" => \E s, c : EndPoint(s, c)

(* Two items are being compared.                                            *)
Comparing ==
  /\ pc \in {"called", "clone", "start", "outer", "step", "merge"} => stack = <<>>
  /\ pc \in {"user", "body"} => info.psize # 0 /\ info.qsize # 0 /\ info.q # Null
  /\ pc = "user" => \E g, h : /\ stack = <<>> \o <<Fn>> \o SubSeq(<<Num(g), Num(h)>>, 1, 2)
                              /\ Proper => g = a[info.p] /\ h = a[info.q]
  /\ pc = "body" => \E r : /\ stack = <<r>>
                           /\ Proper => r = Num(Sign(a[info.p] - a[info.q]))

Live == {"start", "outer", "step", "merge", "user", "body"}

SortInv ==
  /\ SortCallOK /\ Memory
  /\ pc \in Live \cup {"called", "clone", "returned", "thrown", "escaped"}
  /\ pc = "clone" => Cloning
  /\ pc \in Live => SortShape(info)
  /\ pc \in Live \cup {"returned"} => Copies
  /\ SortPoint /\ Comparing

-----------------------------------------------------------------------------
(* The cells from c on.                                                     *)
LEMMA AheadUnfolds ==
  ASSUME NEW c, NEW N \in Nat
  PROVE  Ahead(c, N)[0] = c /\ \A j \in 1 .. N : Ahead(c, N)[j] = Rest(Ahead(c, N)[j - 1])
<1> DEFINE F(f) == [j \in 0 .. N |-> IF j = 0 THEN c ELSE Rest(f[j - 1])]
           Good(g, k) == \A j \in 0 .. k : g[j] = IF j = 0 THEN c ELSE Rest(g[j - 1])
           G == {k \in 0 .. N : \E g : g = [j \in 0 .. N |-> g[j]] /\ Good(g, k)}
<1>1. 0 \in G
  <2> DEFINE g == [j \in 0 .. N |-> c]
  <2>1. g = [j \in 0 .. N |-> g[j]] /\ g[0] = c
    OBVIOUS
  <2> HIDE DEF g
  <2>2. \A j \in 0 .. 0 : j = 0
    OBVIOUS
  <2>3. Good(g, 0)
    BY <2>1, <2>2
  <2> HIDE DEF Good
  <2>. QED
    BY <2>1, <2>3
<1>2. ASSUME NEW k \in 1 .. N, k - 1 \in G PROVE k \in G
  <2>1. PICK g : g = [j \in 0 .. N |-> g[j]] /\ Good(g, k - 1)
    BY <1>2
  <2> DEFINE v == Rest(g[k - 1])
             h == [j \in 0 .. N |-> IF j = k THEN v ELSE g[j]]
  <2> HIDE DEF v
  <2>2. k \in 0 .. N /\ k - 1 \in 0 .. N /\ k - 1 # k /\ k # 0
    OBVIOUS
  <2>3. h = [j \in 0 .. N |-> h[j]] /\ h[k] = v /\ \A j \in 0 .. N : j # k => h[j] = g[j]
    BY <2>2
  <2> HIDE DEF h
  <2>4. ASSUME NEW j \in 0 .. k PROVE h[j] = IF j = 0 THEN c ELSE Rest(h[j - 1])
    <3>1. CASE j = k
      <4>1. h[k - 1] = g[k - 1] /\ h[j] = v /\ j # 0 /\ j - 1 = k - 1
        BY <3>1, <2>2, <2>3
      <4>. QED
        BY <4>1 DEF v
    <3>2. CASE j # k
      <4>1. j \in 0 .. k - 1 /\ j \in 0 .. N /\ (j # 0 => j - 1 \in 0 .. N /\ j - 1 # k)
        BY <3>2, <2>2
      <4>2. h[j] = g[j] /\ (j # 0 => h[j - 1] = g[j - 1])
        BY <4>1, <2>3, <3>2
      <4>. QED
        BY <4>1, <4>2, <2>1
    <3>. QED
      BY <3>1, <3>2
  <2>. QED
    BY <2>2, <2>3, <2>4
<1>3. PICK g : g = [j \in 0 .. N |-> g[j]] /\ Good(g, N)
  <2>1. N \in G
    <3>1. \A k \in 0 .. N : k \in G
      <4> HIDE DEF G
      <4>. QED
        BY <1>1, <1>2, Upwards
    <3>. QED
      BY <3>1
  <2>. QED
    BY <2>1
<1>4. g = F(g)
  <2>1. F(g) = [j \in 0 .. N |-> g[j]]
    BY <1>3
  <2>. QED
    BY <1>3, <2>1
<1>5. Ahead(c, N) = CHOOSE f : f = F(f)
  BY DEF Ahead
<1> DEFINE r == CHOOSE f : f = F(f)
<1>6. r = F(r)
  <2> HIDE DEF F
  <2>. QED
    BY <1>4
<1>7. \A j \in 0 .. N : r[j] = IF j = 0 THEN c ELSE Rest(r[j - 1])
  <2> HIDE DEF r
  <2>. QED
    BY <1>6
<1> HIDE DEF r
<1>8. 0 \in 0 .. N /\ \A j \in 1 .. N : j \in 0 .. N /\ j # 0
  OBVIOUS
<1>9. r[0] = c /\ \A j \in 1 .. N : r[j] = Rest(r[j - 1])
  BY <1>7, <1>8
<1>. QED
  BY <1>5, <1>9 DEF r

(* From a cell of a list in order s one gets to the ones after it.          *)
LEMMA AheadInOrder ==
  ASSUME NEW n \in Nat, NEW b \in Nat, NEW s, Order(s, n, b), NEW w \in 0 .. n,
         LeadsOn(d, s, n, w), NEW N \in Nat
  PROVE  \A j \in 0 .. N : Ahead(At(s, n, w + 1), N)[j] = At(s, n, w + 1 + j)
<1> DEFINE A == Ahead(At(s, n, w + 1), N)
           G == {j \in 0 .. N : A[j] = At(s, n, w + 1 + j)}
<1>1. A[0] = At(s, n, w + 1) /\ \A j \in 1 .. N : A[j] = Rest(A[j - 1])
  BY AheadUnfolds
<1> HIDE DEF A
<1>2. ASSUME NEW k \in Nat, k >= w + 1 PROVE Rest(At(s, n, k)) = At(s, n, k + 1)
  <2>1. CASE k < n
    <3>1. k \in 1 .. n /\ k + 1 \in 1 .. n /\ k \in w + 1 .. n - 1
      BY <1>2, <2>1
    <3>2. d[s[k]] = s[k + 1]
      BY <3>1 DEF LeadsOn, Leads
    <3>3. s[k] \in b + 1 .. b + n
      BY <3>1 DEF Order
    <3>4. s[k] # 0
      BY <3>3
    <3>. QED
      BY <3>1, <3>2, <3>4 DEF At, Rest, Null
  <2>2. CASE k = n
    <3>1. k \in 1 .. n /\ k + 1 \notin 1 .. n /\ w < n
      BY <1>2, <2>2
    <3>2. d[s[k]] = Null
      BY <2>2, <3>1 DEF LeadsOn
    <3>3. s[k] \in b + 1 .. b + n
      BY <3>1 DEF Order
    <3>4. s[k] # 0
      BY <3>3
    <3>. QED
      BY <3>1, <3>2, <3>4 DEF At, Rest, Null
  <2>3. CASE k > n
    <3>1. k \notin 1 .. n /\ k + 1 \notin 1 .. n
      BY <2>3
    <3>. QED
      BY <3>1 DEF At, Rest
  <2>. QED
    BY <2>1, <2>2, <2>3
<1>3. 0 \in G
  BY <1>1
<1>4. ASSUME NEW k \in 1 .. N, k - 1 \in G PROVE k \in G
  <2>1. A[k - 1] = At(s, n, w + 1 + (k - 1)) /\ w + 1 + (k - 1) = w + k /\ w + 1 + k = w + k + 1
    BY <1>4
  <2>2. w + k \in Nat /\ w + k >= w + 1
    OBVIOUS
  <2>3. Rest(At(s, n, w + k)) = At(s, n, w + k + 1)
    BY <1>2, <2>2
  <2>4. A[k] = At(s, n, w + 1 + k)
    BY <1>1, <2>1, <2>3
  <2>5. k \in 0 .. N
    OBVIOUS
  <2>. QED
    BY <2>4, <2>5
<1>5. \A k \in 0 .. N : k \in G
  <2> HIDE DEF G
  <2>. QED
    BY <1>3, <1>4, Upwards
<1>. QED
  BY <1>5 DEF A

-----------------------------------------------------------------------------
(* Where runs end.                                                          *)
LEMMA NextCut ==
  ASSUME NEW k \in Nat, k > 0, NEW m \in Nat, NEW t \in Nat
  PROVE  /\ m * k \in Nat /\ t * k \in Nat
         /\ m * k < t * k <=> m < t
         /\ m < t => m * k + k <= t * k
<1>1. m * k \in Nat /\ t * k \in Nat
  OBVIOUS
<1>2. m < t => m * k + k <= t * k
  <2>1. (m + 1) * k = m * k + k
    OBVIOUS
  <2>2. m + 1 <= t => (m + 1) * k <= t * k
    BY Times
  <2>. QED
    BY <2>1, <2>2
<1>3. t <= m => t * k <= m * k
  BY Times
<1>4. m < t => m * k < t * k
  <2> DEFINE y == m * k
             z == t * k
  <2>1. y \in Nat /\ z \in Nat /\ (m < t => y + k <= z)
    BY <1>1, <1>2
  <2> HIDE DEF y, z
  <2>2. m < t => y < z
    BY <2>1
  <2>. QED
    BY <2>2 DEF y, z
<1>. QED
  BY <1>1, <1>2, <1>3, <1>4

(* Where runs of twice the length end, others do, and one in between.       *)
LEMMA CutFacts ==
  ASSUME NEW k \in Nat, k > 0, NEW o \in Nat, IsCut(o, 2 * k)
  PROVE  /\ IsCut(o, k) /\ IsCut(o + k, k) /\ IsCut(o + 2 * k, 2 * k)
         /\ \A c : IsCut(c, 2 * k) => IsCut(c, k)
         /\ \A c \in Nat : IsCut(c, k) => c <= o \/ c = o + k \/ c >= o + 2 * k
<1>1. PICK t \in Nat : o = t * (2 * k)
  BY DEF IsCut
<1>2. 2 * t \in Nat /\ o = (2 * t) * k
  BY <1>1
<1>3. 2 * t + 1 \in Nat /\ (2 * t + 1) * k = o + k
  BY <1>2
<1>4. t + 1 \in Nat /\ o + 2 * k = (t + 1) * (2 * k)
  BY <1>1
<1>5. ASSUME NEW c, IsCut(c, 2 * k) PROVE IsCut(c, k)
  <2>1. PICK m \in Nat : c = m * (2 * k)
    BY <1>5 DEF IsCut
  <2>2. 2 * m \in Nat /\ c = (2 * m) * k
    BY <2>1
  <2>. QED
    BY <2>2 DEF IsCut
<1>6. ASSUME NEW c \in Nat, IsCut(c, k) PROVE c <= o \/ c = o + k \/ c >= o + 2 * k
  <2>1. PICK m \in Nat : c = m * k
    BY <1>6 DEF IsCut
  <2> DEFINE u == 2 * t
  <2>2. u \in Nat /\ u * k = o
    BY <1>2
  <2> HIDE DEF u
  <2>3. CASE m <= u
    <3>1. m * k <= u * k
      BY <2>2, <2>3, Times
    <3>. QED
      BY <2>1, <2>2, <3>1
  <2>4. CASE m = u + 1
    <3>1. (u + 1) * k = u * k + k
      BY <2>2
    <3>. QED
      BY <2>1, <2>2, <2>4, <3>1
  <2>5. CASE m > u + 1
    <3>1. u + 1 \in Nat /\ u + 1 < m
      BY <2>2, <2>5
    <3>2. (u + 1) * k + k <= m * k
      BY <3>1, NextCut
    <3>3. (u + 1) * k = u * k + k
      BY <2>2
    <3>4. o + k + k <= c
      BY <2>1, <2>2, <3>2, <3>3
    <3>. QED
      BY <3>4
  <2>. QED
    BY <2>1, <2>2, <2>3, <2>4, <2>5
<1>7. IsCut(o, k) /\ IsCut(o + k, k) /\ IsCut(o + 2 * k, 2 * k)
  BY <1>2, <1>3, <1>4 DEF IsCut
<1>. QED
  BY <1>5, <1>6, <1>7

(* The keys of the cells are numbers.                                       *)
KeysOK(v, n, b) == \A c \in b + 1 .. b + n : v[c] \in Int

(* The keys of the cells in order.                                          *)
LEMMA KeysIn ==
  ASSUME NEW n \in Nat, NEW b \in Nat, NEW s, Order(s, n, b), NEW v, KeysOK(v, n, b)
  PROVE  \A j \in 1 .. n : s[j] \in Nat /\ v[s[j]] \in Int
<1>1. ASSUME NEW j \in 1 .. n PROVE s[j] \in Nat /\ v[s[j]] \in Int
  <2>1. s[j] \in b + 1 .. b + n
    BY DEF Order
  <2>. QED
    BY <2>1 DEF KeysOK
<1>. QED
  BY <1>1

(* The next merge starts.                                                   *)
LEMMA MergeStarts ==
  ASSUME NEW n \in Nat, NEW v, NEW s, NEW k \in Nat, k > 0, NEW t \in Nat, NEW w \in 0 .. n,
         Merged(v, s, n, w, k, t), w < n, NEW x, x = IF w + k <= n THEN w + k ELSE n
  PROVE  w = t * (2 * k) /\ InMerge(v, s, n, w, x, k, k, w)
<1>1. /\ w = IF t * (2 * k) <= n THEN t * (2 * k) ELSE n
      /\ RunsTo(v, s, n, w, 2 * k) /\ Apart(s, n, 2 * k) /\ RunsFrom(v, s, n, w, k)
  BY DEF Merged
<1>2. w = t * (2 * k)
  BY <1>1
<1>3. w \in Nat /\ IsCut(w, 2 * k)
  BY <1>2 DEF IsCut
<1>4. /\ IsCut(w + k, k)
      /\ \A c \in Nat : IsCut(c, k) => c <= w \/ c = w + k \/ c >= w + 2 * k
  BY <1>3, CutFacts
<1>5. x \in Nat /\ x <= n /\ x <= w + k /\ (x < n => x = w + k)
  BY <1>3
<1>6. RunsFrom(v, s, n, w + 2 * k, k)
  <2>1. \A j \in 1 .. n : w + 2 * k < j => w < j
    BY <1>3
  <2>. QED
    BY <1>1, <2>1 DEF RunsFrom
<1>7. ASSUME NEW j \in 1 .. n, NEW m \in 1 .. n, j < m, m <= w + 2 * k
      PROVE  /\ w < j /\ j <= w => Less(v, s[j], s[m])
             /\ w < j /\ m <= x => Less(v, s[j], s[m])
             /\ x < j => Less(v, s[j], s[m])
             /\ w < j /\ j <= x /\ x < m => s[j] < s[m]
  <2>1. w < j => IF Parted(j, m, k) THEN s[j] < s[m] ELSE Less(v, s[j], s[m])
    BY <1>1, <1>7 DEF RunsFrom
  <2>2. \A c \in j .. m - 1 : c \in Nat
    OBVIOUS
  <2>3. w < j /\ m <= x => ~Parted(j, m, k)
    <3>1. ASSUME w < j, m <= x, NEW c \in j .. m - 1, IsCut(c, k) PROVE FALSE
      <4>1. c <= w \/ c = w + k \/ c >= w + 2 * k
        BY <1>4, <2>2, <3>1
      <4>. QED
        BY <1>3, <1>5, <3>1, <4>1
    <3>. QED
      BY <3>1 DEF Parted
  <2>4. x < j => ~Parted(j, m, k)
    <3>1. ASSUME x < j, NEW c \in j .. m - 1, IsCut(c, k) PROVE FALSE
      <4>1. c <= w \/ c = w + k \/ c >= w + 2 * k
        BY <1>4, <2>2, <3>1
      <4>2. x = w + k
        BY <1>5, <3>1
      <4>. QED
        BY <1>3, <1>7, <3>1, <4>1, <4>2
    <3>. QED
      BY <3>1 DEF Parted
  <2>5. j <= x /\ x < m => Parted(j, m, k)
    <3>1. ASSUME j <= x, x < m PROVE w + k \in j .. m - 1
      BY <1>3, <1>5, <3>1
    <3>. QED
      BY <1>4, <3>1 DEF Parted
  <2>6. x < j => w < j
    BY <1>3, <1>5
  <2>. QED
    BY <1>3, <2>1, <2>3, <2>4, <2>5, <2>6
<1>8. w <= w /\ x <= w + 2 * k /\ (x < n => x + k = w + 2 * k)
  BY <1>3, <1>5
<1>. QED
  BY <1>1, <1>2, <1>3, <1>6, <1>7, <1>8 DEF InMerge

(* The first of p is taken: nothing that is left of q comes before it.      *)
LEMMA FromP ==
  ASSUME NEW n \in Nat, NEW b \in Nat, NEW s, Order(s, n, b), NEW v, KeysOK(v, n, b),
         NEW k \in Nat, NEW w \in 0 .. n, NEW x \in w .. n, NEW z, NEW o,
         InMerge(v, s, n, w, x, z, k, o), w < x,
         \A m \in 1 .. n : x < m /\ m <= o + 2 * k => v[s[w + 1]] <= v[s[x + 1]]
  PROVE  InMerge(v, s, n, w + 1, x, z, k, o)
<1>1. \A j \in 1 .. n : s[j] \in Nat /\ v[s[j]] \in Int
  BY KeysIn
<1>2. /\ o \in Nat /\ o <= w /\ o < n /\ IsCut(o, 2 * k)
      /\ x <= o + 2 * k /\ (x < n => x + z = o + 2 * k)
      /\ RunsTo(v, s, n, o, 2 * k) /\ Apart(s, n, 2 * k) /\ RunsFrom(v, s, n, o + 2 * k, k)
  BY DEF InMerge
<1>3. \A j, m \in 1 .. n : j < m /\ m <= o + 2 * k =>
       /\ o < j /\ j <= w => Less(v, s[j], s[m])
       /\ w < j /\ m <= x => Less(v, s[j], s[m])
       /\ x < j => Less(v, s[j], s[m])
       /\ w < j /\ j <= x /\ x < m => s[j] < s[m]
  BY DEF InMerge
<1>4. w + 1 \in 1 .. n /\ w + 1 <= x
  OBVIOUS
<1>5. ASSUME NEW m \in 1 .. n, w + 1 < m, m <= o + 2 * k PROVE Less(v, s[w + 1], s[m])
  <2>1. CASE m <= x
    BY <1>3, <1>4, <1>5, <2>1
  <2>2. CASE m > x
    <3>1. v[s[w + 1]] <= v[s[x + 1]] /\ x + 1 \in 1 .. n
      BY <1>5, <2>2
    <3>2. s[w + 1] < s[m]
      BY <1>3, <1>4, <1>5, <2>2
    <3>3. v[s[x + 1]] <= v[s[m]]
      <4>1. CASE m = x + 1
        BY <1>1, <3>1, <4>1
      <4>2. CASE m # x + 1
        <5>1. x + 1 < m
          BY <2>2, <4>2
        <5>2. Less(v, s[x + 1], s[m])
          BY <1>3, <1>5, <3>1, <5>1
        <5>. QED
          BY <1>1, <3>1, <5>2 DEF Less
      <4>. QED
        BY <4>1, <4>2
    <3>. QED
      BY <1>1, <1>4, <3>1, <3>2, <3>3 DEF Less
  <2>. QED
    BY <2>1, <2>2
<1>6. ASSUME NEW j \in 1 .. n, NEW m \in 1 .. n, j < m, m <= o + 2 * k
      PROVE  /\ o < j /\ j <= w + 1 => Less(v, s[j], s[m])
             /\ w + 1 < j /\ m <= x => Less(v, s[j], s[m])
             /\ x < j => Less(v, s[j], s[m])
             /\ w + 1 < j /\ j <= x /\ x < m => s[j] < s[m]
  <2>1. (j <= w + 1 => j <= w \/ j = w + 1) /\ (w + 1 < j => w < j)
    OBVIOUS
  <2>. QED
    BY <1>3, <1>5, <1>6, <2>1
<1>7. o <= w + 1
  BY <1>2
<1>. QED
  BY <1>2, <1>6, <1>7 DEF InMerge

(* The first of q goes before what is left of p.                            *)
Moved(s, n, w, x) ==
  [j \in 1 .. n |-> IF j = w + 1 THEN s[x + 1] ELSE IF w + 1 < j /\ j <= x + 1 THEN s[j - 1] ELSE s[j]]

(* Where the cell at j was.                                                 *)
From(w, x, j) == IF j = w + 1 THEN x + 1 ELSE IF w + 1 < j /\ j <= x + 1 THEN j - 1 ELSE j

(* It is a place in the order, and each is one of them once.                *)
LEMMA FromIs ==
  ASSUME NEW n \in Nat, NEW w \in 0 .. n, NEW x \in w .. n, x < n
  PROVE  /\ \A j \in 1 .. n : From(w, x, j) \in 1 .. n
         /\ \A j \in 1 .. n : j <= w \/ j > x + 1 => From(w, x, j) = j
         /\ \A j \in 1 .. n : w < j /\ j <= x + 1 => From(w, x, j) \in w + 1 .. x + 1
         /\ From(w, x, w + 1) = x + 1
         /\ \A j \in 1 .. n : w + 1 < j /\ j <= x + 1 => From(w, x, j) = j - 1
         /\ \A j, m \in 1 .. n : From(w, x, j) = From(w, x, m) => j = m
<1>1. \A j \in 1 .. n : From(w, x, j) \in 1 .. n
  BY DEF From
<1>2. \A j \in 1 .. n : j <= w \/ j > x + 1 => From(w, x, j) = j
  BY DEF From
<1>3. \A j \in 1 .. n : w < j /\ j <= x + 1 => From(w, x, j) \in w + 1 .. x + 1
  BY DEF From
<1>4. From(w, x, w + 1) = x + 1 /\ \A j \in 1 .. n : w + 1 < j /\ j <= x + 1 => From(w, x, j) = j - 1
  BY DEF From
<1>5. ASSUME NEW j \in 1 .. n, NEW m \in 1 .. n, From(w, x, j) = From(w, x, m) PROVE j = m
  BY <1>5 DEF From
<1>. QED
  BY <1>1, <1>2, <1>3, <1>4, <1>5

(* No place is left out.                                                    *)
LEMMA FromOnto ==
  ASSUME NEW n \in Nat, NEW w \in 0 .. n, NEW x \in w .. n, x < n, NEW m \in 1 .. n
  PROVE  \E j \in 1 .. n : From(w, x, j) = m
<1>1. CASE m = x + 1
  <2>1. w + 1 \in 1 .. n
    OBVIOUS
  <2>. QED
    BY FromIs, <1>1, <2>1
<1>2. CASE w < m /\ m <= x
  <2>1. m + 1 \in 1 .. n /\ w + 1 < m + 1 /\ m + 1 <= x + 1 /\ m + 1 - 1 = m
    BY <1>2
  <2>2. From(w, x, m + 1) = m
    BY <2>1 DEF From
  <2>. QED
    BY <2>1, <2>2
<1>3. CASE m <= w \/ m > x + 1
  BY FromIs, <1>3
<1>. QED
  BY <1>1, <1>2, <1>3

(* Moving a cell to the front leaves every cell in the order once.          *)
LEMMA MovedOrder ==
  ASSUME NEW n \in Nat, NEW b \in Nat, NEW s, Order(s, n, b), NEW w \in 0 .. n, NEW x \in w .. n, x < n
  PROVE  Order(Moved(s, n, w, x), n, b)
<1> DEFINE z == Moved(s, n, w, x)
<1>1. z = [j \in 1 .. n |-> z[j]]
  BY DEF Moved
<1>2. /\ \A j \in 1 .. n : From(w, x, j) \in 1 .. n /\ z[j] = s[From(w, x, j)]
      /\ \A j, m \in 1 .. n : From(w, x, j) = From(w, x, m) => j = m
      /\ \A m \in 1 .. n : \E j \in 1 .. n : From(w, x, j) = m
  <2>1. \A j \in 1 .. n : z[j] = s[From(w, x, j)]
    BY DEF Moved, From
  <2>2. \A j \in 1 .. n : From(w, x, j) \in 1 .. n
    BY FromIs
  <2>3. \A j, m \in 1 .. n : From(w, x, j) = From(w, x, m) => j = m
    BY FromIs
  <2>4. \A m \in 1 .. n : \E j \in 1 .. n : From(w, x, j) = m
    BY FromOnto
  <2> HIDE DEF z
  <2>. QED
    BY <2>1, <2>2, <2>3, <2>4
<1> HIDE DEF z
<1>3. /\ s \in [1 .. n -> b + 1 .. b + n]
      /\ \A j, m \in 1 .. n : s[j] = s[m] => j = m
      /\ \A c \in b + 1 .. b + n : \E m \in 1 .. n : s[m] = c
  BY DEF Order
<1>4. z \in [1 .. n -> b + 1 .. b + n]
  <2>1. ASSUME NEW j \in 1 .. n PROVE z[j] \in b + 1 .. b + n
    <3>1. PICK k \in 1 .. n : z[j] = s[k]
      BY <1>2
    <3>. QED
      BY <1>3, <3>1
  <2>. QED
    BY <1>1, <2>1
<1>5. ASSUME NEW j \in 1 .. n, NEW m \in 1 .. n, z[j] = z[m] PROVE j = m
  <2>1. PICK k \in 1 .. n : k = From(w, x, j) /\ z[j] = s[k]
    BY ONLY <1>2, j \in 1 .. n, Zenon
  <2>1a. PICK l \in 1 .. n : l = From(w, x, m) /\ z[m] = s[l]
    BY ONLY <1>2, m \in 1 .. n, Zenon
  <2>2. k = l
    BY ONLY <1>3, <1>5, <2>1, <2>1a
  <2>. QED
    BY <1>2, <2>1, <2>1a, <2>2
<1>6. \A c \in b + 1 .. b + n : \E j \in 1 .. n : z[j] = c
  <2>1. ASSUME NEW c \in b + 1 .. b + n PROVE \E j \in 1 .. n : z[j] = c
    <3>1. PICK m \in 1 .. n : s[m] = c
      BY <1>3
    <3>2. PICK j \in 1 .. n : From(w, x, j) = m
      BY <1>2
    <3>. QED
      BY <1>2, <3>1, <3>2
  <2>. QED
    BY <2>1
<1>. QED
  BY <1>4, <1>5, <1>6 DEF Order, z

(* The first of q is taken: it comes before all that is left of p.          *)
LEMMA FromQ ==
  ASSUME NEW n \in Nat, NEW b \in Nat, NEW s, Order(s, n, b), NEW v, KeysOK(v, n, b),
         NEW k \in Nat, k > 0, NEW w \in 0 .. n, NEW x \in w .. n, NEW z \in Nat, NEW o,
         InMerge(v, s, n, w, x, z, k, o), x < n, z > 0,
         w < x => v[s[x + 1]] < v[s[w + 1]]
  PROVE  InMerge(v, Moved(s, n, w, x), n, w + 1, x + 1, z - 1, k, o)
<1> DEFINE r == Moved(s, n, w, x)
           e == o + 2 * k
           f(j) == From(w, x, j)
<1>1. \A j \in 1 .. n : s[j] \in Nat /\ v[s[j]] \in Int
  BY KeysIn
<1>2. /\ o \in Nat /\ o <= w /\ o < n /\ IsCut(o, 2 * k)
      /\ x <= e /\ (x < n => x + z = e)
      /\ RunsTo(v, s, n, o, 2 * k) /\ Apart(s, n, 2 * k) /\ RunsFrom(v, s, n, e, k)
  BY DEF InMerge
<1>3. \A j, m \in 1 .. n : j < m /\ m <= e =>
       /\ o < j /\ j <= w => Less(v, s[j], s[m])
       /\ w < j /\ m <= x => Less(v, s[j], s[m])
       /\ x < j => Less(v, s[j], s[m])
       /\ w < j /\ j <= x /\ x < m => s[j] < s[m]
  BY DEF InMerge
<1>4. /\ IsCut(e, 2 * k) /\ e \in Nat
      /\ \A c \in Nat : IsCut(c, 2 * k) => c <= o \/ c >= e
  <2>1. /\ IsCut(o + 2 * k, 2 * k) /\ \A c : IsCut(c, 2 * k) => IsCut(c, k)
        /\ \A c \in Nat : IsCut(c, k) => c <= o \/ c = o + k \/ c >= o + 2 * k
    BY <1>2, CutFacts
  <2>2. ~IsCut(o + k, 2 * k)
    <3>1. PICK t \in Nat : o = t * (2 * k)
      BY <1>2 DEF IsCut
    <3>2. ASSUME NEW m \in Nat, o + k = m * (2 * k) PROVE FALSE
      <4> DEFINE h == 2 * k
      <4>1. h \in Nat /\ h > 0 /\ t * h < m * h /\ m * h < t * h + h
        <5>1. t * h \in Nat /\ t * h = o /\ m * h = o + k /\ h = 2 * k
          BY <3>1, <3>2
        <5>. QED
          BY <5>1, <1>2
      <4> HIDE DEF h
      <4>2. t < m
        BY <4>1, NextCut
      <4>3. t * h + h <= m * h /\ t * h \in Nat /\ m * h \in Nat
        BY <4>1, <4>2, NextCut
      <4>. QED
        BY <4>1, <4>3
    <3>. QED
      BY <3>2 DEF IsCut
  <2>3. e \in Nat
    BY <1>2
  <2>. QED
    BY <2>1, <2>2, <2>3
<1>5. x + 1 \in 1 .. n /\ x + 1 <= e /\ w + 1 <= x + 1 /\ w \in Nat /\ x \in Nat /\ x + z = e
  BY <1>2
<1>6. \A j \in 1 .. n : r[j] = s[f(j)] /\ f(j) \in 1 .. n
  BY DEF Moved, From
<1>7. \A j \in 1 .. n : j <= w \/ j > x + 1 => f(j) = j
  BY DEF From
<1>8. \A j \in 1 .. n : w + 1 < j /\ j <= x + 1 => f(j) = j - 1
  BY DEF From
<1>9. f(w + 1) = x + 1
  BY DEF From
<1>10. \A j \in 1 .. n : w < j /\ j <= x + 1 => f(j) > w /\ f(j) <= x + 1
  BY DEF From
<1> HIDE DEF r, f, e
<1>11. RunsTo(v, r, n, o, 2 * k)
  <2>1. \A j \in 1 .. n : j <= o => r[j] = s[j]
    BY <1>2, <1>6, <1>7
  <2>2. \A j, m \in 1 .. n : j < m /\ m <= o => j <= o
    BY <1>2
  <2>. QED
    BY <1>2, <2>1, <2>2 DEF RunsTo
<1>12. RunsFrom(v, r, n, e, k)
  <2>1. \A j \in 1 .. n : e < j => r[j] = s[j]
    BY <1>4, <1>5, <1>6, <1>7
  <2>2. \A j, m \in 1 .. n : e < j /\ j < m => e < m
    BY <1>4
  <2>. QED
    BY <1>2, <2>1, <2>2 DEF RunsFrom
<1>13. Apart(r, n, 2 * k)
  <2>1. ASSUME NEW j \in 1 .. n, NEW m \in 1 .. n, j < m, NEW c \in j .. m - 1, IsCut(c, 2 * k)
        PROVE  f(j) < f(m) /\ c \in f(j) .. f(m) - 1
    <3>1. c \in Nat /\ j <= c /\ c < m /\ (c <= o \/ c >= e)
      BY <1>4, <2>1
    <3>2. f(j) \in Nat /\ f(m) \in Nat
      BY <1>6
    <3>3. f(j) <= c
      <4>1. CASE j <= w \/ j > x + 1
        BY <1>7, <3>1, <4>1
      <4>2. CASE w < j /\ j <= x + 1
        <5>1. f(j) <= x + 1
          BY <1>10, <4>2
        <5>. QED
          BY <1>2, <1>4, <1>5, <3>1, <3>2, <4>2, <5>1
      <4>. QED
        BY <1>5, <4>1, <4>2
    <3>4. c < f(m)
      <4>1. CASE m <= w \/ m > x + 1
        BY <1>7, <3>1, <4>1
      <4>2. CASE w < m /\ m <= x + 1
        <5>1. f(m) > w
          BY <1>10, <4>2
        <5>. QED
          BY <1>2, <1>4, <1>5, <3>1, <3>2, <4>2, <5>1
      <4>. QED
        BY <1>5, <4>1, <4>2
    <3>. QED
      BY <3>1, <3>2, <3>3, <3>4
  <2>2. ASSUME NEW j \in 1 .. n, NEW m \in 1 .. n, j < m, Parted(j, m, 2 * k) PROVE r[j] < r[m]
    <3>1. PICK c \in j .. m - 1 : IsCut(c, 2 * k)
      BY <2>2 DEF Parted
    <3>2. f(j) < f(m) /\ Parted(f(j), f(m), 2 * k)
      BY <2>1, <2>2, <3>1 DEF Parted
    <3>3. s[f(j)] < s[f(m)]
      BY <1>2, <1>6, <3>2 DEF Apart
    <3>. QED
      BY <1>6, <3>3
  <2>. QED
    BY <2>2 DEF Apart
<1>14. ASSUME NEW j \in 1 .. n, w < j, j <= x PROVE Less(v, s[x + 1], s[j])
  <2>1. w + 1 \in 1 .. n /\ v[s[x + 1]] < v[s[w + 1]]
    BY <1>5, <1>14
  <2>2. CASE j = w + 1
    BY <2>1, <2>2 DEF Less
  <2>3. CASE j # w + 1
    <3>1. Less(v, s[w + 1], s[j])
      BY <1>3, <1>4, <1>5, <1>14, <2>1, <2>3
    <3>. QED
      BY <1>1, <1>5, <2>1, <3>1 DEF Less
  <2>. QED
    BY <2>2, <2>3
<1>15. ASSUME NEW j \in 1 .. n, NEW m \in 1 .. n, j < m, m <= e
       PROVE  /\ o < j /\ j <= w + 1 => Less(v, r[j], r[m])
              /\ w + 1 < j /\ m <= x + 1 => Less(v, r[j], r[m])
              /\ x + 1 < j => Less(v, r[j], r[m])
              /\ w + 1 < j /\ j <= x + 1 /\ x + 1 < m => r[j] < r[m]
  <2>1. r[j] = s[f(j)] /\ r[m] = s[f(m)] /\ f(j) \in 1 .. n /\ f(m) \in 1 .. n
    BY <1>6
  <2>2. CASE o < j /\ j <= w
    <3>1. f(j) = j /\ j < f(m) /\ f(m) <= e
      <4>1. f(j) = j
        BY <1>7, <2>2
      <4>2. CASE m <= w \/ m > x + 1
        BY <1>7, <1>15, <4>1, <4>2
      <4>3. CASE w < m /\ m <= x + 1
        <5>1. f(m) > w /\ f(m) <= x + 1
          BY <1>10, <4>3
        <5>. QED
          BY <1>4, <1>5, <2>1, <2>2, <4>1, <5>1
      <4>. QED
        BY <1>5, <4>2, <4>3
    <3>2. Less(v, s[j], s[f(m)])
      BY <1>3, <2>1, <2>2, <3>1
    <3>3. Less(v, r[j], r[m])
      BY <2>1, <3>1, <3>2
    <3>. QED
      BY <1>5, <2>2, <3>3
  <2>3. CASE j = w + 1
    <3>1. r[j] = s[x + 1]
      BY <1>9, <2>1, <2>3
    <3>2. CASE m <= x + 1
      <4>1. f(m) = m - 1
        BY <1>8, <1>15, <2>3, <3>2
      <4>2. w < m - 1 /\ m - 1 <= x /\ m - 1 \in 1 .. n
        BY <1>5, <1>15, <2>3, <3>2
      <4>. QED
        BY <1>5, <1>14, <2>1, <2>3, <3>1, <3>2, <4>1, <4>2
    <3>3. CASE m > x + 1
      <4>1. f(m) = m
        BY <1>7, <3>3
      <4>2. Less(v, s[x + 1], s[m])
        BY <1>3, <1>5, <1>15, <3>3
      <4>. QED
        BY <1>5, <2>1, <2>3, <3>1, <3>3, <4>1, <4>2
    <3>. QED
      BY <1>5, <3>2, <3>3
  <2>4. CASE w + 1 < j /\ j <= x + 1
    <3>1. f(j) = j - 1 /\ j - 1 \in 1 .. n /\ w < j - 1 /\ j - 1 <= x
      BY <1>5, <1>8, <2>4
    <3>2. m <= x + 1 => Less(v, r[j], r[m])
      <4>1. SUFFICES ASSUME m <= x + 1 PROVE Less(v, r[j], r[m])
        OBVIOUS
      <4>2. f(m) = m - 1
        BY <1>5, <1>8, <1>15, <2>4, <4>1
      <4>3. m - 1 \in 1 .. n /\ j - 1 < m - 1 /\ m - 1 <= x /\ m - 1 <= e
        BY <1>4, <1>5, <1>15, <2>4, <4>1
      <4>4. Less(v, s[j - 1], s[m - 1])
        BY <1>3, <3>1, <4>3
      <4>. QED
        BY <2>1, <3>1, <4>2, <4>4
    <3>3. x + 1 < m => r[j] < r[m]
      <4>1. SUFFICES ASSUME x + 1 < m PROVE r[j] < r[m]
        OBVIOUS
      <4>2. f(m) = m /\ x < m /\ j - 1 < m
        BY <1>5, <1>7, <3>1, <4>1
      <4>3. s[j - 1] < s[m]
        BY <1>3, <1>15, <3>1, <4>2
      <4>. QED
        BY <2>1, <3>1, <4>2, <4>3
    <3>. QED
      BY <1>5, <2>4, <3>2, <3>3
  <2>5. CASE x + 1 < j
    <3>1. f(j) = j /\ f(m) = m /\ x < j
      BY <1>5, <1>7, <1>15, <2>5
    <3>2. Less(v, s[j], s[m])
      BY <1>3, <1>15, <3>1
    <3>. QED
      BY <1>5, <2>1, <2>5, <3>1, <3>2
  <2>6. CASE j <= o
    BY <1>2, <1>5, <2>6
  <2>. QED
    BY <1>2, <1>5, <2>2, <2>3, <2>4, <2>5, <2>6
<1>16. o <= w + 1 /\ x + 1 <= e /\ (x + 1 < n => x + 1 + (z - 1) = e)
  BY <1>2, <1>5
<1>. QED
  BY <1>2, <1>11, <1>12, <1>13, <1>15, <1>16 DEF InMerge, r, e

(* Nothing is left of p and q.                                              *)
LEMMA MergeEnds ==
  ASSUME NEW n \in Nat, NEW v, NEW s, NEW k \in Nat, k > 0, NEW w \in 0 .. n, NEW z \in Nat,
         NEW t \in Nat, InMerge(v, s, n, w, w, z, k, t * (2 * k)), z = 0 \/ w = n
  PROVE  Merged(v, s, n, w, k, t + 1)
<1> DEFINE o == t * (2 * k)
           e == o + 2 * k
<1>1. /\ o \in Nat /\ o <= w /\ o < n /\ IsCut(o, 2 * k)
      /\ w <= e /\ (w < n => w + z = e)
      /\ RunsTo(v, s, n, o, 2 * k) /\ Apart(s, n, 2 * k) /\ RunsFrom(v, s, n, e, k)
      /\ \A j, m \in 1 .. n : j < m /\ m <= e => (o < j /\ j <= w => Less(v, s[j], s[m]))
  BY DEF InMerge
<1>2. (t + 1) * (2 * k) = e /\ (t + 1 - 1) * (2 * k) = o /\ t + 1 \in Nat
  <2>1. t + 1 - 1 = t
    OBVIOUS
  <2>2. (t + 1) * (2 * k) = t * (2 * k) + 2 * k
    OBVIOUS
  <2>. QED
    BY <2>1, <2>2
<1> HIDE DEF o
<1>3. w = IF e <= n THEN e ELSE n
  BY <1>1
<1>4. RunsTo(v, s, n, w, 2 * k)
  <2>1. ASSUME NEW j \in 1 .. n, NEW m \in 1 .. n, j < m, m <= w, ~Parted(j, m, 2 * k)
        PROVE  Less(v, s[j], s[m])
    <3>1. CASE m <= o
      BY <1>1, <2>1, <3>1 DEF RunsTo
    <3>2. CASE o < j
      <4>1. m <= e /\ j <= w
        BY <1>1, <2>1
      <4>. QED
        BY <1>1, <2>1, <3>2, <4>1
    <3>3. CASE j <= o /\ o < m
      <4>1. o \in j .. m - 1
        BY <1>1, <3>3
      <4>. QED
        BY <1>1, <2>1, <4>1 DEF Parted
    <3>. QED
      BY <1>1, <3>1, <3>2, <3>3
  <2>. QED
    BY <2>1 DEF RunsTo
<1>5. RunsFrom(v, s, n, w, k)
  <2>1. CASE w < n
    <3>1. w = e
      BY <1>1, <2>1
    <3>. QED
      BY <1>1, <3>1
  <2>2. CASE w = n
    <3>1. \A j \in 1 .. n : ~(w < j)
      BY <2>2
    <3>. QED
      BY <3>1 DEF RunsFrom
  <2>. QED
    BY <2>1, <2>2
<1>. QED
  BY <1>1, <1>2, <1>3, <1>4, <1>5 DEF Merged

(* A pass is over: the runs are twice as long, and all is one run when only *)
(* one merge was made, of which the Byte tells the number unless there are  *)
(* too many.                                                                *)
LEMMA PassEnds ==
  ASSUME NEW n \in Nat, n > 0, NEW v, NEW s, NEW k \in Nat, k > 0, NEW t \in Nat,
         Merged(v, s, n, n, k, t)
  PROVE  /\ RunsFrom(v, s, n, 0, 2 * k)
         /\ t <= 1 => \A j, m \in 1 .. n : j < m => Less(v, s[j], s[m])
         /\ n <= 2 * ByteValues - 2 => t % ByteValues = t
<1>1. /\ t > 0 => (t - 1) * (2 * k) < n
      /\ n = IF t * (2 * k) <= n THEN t * (2 * k) ELSE n
      /\ RunsTo(v, s, n, n, 2 * k) /\ Apart(s, n, 2 * k)
  BY DEF Merged
<1>2. RunsFrom(v, s, n, 0, 2 * k)
  <2>1. \A m \in 1 .. n : m <= n
    OBVIOUS
  <2>. QED
    BY <1>1, <2>1 DEF RunsTo, RunsFrom, Apart
<1>3. n <= t * (2 * k)
  BY <1>1
<1>4. ASSUME t <= 1, NEW j \in 1 .. n, NEW m \in 1 .. n, j < m PROVE Less(v, s[j], s[m])
  <2>1. t = 0 \/ t = 1
    BY <1>4
  <2>2. n <= 2 * k
    BY <1>3, <2>1
  <2>3. ~Parted(j, m, 2 * k)
    <3>1. ASSUME NEW c \in j .. m - 1, NEW y \in Nat, c = y * (2 * k) PROVE FALSE
      <4> DEFINE h == 2 * k
      <4>1. h \in Nat /\ h > 0 /\ c = y * h /\ c > 0 /\ c < h
        BY <2>2, <3>1
      <4> HIDE DEF h
      <4>2. y >= 1
        BY <4>1
      <4>3. 1 * h <= y * h
        BY <4>1, <4>2, Times
      <4>. QED
        BY <4>1, <4>3
    <3>. QED
      BY <3>1 DEF Parted, IsCut
  <2>. QED
    BY <1>1, <1>4, <2>3 DEF RunsTo
<1>5. ASSUME n <= 2 * ByteValues - 2 PROVE t % ByteValues = t
  <2>1. ByteValues \in Nat /\ ByteValues > 1
    BY WidthAssumption
  <2>2. t < ByteValues
    <3>1. CASE t = 0
      BY <2>1, <3>1
    <3>2. CASE t > 0
      <4> DEFINE y == t - 1
      <4>1. y \in Nat /\ y * (2 * k) < n
        BY <1>1, <3>2
      <4> HIDE DEF y
      <4>2. y * 2 <= y * (2 * k)
        <5>1. 2 * y \in Nat /\ 1 * (2 * y) <= k * (2 * y)
          BY <4>1, Times
        <5>2. k * (2 * y) = y * (2 * k) /\ 1 * (2 * y) = y * 2
          BY <4>1
        <5>. QED
          BY <5>1, <5>2
      <4> DEFINE h == y * (2 * k)
      <4>3. h \in Nat /\ h < n /\ y * 2 <= h
        BY <4>1, <4>2
      <4> HIDE DEF h
      <4>4. y < ByteValues - 1
        BY <1>5, <2>1, <4>1, <4>3
      <4>. QED
        BY <2>1, <4>4 DEF y
    <3>. QED
      BY <3>1, <3>2
  <2>. QED
    BY <2>1, <2>2
<1>. QED
  BY <1>2, <1>4, <1>5

-----------------------------------------------------------------------------
(* The links.                                                               *)

(* f with the w-th cell linked to e instead, as taking a cell does it.      *)
Linking(f, g, s, n, b, w, e) ==
  \A c \in b + 1 .. b + n : g[c] = IF w > 0 /\ c = s[w] THEN e ELSE f[c]

(* The links along the order, after one was changed.                        *)
LEMMA LinkingIs ==
  ASSUME NEW n \in Nat, NEW b \in Nat, NEW s, Order(s, n, b), NEW w \in 0 .. n, NEW e,
         NEW f, NEW g, Linking(f, g, s, n, b, w, e)
  PROVE  \A m \in 1 .. n : (m = w => g[s[m]] = e) /\ (m # w => g[s[m]] = f[s[m]])
<1>1. ASSUME NEW m \in 1 .. n PROVE (m = w => g[s[m]] = e) /\ (m # w => g[s[m]] = f[s[m]])
  <2>1. s[m] \in b + 1 .. b + n
    BY DEF Order
  <2>2. g[s[m]] = IF w > 0 /\ s[m] = s[w] THEN e ELSE f[s[m]]
    BY <2>1 DEF Linking
  <2>3. w > 0 /\ s[m] = s[w] => m = w
    BY DEF Order
  <2>. QED
    BY <2>2, <2>3
<1>. QED
  BY <1>1

(* Taking the next of p continues the list that is being made.              *)
LEMMA LinksFromP ==
  ASSUME NEW n \in Nat, NEW b \in Nat, NEW s, Order(s, n, b), NEW f, NEW i, NEW w, NEW x,
         Merging(f, i, s, n, w, x), w < x,
         NEW g, Linking(f, g, s, n, b, w, s[w + 1]),
         NEW j, j.tail = s[w + 1], j.list = (IF w = 0 THEN s[w + 1] ELSE i.list),
         j.p = f[s[w + 1]], j.psize = i.psize - 1, j.q = i.q, j.qsize = i.qsize
  PROVE  Merging(g, j, s, n, w + 1, x)
<1>1. /\ w \in 0 .. n /\ x \in w .. n /\ i.psize = x - w /\ i.qsize \in Nat
      /\ i.q = At(s, n, x + 1)
      /\ \A m \in w + 1 .. x - 1 : f[s[m]] = s[m + 1]
      /\ \A m \in x + 1 .. n - 1 : f[s[m]] = s[m + 1]
      /\ \A m \in 1 .. w - 1 : f[s[m]] = s[m + 1]
      /\ x < n => f[s[n]] = Null
      /\ i.list = IF w = 0 THEN Null ELSE s[1]
  BY DEF Merging, Built, Leads, LeadsOn
<1>2. \A m \in 1 .. n : (m = w => g[s[m]] = s[w + 1]) /\ (m # w => g[s[m]] = f[s[m]])
  <2> DEFINE e == s[w + 1]
  <2> HIDE DEF e
  <2>1. \A m \in 1 .. n : (m = w => g[s[m]] = e) /\ (m # w => g[s[m]] = f[s[m]])
    BY <1>1, LinkingIs DEF e
  <2>. QED
    BY <2>1 DEF e
<1>3. w + 1 \in 0 .. n /\ x \in w + 1 .. n /\ j.psize = x - (w + 1) /\ w + 1 \in 1 .. n
  BY <1>1
<1>4. Built(g, j, s, n, w + 1)
  <2>1. \A m \in 1 .. (w + 1) - 1 : g[s[m]] = s[m + 1]
    BY <1>1, <1>2
  <2>2. j.list = s[1] /\ w + 1 # 0
    BY <1>1
  <2>3. Leads(g, s, 1, w + 1)
    BY ONLY <2>1, Zenon DEF Leads
  <2>4. j.tail = At(s, n, w + 1)
    BY <1>3 DEF At
  <2>. QED
    BY <2>2, <2>3, <2>4 DEF Built
<1>5. w + 1 < x => j.p = s[w + 1 + 1]
  BY <1>1
<1>6. Leads(g, s, w + 1 + 1, x)
  BY <1>1, <1>2 DEF Leads
<1>7. LeadsOn(g, s, n, x)
  BY <1>1, <1>2 DEF LeadsOn, Leads
<1>. QED
  BY <1>1, <1>3, <1>4, <1>5, <1>6, <1>7 DEF Merging

(* Taking the next of q does, with that cell moved to the front.            *)
LEMMA LinksFromQ ==
  ASSUME NEW n \in Nat, NEW b \in Nat, NEW s, Order(s, n, b), NEW f, NEW i, NEW w, NEW x,
         Merging(f, i, s, n, w, x), x < n, i.qsize > 0,
         NEW g, Linking(f, g, s, n, b, w, s[x + 1]),
         NEW j, j.tail = s[x + 1], j.list = (IF w = 0 THEN s[x + 1] ELSE i.list),
         j.q = f[s[x + 1]], j.qsize = i.qsize - 1, j.p = i.p, j.psize = i.psize
  PROVE  Merging(g, j, Moved(s, n, w, x), n, w + 1, x + 1)
<1> DEFINE r == Moved(s, n, w, x)
<1>1. /\ w \in 0 .. n /\ x \in w .. n /\ i.psize = x - w /\ i.qsize \in Nat
      /\ w < x => i.p = s[w + 1]
      /\ \A m \in w + 1 .. x - 1 : f[s[m]] = s[m + 1]
      /\ \A m \in x + 1 .. n - 1 : f[s[m]] = s[m + 1]
      /\ \A m \in 1 .. w - 1 : f[s[m]] = s[m + 1]
      /\ x < n => f[s[n]] = Null
      /\ i.list = IF w = 0 THEN Null ELSE s[1]
  BY DEF Merging, Built, Leads, LeadsOn
<1>2. \A m \in 1 .. n : (m = w => g[s[m]] = s[x + 1]) /\ (m # w => g[s[m]] = f[s[m]])
  <2> DEFINE e == s[x + 1]
  <2> HIDE DEF e
  <2>1. \A m \in 1 .. n : (m = w => g[s[m]] = e) /\ (m # w => g[s[m]] = f[s[m]])
    BY <1>1, LinkingIs DEF e
  <2>. QED
    BY <2>1 DEF e
<1>3. /\ \A m \in 1 .. n : m <= w \/ m > x + 1 => r[m] = s[m]
      /\ \A m \in 1 .. n : w + 1 < m /\ m <= x + 1 => r[m] = s[m - 1]
      /\ r[w + 1] = s[x + 1]
  BY <1>1 DEF Moved
<1> HIDE DEF r
<1>4. /\ w + 1 \in 0 .. n /\ x + 1 \in w + 1 .. n /\ j.psize = x + 1 - (w + 1) /\ w + 1 \in 1 .. n
      /\ j.qsize \in Nat
  BY <1>1
<1>5. Built(g, j, r, n, w + 1)
  <2>1. ASSUME NEW m \in 1 .. (w + 1) - 1 PROVE g[r[m]] = r[m + 1]
    <3>1. m \in 1 .. n /\ m <= w /\ r[m] = s[m]
      BY <1>1, <1>3
    <3>2. CASE m = w
      BY <1>2, <1>3, <3>1, <3>2
    <3>3. CASE m # w
      <4>1. m + 1 <= w /\ m + 1 \in 1 .. n /\ m \in 1 .. w - 1
        BY <1>1, <3>3
      <4>. QED
        BY <1>1, <1>2, <1>3, <3>1, <3>3, <4>1
    <3>. QED
      BY <3>2, <3>3
  <2>2. j.list = r[1] /\ w + 1 # 0
    <3>1. CASE w = 0
      BY <1>3, <3>1
    <3>2. CASE w # 0
      <4>1. 1 \in 1 .. n /\ 1 <= w
        BY <1>1, <3>2
      <4>. QED
        BY <1>1, <1>3, <3>2, <4>1
    <3>. QED
      BY <1>1, <3>1, <3>2
  <2>3. \A m \in 1 .. (w + 1) - 1 : g[r[m]] = r[m + 1]
    BY <2>1
  <2>4. j.tail = r[w + 1]
    BY <1>3
  <2>5. Leads(g, r, 1, w + 1)
    BY ONLY <2>3, Zenon DEF Leads
  <2>6. j.tail = At(r, n, w + 1)
    BY <1>4, <2>4 DEF At
  <2>. QED
    BY <2>2, <2>5, <2>6 DEF Built
<1>6. w + 1 < x + 1 => j.p = r[w + 1 + 1]
  <2>1. SUFFICES ASSUME w + 1 < x + 1 PROVE j.p = r[w + 1 + 1]
    OBVIOUS
  <2>2. w + 1 + 1 \in 1 .. n /\ w + 1 < w + 1 + 1 /\ w + 1 + 1 <= x + 1 /\ w + 1 + 1 - 1 = w + 1 /\ w < x
    BY <1>1, <2>1
  <2>. QED
    BY <1>1, <1>3, <2>2
<1>7. j.q = At(r, n, x + 1 + 1)
  <2>1. CASE x + 1 < n
    <3>1. x + 1 + 1 \in 1 .. n /\ x + 1 + 1 > x + 1 /\ x + 1 \in x + 1 .. n - 1
      BY <1>1, <2>1
    <3>. QED
      BY <1>1, <1>3, <3>1 DEF At
  <2>2. CASE x + 1 = n
    <3>1. x + 1 + 1 \notin 1 .. n
      BY <1>1, <2>2
    <3>. QED
      BY <1>1, <2>2, <3>1 DEF At
  <2>. QED
    BY <1>1, <2>1, <2>2
<1>8. Leads(g, r, w + 1 + 1, x + 1)
  <2>1. ASSUME NEW m \in w + 1 + 1 .. (x + 1) - 1 PROVE g[r[m]] = r[m + 1]
    <3>1. /\ m \in 1 .. n /\ m + 1 \in 1 .. n /\ w + 1 < m /\ m <= x + 1 /\ w + 1 < m + 1 /\ m + 1 <= x + 1
          /\ m + 1 - 1 = m /\ m - 1 \in w + 1 .. x - 1 /\ m - 1 + 1 = m /\ m - 1 \in 1 .. n /\ m - 1 # w
      BY <1>1
    <3>2. r[m] = s[m - 1] /\ r[m + 1] = s[m]
      BY <1>3, <3>1
    <3>3. f[s[m - 1]] = s[m]
      BY <1>1, <3>1
    <3>. QED
      BY <1>2, <3>1, <3>2, <3>3
  <2>2. \A m \in w + 1 + 1 .. (x + 1) - 1 : g[r[m]] = r[m + 1]
    BY <2>1, Zenon
  <2>. QED
    BY ONLY <2>2, Zenon DEF Leads
<1>9. LeadsOn(g, r, n, x + 1)
  <2>1. ASSUME NEW m \in x + 1 + 1 .. n - 1 PROVE g[r[m]] = r[m + 1]
    <3>1. m \in 1 .. n /\ m + 1 \in 1 .. n /\ m > x + 1 /\ m + 1 > x + 1 /\ m # w /\ m \in x + 1 .. n - 1
      BY <1>1
    <3>. QED
      BY <1>1, <1>2, <1>3, <3>1
  <2>2. x + 1 < n => g[r[n]] = Null
    <3>1. SUFFICES ASSUME x + 1 < n PROVE g[r[n]] = Null
      OBVIOUS
    <3>2. n \in 1 .. n /\ n > x + 1 /\ n # w
      BY <1>1, <3>1
    <3>. QED
      BY <1>1, <1>2, <1>3, <3>2
  <2>. QED
    BY <2>1, <2>2 DEF LeadsOn, Leads
<1>. QED
  BY <1>4, <1>5, <1>6, <1>7, <1>8, <1>9 DEF Merging, r

-----------------------------------------------------------------------------
(* What a step of the sort does to its state.                               *)
Restarted(i, x, y, z, u, j) == j = [i EXCEPT !.p = x, !.list = y, !.tail = z, !.numMerges = u]
SplitUp(i, x, y, z, u, j) == j = [i EXCEPT !.numMerges = x, !.q = y, !.psize = z, !.qsize = u]
Doubled(i, x, j) == j = [i EXCEPT !.stepSize = x]
WentOn(i, x, j) == j = [i EXCEPT !.p = x]
TookP(i, x, y, z, u, j) == j = [[i EXCEPT !.p = x, !.psize = y] EXCEPT !.tail = z, !.list = u]
TookQ(i, x, y, z, u, j) == j = [[i EXCEPT !.q = x, !.qsize = y] EXCEPT !.tail = z, !.list = u]

(* The fields after such a step.                                            *)
LEMMA SortRecord ==
  ASSUME NEW S,
         NEW i \in [list : S, p : S, q : S, tail : S, stepSize : S, psize : S, qsize : S, numMerges : S],
         NEW x \in S, NEW y \in S, NEW z \in S, NEW u \in S, NEW j
  PROVE  /\ Restarted(i, x, y, z, u, j) => j = SFields(y, x, i.q, z, i.stepSize, i.psize, i.qsize, u)
         /\ SplitUp(i, x, y, z, u, j) => j = SFields(i.list, i.p, y, i.tail, i.stepSize, z, u, x)
         /\ Doubled(i, x, j) => j = SFields(i.list, i.p, i.q, i.tail, x, i.psize, i.qsize, i.numMerges)
         /\ WentOn(i, x, j) => j = SFields(i.list, x, i.q, i.tail, i.stepSize, i.psize, i.qsize, i.numMerges)
         /\ TookP(i, x, y, z, u, j) => j = SFields(u, x, i.q, z, i.stepSize, y, i.qsize, i.numMerges)
         /\ TookQ(i, x, y, z, u, j) => j = SFields(u, i.p, x, z, i.stepSize, i.psize, y, i.numMerges)
<1> DEFINE R == [list : S, p : S, q : S, tail : S, stepSize : S, psize : S, qsize : S, numMerges : S]
<1>1. ASSUME Restarted(i, x, y, z, u, j) PROVE j = SFields(y, x, i.q, z, i.stepSize, i.psize, i.qsize, u)
  <2>1. /\ j \in R /\ j.list = y /\ j.p = x /\ j.q = i.q /\ j.tail = z
        /\ j.stepSize = i.stepSize /\ j.psize = i.psize /\ j.qsize = i.qsize /\ j.numMerges = u
    BY <1>1 DEF Restarted
  <2>. QED
    BY <2>1 DEF SFields
<1>2. ASSUME SplitUp(i, x, y, z, u, j) PROVE j = SFields(i.list, i.p, y, i.tail, i.stepSize, z, u, x)
  <2>1. /\ j \in R /\ j.list = i.list /\ j.p = i.p /\ j.q = y /\ j.tail = i.tail
        /\ j.stepSize = i.stepSize /\ j.psize = z /\ j.qsize = u /\ j.numMerges = x
    BY <1>2 DEF SplitUp
  <2>. QED
    BY <2>1 DEF SFields
<1>3. ASSUME Doubled(i, x, j) PROVE j = SFields(i.list, i.p, i.q, i.tail, x, i.psize, i.qsize, i.numMerges)
  <2>1. /\ j \in R /\ j.list = i.list /\ j.p = i.p /\ j.q = i.q /\ j.tail = i.tail
        /\ j.stepSize = x /\ j.psize = i.psize /\ j.qsize = i.qsize /\ j.numMerges = i.numMerges
    BY <1>3 DEF Doubled
  <2>. QED
    BY <2>1 DEF SFields
<1>4. ASSUME WentOn(i, x, j) PROVE j = SFields(i.list, x, i.q, i.tail, i.stepSize, i.psize, i.qsize, i.numMerges)
  <2>1. /\ j \in R /\ j.list = i.list /\ j.p = x /\ j.q = i.q /\ j.tail = i.tail
        /\ j.stepSize = i.stepSize /\ j.psize = i.psize /\ j.qsize = i.qsize /\ j.numMerges = i.numMerges
    BY <1>4 DEF WentOn
  <2>. QED
    BY <2>1 DEF SFields
<1>5. ASSUME TookP(i, x, y, z, u, j) PROVE j = SFields(u, x, i.q, z, i.stepSize, y, i.qsize, i.numMerges)
  <2>1. /\ j \in R /\ j.list = u /\ j.p = x /\ j.q = i.q /\ j.tail = z
        /\ j.stepSize = i.stepSize /\ j.psize = y /\ j.qsize = i.qsize /\ j.numMerges = i.numMerges
    BY <1>5 DEF TookP
  <2>. QED
    BY <2>1 DEF SFields
<1>6. ASSUME TookQ(i, x, y, z, u, j) PROVE j = SFields(u, i.p, x, z, i.stepSize, i.psize, y, i.numMerges)
  <2>1. /\ j \in R /\ j.list = u /\ j.p = i.p /\ j.q = x /\ j.tail = z
        /\ j.stepSize = i.stepSize /\ j.psize = i.psize /\ j.qsize = y /\ j.numMerges = i.numMerges
    BY <1>6 DEF TookQ
  <2>. QED
    BY <2>1 DEF SFields
<1>. QED
  BY <1>1, <1>2, <1>3, <1>4, <1>5, <1>6

(* The fields of a state that is given by them.                             *)
LEMMA SFieldsOf ==
  ASSUME NEW a1, NEW a2, NEW a3, NEW a4, NEW a5, NEW a6, NEW a7, NEW a8, NEW j,
         j = SFields(a1, a2, a3, a4, a5, a6, a7, a8)
  PROVE  /\ j.list = a1 /\ j.p = a2 /\ j.q = a3 /\ j.tail = a4 /\ j.stepSize = a5 /\ j.psize = a6
         /\ j.qsize = a7 /\ j.numMerges = a8
         /\ a5 \in Nat /\ a5 > 0 => SortShape(j)
  BY DEF SFields, SortShape

(* The fields after a step, whatever they were.                             *)
LEMMA SortUpdates ==
  ASSUME NEW i, SortShape(i), NEW x, NEW y, NEW z, NEW u, NEW j
  PROVE  /\ Restarted(i, x, y, z, u, j) => j = SFields(y, x, i.q, z, i.stepSize, i.psize, i.qsize, u)
         /\ SplitUp(i, x, y, z, u, j) => j = SFields(i.list, i.p, y, i.tail, i.stepSize, z, u, x)
         /\ Doubled(i, x, j) => j = SFields(i.list, i.p, i.q, i.tail, x, i.psize, i.qsize, i.numMerges)
         /\ WentOn(i, x, j) => j = SFields(i.list, x, i.q, i.tail, i.stepSize, i.psize, i.qsize, i.numMerges)
         /\ TookP(i, x, y, z, u, j) => j = SFields(u, x, i.q, z, i.stepSize, y, i.qsize, i.numMerges)
         /\ TookQ(i, x, y, z, u, j) => j = SFields(u, i.p, x, z, i.stepSize, i.psize, y, i.numMerges)
<1> DEFINE S == {i.list, i.p, i.q, i.tail, i.stepSize, i.psize, i.qsize, i.numMerges, x, y, z, u}
<1>1. i \in [list : S, p : S, q : S, tail : S, stepSize : S, psize : S, qsize : S, numMerges : S]
  BY DEF SortShape, SFields
<1>2. x \in S /\ y \in S /\ z \in S /\ u \in S
  OBVIOUS
<1> HIDE DEF S
<1>. QED
  BY <1>1, <1>2, SortRecord

-----------------------------------------------------------------------------
(* The machine.                                                             *)
LEMMA SameSort ==
  ASSUME call' = call
  PROVE  /\ Size' = Size /\ Base' = Base /\ (Proper' <=> Proper)
         /\ SortCallOK' <=> SortCallOK
         /\ Sorting' <=> Sorting
<1>1. Size' = Size
  BY DEF Size
<1>. QED
  BY <1>1 DEF Base, Proper, SortCallOK, Sorting

(* The number of cells, where they are, and their keys.                     *)
LEMMA SortNumbers ==
  ASSUME SortInv
  PROVE  /\ Size \in Nat /\ Base \in Nat
         /\ Proper /\ Copies => KeysOK(a, Size, Base)
<1>1. Size \in Nat
  BY DEF SortInv, SortCallOK, IsSeq, Size
<1>2. Base \in Nat
  BY <1>1 DEF Base
<1>3. ASSUME Proper, Copies, NEW c \in Base + 1 .. Base + Size PROVE a[c] \in Int
  <2>1. c - Base \in 1 .. Size /\ Base + (c - Base) = c
    BY <1>1, <1>2
  <2>2. a[c] = call.a[c - Base]
    BY <1>3, <2>1 DEF Proper, Copies
  <2>. QED
    BY <1>3, <2>1, <2>2 DEF SortInv, SortCallOK, Proper
<1>. QED
  BY <1>1, <1>2, <1>3 DEF KeysOK

(* A step of the sort that may link the cells anew that are its own.        *)
LEMMA SortStepInv ==
  ASSUME SortInv, pc \in Live, UNCHANGED <<a, call, assigns>>,
         IsSeq(d'), Len(d') = Len(d),
         call.method = "sort" => \A k \in 1 .. Size : d'[k] = d[k],
         pc' \in Live \cup {"returned", "thrown", "escaped"}, pc' \in Live => SortShape(info'), SortPoint', Comparing'
  PROVE  SortInv'
<1>1. /\ Size' = Size /\ Base' = Base /\ (Proper' <=> Proper) /\ SortCallOK'
  BY SameSort DEF SortInv
<1>2. Copies'
  BY <1>1 DEF SortInv, Copies
<1>3. pc' \notin {"called", "clone"}
  BY DEF Live
<1>4. Memory'
  BY <1>1, <1>3 DEF SortInv, Memory
<1>. QED
  BY <1>1, <1>2, <1>3, <1>4 DEF SortInv

(* The sort starts, or there is nothing to sort.                            *)
LEMMA InitialInv ==
  ASSUME SortInv, Sorting, Initial
  PROVE  SortInv'
<1>1. /\ pc = "start" /\ UNCHANGED <<a, call, assigns, d, info>> /\ stack = <<>>
      /\ Size \in Nat /\ Base \in Nat /\ StartPoint
  BY SortNumbers DEF Initial, SortStep, Return, SortInv, SortPoint, Comparing
<1>2. /\ Size' = Size /\ Base' = Base /\ (Proper' <=> Proper)
  BY <1>1, SameSort
<1>3. pc \in Live /\ IsSeq(d') /\ Len(d') = Len(d) /\ SortShape(info')
  BY <1>1 DEF Live, SortInv, Memory
<1>4. CASE Size = 0
  <2>1. info.list = Null
    BY <1>1, <1>4 DEF StartPoint
  <2>2. pc' = "returned" /\ stack' = <<<<"cell", Null>>>>
    BY <1>1, <2>1 DEF Initial, Return
  <2>3. \A j \in 1 .. Size : FALSE
    BY <1>4
  <2>4. EndPoint(info, Null)'
    BY <1>2, <1>4, <2>2, <2>3 DEF EndPoint
  <2>5. SortPoint' /\ Comparing'
    BY <2>2, <2>4 DEF SortPoint, Comparing
  <2>6. pc' \in Live \cup {"returned", "thrown", "escaped"}
    BY <2>2
  <2>. QED
    BY <1>1, <1>3, <2>5, <2>6, SortStepInv
<1>5. CASE Size # 0
  <2> DEFINE s == [k \in 1 .. Size |-> Base + k]
  <2>1. info.list = Base + 1 /\ info.list # Null
    BY <1>1, <1>5 DEF StartPoint, Null
  <2>2. pc' = "outer" /\ stack' = <<>>
    BY <1>1, <2>1 DEF Initial, SortStep
  <2>3. Order(s, Size, Base)
    <3>1. \A c \in Base + 1 .. Base + Size : c - Base \in 1 .. Size /\ s[c - Base] = c
      BY <1>1
    <3>. QED
      BY <1>1, <3>1 DEF Order
  <2>4. s[1] = Base + 1
    BY <1>1, <1>5
  <2>5. RunsFrom(a, s, Size, 0, 1)
    <3>1. ASSUME NEW j \in 1 .. Size, NEW m \in 1 .. Size, j < m PROVE Parted(j, m, 1) /\ s[j] < s[m]
      <4>1. j \in j .. m - 1 /\ j \in Nat /\ j = j * 1
        BY <1>1, <3>1
      <4>2. s[j] < s[m]
        BY <1>1, <3>1
      <4>. QED
        BY <4>1, <4>2 DEF Parted, IsCut
    <3>. QED
      BY <3>1 DEF RunsFrom
  <2>6. LeadsOn(d, s, Size, 0) /\ info.stepSize = 1
    BY <1>1 DEF StartPoint
  <2> HIDE DEF s
  <2>10. PICK r : r = s
    OBVIOUS
  <2>7. OuterPoint(r)'
    BY <1>1, <1>2, <2>1, <2>3, <2>4, <2>5, <2>6, <2>10 DEF OuterPoint
  <2>8. SortPoint' /\ Comparing'
    BY <1>1, <1>2, <1>5, <2>2, <2>7 DEF SortPoint, Comparing
  <2>9. pc' \in Live \cup {"returned", "thrown", "escaped"}
    BY <2>2 DEF Live
  <2>. QED
    BY <1>1, <1>3, <2>8, <2>9, SortStepInv
<1>. QED
  BY <1>4, <1>5

(* A pass starts.                                                           *)
LEMMA OuterLoopInv ==
  ASSUME SortInv, Sorting, OuterLoop
  PROVE  SortInv'
<1> DEFINE i == info
           j == info'
<1>1. /\ pc = "outer" /\ pc' = "step" /\ UNCHANGED <<a, call, assigns, d, stack>> /\ stack = <<>>
      /\ Size \in Nat /\ Base \in Nat /\ Size > 0 /\ SortShape(i)
      /\ Restarted(i, i.list, Null, Null, 0, j)
  BY SortNumbers DEF OuterLoop, SortStep, SortInv, SortPoint, Comparing, Live, Restarted
<1>2. PICK s : OuterPoint(s)
  BY <1>1 DEF SortInv, SortPoint
<1> HIDE DEF i, j
<1>3. j = SFields(Null, i.list, i.q, Null, i.stepSize, i.psize, i.qsize, 0)
  BY <1>1, SortUpdates
<1>4. i.stepSize \in Nat /\ i.stepSize > 0
  BY <1>1 DEF SortShape
<1>5. /\ j.list = Null /\ j.p = i.list /\ j.tail = Null /\ j.stepSize = i.stepSize /\ j.numMerges = 0
      /\ SortShape(j)
  BY <1>3, <1>4, SFieldsOf
<1>6. /\ Order(s, Size, Base) /\ i.list = s[1] /\ LeadsOn(d, s, Size, 0)
      /\ Proper => RunsFrom(a, s, Size, 0, i.stepSize)
  BY <1>2 DEF OuterPoint, i
<1>7. Size' = Size /\ Base' = Base /\ (Proper' <=> Proper)
  BY <1>1, SameSort
<1>8. Built(d, j, s, Size, 0)
  <2>1. 0 \notin 1 .. Size /\ \A m \in 1 .. 0 - 1 : FALSE
    BY <1>1
  <2>. QED
    BY <1>5, <2>1 DEF Built, At, Leads
<1>9. j.p = At(s, Size, 0 + 1)
  BY <1>1, <1>5, <1>6 DEF At
<1>10. ASSUME Proper PROVE Merged(a, s, Size, 0, i.stepSize, 0) /\ j.numMerges = 0 % ByteValues
  <2> DEFINE k == i.stepSize
             h == 2 * k
  <2>1. k \in Nat /\ k > 0 /\ h \in Nat /\ h > 0 /\ RunsFrom(a, s, Size, 0, k)
    BY <1>4, <1>6, <1>10
  <2>2. 0 * h = 0 /\ IsCut(0, h)
    BY <2>1 DEF IsCut
  <2>3. IsCut(0, 2 * k)
    BY <2>2
  <2> HIDE DEF k
  <2>4. \A c : IsCut(c, h) => IsCut(c, k)
    BY <2>1, <2>3, CutFacts
  <2> HIDE DEF h
  <2>5. RunsTo(a, s, Size, 0, h)
    <3>1. \A m \in 1 .. Size : ~(m <= 0)
      BY <1>1
    <3>. QED
      BY <3>1 DEF RunsTo
  <2>6. Apart(s, Size, h)
    <3>1. ASSUME NEW y \in 1 .. Size, NEW m \in 1 .. Size, y < m, Parted(y, m, h) PROVE s[y] < s[m]
      <4>1. Parted(y, m, k) /\ 0 < y
        BY <1>1, <2>4, <3>1 DEF Parted
      <4>. QED
        BY <2>1, <3>1, <4>1 DEF RunsFrom
    <3>. QED
      BY <3>1 DEF Apart
  <2>7. ByteValues \in Nat /\ ByteValues > 0 /\ 0 % ByteValues = 0
    BY WidthAssumption
  <2>8. Merged(a, s, Size, 0, k, 0)
    BY <1>1, <2>1, <2>2, <2>5, <2>6 DEF Merged, h
  <2>. QED
    BY <1>5, <2>7, <2>8 DEF k
<1>11. StepPoint(s, 0)'
  <2>1. Proper => \E t \in Nat : Merged(a, s, Size, 0, j.stepSize, t) /\ j.numMerges = t % ByteValues
    BY <1>5, <1>10
  <2>2. 0 \in 0 .. Size
    BY <1>1
  <2>. QED
    BY <1>1, <1>6, <1>7, <1>8, <1>9, <2>1, <2>2 DEF StepPoint, j
<1>12. SortPoint' /\ Comparing'
  BY <1>1, <1>7, <1>11 DEF SortPoint, Comparing
<1>13. /\ pc' \in Live \cup {"returned", "thrown", "escaped"} /\ pc \in Live /\ IsSeq(d') /\ Len(d') = Len(d)
       /\ SortShape(info')
  BY <1>1, <1>5 DEF Live, SortInv, Memory, j
<1>. QED
  BY <1>1, <1>12, <1>13, SortStepInv

(* Numbers of a Byte.                                                       *)
LEMMA RemainderIs ==
  ASSUME NEW b \in Nat, b > 0, NEW q \in Nat, NEW r \in Nat, r < b, NEW m, m = q * b + r
  PROVE  m % b = r
<1> DEFINE u == m \div b
           e == m % b
<1>1. q * b \in Nat /\ m \in Nat
  OBVIOUS
<1>2. u \in Nat /\ e \in Nat /\ e < b /\ m = u * b + e
  <2>1. u \in Int /\ e \in Nat /\ e < b /\ m = b * u + e
    BY <1>1
  <2>2. u >= 0
    BY <1>1
  <2>. QED
    BY <2>1, <2>2
<1> HIDE DEF u, e
<1>3. u * b \in Nat /\ q * b \in Nat /\ (u < q => u * b + b <= q * b) /\ (q < u => q * b + b <= u * b)
  <2>1. u * b \in Nat /\ q * b \in Nat /\ (u < q => u * b + b <= q * b)
    BY <1>2, NextCut
  <2>2. q < u => q * b + b <= u * b
    BY <1>2, NextCut
  <2>. QED
    BY <2>1, <2>2
<1>4. CASE u < q
  <2> DEFINE x == u * b
             y == q * b
  <2>1. x \in Nat /\ y \in Nat /\ x + b <= y /\ y + r = x + e
    BY <1>2, <1>3, <1>4
  <2> HIDE DEF x, y
  <2>. QED
    BY <1>2, <2>1
<1>5. CASE q < u
  <2> DEFINE x == u * b
             y == q * b
  <2>1. x \in Nat /\ y \in Nat /\ y + b <= x /\ y + r = x + e
    BY <1>2, <1>3, <1>5
  <2> HIDE DEF x, y
  <2>. QED
    BY <1>2, <2>1
<1>6. CASE u = q
  <2>1. q * b + r = q * b + e
    BY <1>2, <1>6
  <2>. QED
    BY <1>1, <1>2, <2>1 DEF e
<1>. QED
  BY <1>2, <1>4, <1>5, <1>6

(* Counting on is counting on from the remainder.                           *)
LEMMA CountedOn ==
  ASSUME NEW b \in Nat, b > 1, NEW t \in Nat
  PROVE  ((t % b) + 1) % b = (t + 1) % b
<1> DEFINE q == t \div b
           r == t % b
<1>1. q \in Nat /\ r \in Nat /\ r < b /\ t = q * b + r
  <2>1. q \in Int /\ r \in Nat /\ r < b /\ t = b * q + r
    OBVIOUS
  <2>2. q >= 0
    OBVIOUS
  <2>. QED
    BY <2>1, <2>2
<1> HIDE DEF q, r
<1>2. CASE r + 1 < b
  <2>1. r + 1 \in Nat /\ r + 1 = 0 * b + (r + 1) /\ t + 1 = q * b + (r + 1) /\ b > 0 /\ 0 \in Nat
    BY <1>1
  <2>2. (r + 1) % b = r + 1
    BY ONLY <1>2, <2>1, b \in Nat, RemainderIs
  <2>3. (t + 1) % b = r + 1
    BY ONLY <1>1, <1>2, <2>1, b \in Nat, RemainderIs
  <2>. QED
    BY <2>2, <2>3 DEF r
<1>3. CASE r + 1 = b
  <2>1. 0 < b /\ 0 \in Nat /\ 1 \in Nat /\ q + 1 \in Nat /\ r + 1 = 1 * b + 0 /\ t + 1 = (q + 1) * b + 0
    BY <1>1, <1>3
  <2>2. (r + 1) % b = 0
    BY ONLY <2>1, b \in Nat, RemainderIs
  <2>3. (t + 1) % b = 0
    BY ONLY <2>1, b \in Nat, RemainderIs
  <2>. QED
    BY <2>2, <2>3 DEF r
<1>. QED
  BY <1>1, <1>2, <1>3

(* A merge starts.                                                          *)
LEMMA StepLoopInv ==
  ASSUME SortInv, Sorting, StepLoop
  PROVE  SortInv'
<1> DEFINE i == info
           j == info'
           k == info.stepSize
           ahead == Ahead(info.p, k)
           ps == Cardinality({m \in 0 .. k - 1 : ahead[m] # Null})
<1>1. /\ pc = "step" /\ pc' = "merge" /\ UNCHANGED <<a, call, assigns, d, stack>> /\ stack = <<>>
      /\ Size \in Nat /\ Base \in Nat /\ Size > 0 /\ SortShape(i) /\ i.p # Null
      /\ SplitUp(i, (i.numMerges + 1) % ByteValues, ahead[k], ps, k, j)
  BY SortNumbers DEF StepLoop, SortStep, SortInv, SortPoint, Comparing, Live, SplitUp
<1>2. PICK s, w : StepPoint(s, w)
  BY <1>1 DEF SortInv, SortPoint
<1>3. /\ Order(s, Size, Base) /\ w \in 0 .. Size
      /\ Built(d, i, s, Size, w) /\ i.p = At(s, Size, w + 1) /\ LeadsOn(d, s, Size, w)
      /\ Proper => \E t \in Nat : Merged(a, s, Size, w, k, t) /\ i.numMerges = t % ByteValues
  BY <1>2 DEF StepPoint
<1>4. k \in Nat /\ k > 0
  BY <1>1 DEF SortShape
<1>5. w < Size
  <2>1. w + 1 \in 1 .. Size
    BY <1>1, <1>3 DEF At
  <2>. QED
    BY <1>1, <1>3, <2>1
<1>6. \A m \in 0 .. k : ahead[m] = At(s, Size, w + 1 + m)
  <2> DEFINE n == Size
             b == Base
             c == At(s, n, w + 1)
  <2>1. /\ n \in Nat /\ b \in Nat /\ Order(s, n, b) /\ w \in 0 .. n /\ LeadsOn(d, s, n, w) /\ k \in Nat
        /\ ahead = Ahead(c, k)
    BY <1>1, <1>3, <1>4
  <2> HIDE DEF n, b, k, ahead
  <2>2. \A m \in 0 .. k : Ahead(c, k)[m] = At(s, n, w + 1 + m)
    BY ONLY <2>1, AheadInOrder
  <2>. QED
    BY <2>1, <2>2 DEF n
<1> DEFINE nm == (i.numMerges + 1) % ByteValues
           q == ahead[k]
           x == IF w + k <= Size THEN w + k ELSE Size
<1>7. x \in w + 1 .. Size /\ x \in w .. Size /\ x <= w + k
  BY <1>1, <1>3, <1>4, <1>5
<1>8. q = At(s, Size, x + 1)
  <2>1. k \in 0 .. k
    BY <1>4
  <2>2. q = At(s, Size, w + 1 + k)
    BY <1>6, <2>1
  <2>3. CASE w + k <= Size
    <3>1. w + 1 + k = x + 1
      BY <1>1, <1>3, <1>4, <2>3
    <3>. QED
      BY <2>2, <3>1
  <2>4. CASE ~(w + k <= Size)
    <3>1. w + 1 + k \notin 1 .. Size /\ x + 1 \notin 1 .. Size
      BY <1>1, <1>3, <1>4, <2>4
    <3>. QED
      BY <2>2, <3>1 DEF At
  <2>. QED
    BY <2>3, <2>4
<1>9. \A m \in 1 .. Size : s[m] # Null
  <2>1. \A m \in 1 .. Size : s[m] \in Base + 1 .. Base + Size
    BY <1>3 DEF Order
  <2>2. \A c \in Base + 1 .. Base + Size : c # 0
    BY <1>1
  <2>. QED
    BY <2>1, <2>2 DEF Null
<1>10. ps = x - w
  <2>1. \A m \in 0 .. k - 1 : ahead[m] # Null <=> m \in 0 .. x - w - 1
    <3>1. ASSUME NEW m \in 0 .. k - 1 PROVE ahead[m] # Null <=> m \in 0 .. x - w - 1
      <4>1. m \in 0 .. k /\ m \in Nat
        BY <1>4
      <4>2. ahead[m] = At(s, Size, w + 1 + m)
        BY <1>6, <4>1
      <4>3. w + 1 + m \in 1 .. Size <=> m \in 0 .. x - w - 1
        BY <1>1, <1>3, <1>4, <4>1
      <4>4. ahead[m] # Null <=> w + 1 + m \in 1 .. Size
        BY <1>9, <4>2 DEF At
      <4>. QED
        BY <4>3, <4>4
    <3>. QED
      BY <3>1
  <2>2. 0 .. x - w - 1 \subseteq 0 .. k - 1
    BY <1>1, <1>3, <1>4, <1>7
  <2>3. {m \in 0 .. k - 1 : ahead[m] # Null} = 0 .. x - w - 1
    BY <2>1, <2>2
  <2>4. 0 \in Int /\ x - w - 1 \in Int /\ 0 <= x - w - 1
    BY <1>1, <1>3, <1>7
  <2> DEFINE y == x - w - 1
  <2>5. y \in Int /\ 0 <= y /\ ps = Cardinality(0 .. y)
    BY <2>3, <2>4
  <2> HIDE DEF y, ps
  <2>6. Cardinality(0 .. y) = y - 0 + 1
    BY <2>5, FS_Interval
  <2>. QED
    BY <1>1, <1>3, <1>7, <2>5, <2>6 DEF y
<1> HIDE DEF i, j, nm, q, ps, ahead, x
<1>11. j = SFields(i.list, i.p, q, i.tail, i.stepSize, ps, k, nm)
  <2>1. SplitUp(i, nm, q, ps, k, j)
    BY <1>1 DEF nm, q
  <2> HIDE DEF k
  <2>. QED
    BY <1>1, <2>1, SortUpdates
<1>12. /\ j.list = i.list /\ j.p = i.p /\ j.q = q /\ j.tail = i.tail /\ j.stepSize = k /\ j.psize = ps
       /\ j.qsize = k /\ j.numMerges = nm /\ SortShape(j)
  <2>1. i.stepSize = k
    BY DEF i
  <2>. QED
    BY <1>4, <1>11, <2>1, SFieldsOf
<1> HIDE DEF k
<1>13. Size' = Size /\ Base' = Base /\ (Proper' <=> Proper)
  BY <1>1, SameSort
<1>14. Merging(d, j, s, Size, w, x)
  <2>1. Built(d, j, s, Size, w)
    BY <1>3, <1>12 DEF Built
  <2>2. j.p = s[w + 1]
    BY <1>1, <1>3, <1>5, <1>12 DEF At
  <2>3. Leads(d, s, w + 1, x)
    BY <1>1, <1>3, <1>7 DEF LeadsOn, Leads
  <2>4. LeadsOn(d, s, Size, x)
    BY <1>1, <1>3, <1>5, <1>7 DEF LeadsOn, Leads
  <2>. QED
    BY <1>3, <1>4, <1>7, <1>8, <1>10, <1>12, <2>1, <2>2, <2>3, <2>4 DEF Merging
<1>15. ASSUME Proper
       PROVE  \E t \in Nat : InMerge(a, s, Size, w, x, k, k, t * (2 * k)) /\ nm = (t + 1) % ByteValues
  <2>1. PICK t \in Nat : Merged(a, s, Size, w, k, t) /\ i.numMerges = t % ByteValues
    BY <1>3, <1>15
  <2>2. w = t * (2 * k) /\ InMerge(a, s, Size, w, x, k, k, w)
    BY <1>1, <1>3, <1>4, <1>5, <2>1, MergeStarts DEF x
  <2>3. nm = (t + 1) % ByteValues
    <3>1. ByteValues \in Nat /\ ByteValues > 1
      BY WidthAssumption
    <3>2. ((t % ByteValues) + 1) % ByteValues = (t + 1) % ByteValues
      BY <3>1, CountedOn
    <3>. QED
      BY <2>1, <3>2 DEF nm
  <2>. QED
    BY <2>2, <2>3
<1>16. PICK y : y = x
  OBVIOUS
<1>17. MergePoint(s, w, y)'
  BY <1>1, <1>3, <1>12, <1>13, <1>14, <1>15, <1>16 DEF MergePoint, j
<1>18. SortPoint' /\ Comparing'
  BY <1>1, <1>13, <1>17 DEF SortPoint, Comparing
<1>19. /\ pc' \in Live \cup {"returned", "thrown", "escaped"} /\ pc \in Live /\ IsSeq(d') /\ Len(d') = Len(d)
       /\ SortShape(info')
  BY <1>1, <1>12 DEF Live, SortInv, Memory, j
<1>. QED
  BY <1>1, <1>18, <1>19, SortStepInv

(* The two lists have come to their ends.                                   *)
LEMMA MergeDoneInv ==
  ASSUME SortInv, Sorting, pc = "merge", PEnded, QEnded,
         SortStep([info EXCEPT !.p = info.q], "step"), d' = d
  PROVE  SortInv'
<1> DEFINE i == info
           j == info'
           k == info.stepSize
<1>1. /\ pc' = "step" /\ UNCHANGED <<a, call, assigns, d, stack>> /\ stack = <<>>
      /\ Size \in Nat /\ Base \in Nat /\ Size > 0 /\ SortShape(i)
      /\ i.psize = 0 /\ (i.qsize = 0 \/ i.q = Null)
      /\ WentOn(i, i.q, j)
  BY SortNumbers DEF SortStep, SortInv, SortPoint, Comparing, Live, WentOn, PEnded, QEnded
<1>2. PICK s, w, x : MergePoint(s, w, x)
  BY DEF SortInv, SortPoint
<1>3. /\ Order(s, Size, Base) /\ Merging(d, i, s, Size, w, x)
      /\ Proper => \E t \in Nat : /\ InMerge(a, s, Size, w, x, i.qsize, k, t * (2 * k))
                                  /\ i.numMerges = (t + 1) % ByteValues
  BY <1>2 DEF MergePoint
<1>4. k \in Nat /\ k > 0
  BY <1>1 DEF SortShape
<1>5. /\ w \in 0 .. Size /\ x \in w .. Size /\ i.psize = x - w /\ i.qsize \in Nat
      /\ Built(d, i, s, Size, w) /\ i.q = At(s, Size, x + 1) /\ LeadsOn(d, s, Size, x)
  BY <1>3 DEF Merging
<1>6. x = w
  BY <1>1, <1>5
<1>7. \A m \in 1 .. Size : s[m] # Null
  <2>1. \A m \in 1 .. Size : s[m] \in Base + 1 .. Base + Size
    BY <1>3 DEF Order
  <2>2. \A c \in Base + 1 .. Base + Size : c # 0
    BY <1>1
  <2>. QED
    BY <2>1, <2>2 DEF Null
<1>8. i.qsize = 0 \/ w = Size
  <2>1. i.q = Null => w + 1 \notin 1 .. Size
    BY <1>5, <1>6, <1>7 DEF At
  <2>. QED
    BY <1>1, <1>5, <2>1
<1> HIDE DEF i, j, k
<1>9. j = SFields(i.list, i.q, i.q, i.tail, i.stepSize, i.psize, i.qsize, i.numMerges)
  BY <1>1, SortUpdates
<1>10. /\ j.list = i.list /\ j.p = i.q /\ j.tail = i.tail /\ j.stepSize = k
       /\ j.numMerges = i.numMerges /\ SortShape(j)
  <2>1. i.stepSize = k
    BY DEF i, k
  <2>. QED
    BY <1>4, <1>9, <2>1, SFieldsOf
<1>11. Size' = Size /\ Base' = Base /\ (Proper' <=> Proper)
  BY <1>1, SameSort
<1>12. Built(d, j, s, Size, w) /\ j.p = At(s, Size, w + 1) /\ LeadsOn(d, s, Size, w)
  BY <1>5, <1>6, <1>10 DEF Built
<1>13. ASSUME Proper PROVE \E t \in Nat : Merged(a, s, Size, w, k, t) /\ i.numMerges = t % ByteValues
  <2>1. PICK t \in Nat : /\ InMerge(a, s, Size, w, x, i.qsize, k, t * (2 * k))
                         /\ i.numMerges = (t + 1) % ByteValues
    BY <1>3, <1>13
  <2> DEFINE n == Size
             z == i.qsize
  <2>2. /\ n \in Nat /\ k \in Nat /\ k > 0 /\ w \in 0 .. n /\ z \in Nat /\ t \in Nat
        /\ InMerge(a, s, n, w, w, z, k, t * (2 * k)) /\ (z = 0 \/ w = n)
    BY <1>1, <1>4, <1>5, <1>6, <1>8, <2>1
  <2> HIDE DEF n, z
  <2>3. Merged(a, s, n, w, k, t + 1)
    BY ONLY <2>2, MergeEnds, Zenon
  <2>4. t + 1 \in Nat
    OBVIOUS
  <2>. QED
    BY <2>1, <2>3, <2>4 DEF n
<1>14. StepPoint(s, w)'
  BY <1>1, <1>3, <1>5, <1>10, <1>11, <1>12, <1>13 DEF StepPoint, j
<1>15. SortPoint' /\ Comparing'
  BY <1>1, <1>11, <1>14 DEF SortPoint, Comparing
<1>16. /\ pc' \in Live \cup {"returned", "thrown", "escaped"} /\ pc \in Live /\ IsSeq(d') /\ Len(d') = Len(d)
       /\ SortShape(info')
  BY <1>1, <1>10 DEF Live, SortInv, Memory, j
<1>. QED
  BY <1>1, <1>15, <1>16, SortStepInv

-----------------------------------------------------------------------------
(* The cell that is last gets another rest.                                 *)
WithCell(f, c, e, g) == g = [f EXCEPT ![c] = e]

(* What an assignment to a cell does.                                       *)
LEMMA CellSet ==
  ASSUME NEW f, IsSeq(f), NEW c \in 1 .. Len(f), NEW e, NEW g, WithCell(f, c, e, g)
  PROVE  IsSeq(g) /\ Len(g) = Len(f) /\ \A m \in 1 .. Len(f) : g[m] = IF m = c THEN e ELSE f[m]
<1> DEFINE S == {f[m] : m \in 1 .. Len(f)} \cup {e}
           n == Len(f)
<1>1. f \in Seq(S) /\ n \in Nat /\ e \in S
  BY DEF IsSeq
<1>2. g \in Seq(S) /\ Len(g) = n /\ \A m \in 1 .. n : g[m] = IF m = c THEN e ELSE f[m]
  BY <1>1 DEF WithCell
<1>3. ASSUME NEW q \in Seq(S) PROVE IsSeq(q)
  BY DEF IsSeq
<1>. QED
  BY <1>2, <1>3

(* What the sort does to the links of its own cells, the argument keeps     *)
(* its.                                                                     *)
LEMMA Relinked ==
  ASSUME SortInv, Copies, NEW s, Order(s, Size, Base), NEW w \in 0 .. Size, NEW e, NEW g,
         w = 0 => g = d, w > 0 => WithCell(d, s[w], e, g)
  PROVE  /\ IsSeq(g) /\ Len(g) = Len(d) /\ Linking(d, g, s, Size, Base, w, e)
         /\ call.method = "sort" => \A k \in 1 .. Size : g[k] = d[k]
<1>1. Size \in Nat /\ Base \in Nat /\ IsSeq(d) /\ Len(d) = Base + Size
  BY SortNumbers DEF SortInv, Memory, Copies
<1>2. CASE w = 0
  BY <1>1, <1>2 DEF Linking
<1>3. CASE w > 0
  <2> DEFINE c == s[w]
  <2>1. w \in 1 .. Size /\ c \in Base + 1 .. Base + Size
    BY <1>1, <1>3 DEF Order
  <2>2. c \in 1 .. Len(d)
    BY <1>1, <2>1
  <2> HIDE DEF c
  <2>3. WithCell(d, c, e, g)
    BY <1>3 DEF c
  <2>4. IsSeq(g) /\ Len(g) = Len(d) /\ \A m \in 1 .. Len(d) : g[m] = IF m = c THEN e ELSE d[m]
    BY ONLY <1>1, <2>2, <2>3, CellSet
  <2>5. \A m \in Base + 1 .. Base + Size : m \in 1 .. Len(d)
    BY <1>1
  <2>6. Linking(d, g, s, Size, Base, w, e)
    BY <1>3, <2>4, <2>5 DEF Linking, c
  <2>7. ASSUME call.method = "sort", NEW k \in 1 .. Size PROVE g[k] = d[k]
    <3>1. Base = Size
      BY <2>7 DEF Base
    <3>2. k \in 1 .. Len(d) /\ k # c
      BY <1>1, <2>1, <3>1
    <3>. QED
      BY <2>4, <3>2
  <2>. QED
    BY <2>4, <2>6, <2>7
<1>. QED
  BY <1>1, <1>2, <1>3

(* The parts of a merge.                                                    *)
LEMMA MergeFacts ==
  ASSUME SortInv, pc \in {"merge", "body", "user"}, NEW s, NEW w, NEW x, MergePoint(s, w, x)
  PROVE  /\ Size \in Nat /\ Base \in Nat /\ Size > 0 /\ SortShape(info)
         /\ info.stepSize \in Nat /\ info.stepSize > 0
         /\ Order(s, Size, Base) /\ Merging(d, info, s, Size, w, x) /\ Copies
         /\ w \in 0 .. Size /\ x \in w .. Size /\ info.qsize \in Nat
         /\ info.psize # 0 <=> w < x
         /\ w < x => info.p = s[w + 1]
         /\ info.q # Null <=> x < Size
         /\ x < Size => info.q = s[x + 1]
         /\ info.tail = Null <=> w = 0
         /\ w > 0 => info.tail = s[w]
         /\ \A m \in 1 .. Size : s[m] # Null /\ s[m] \in Base + 1 .. Base + Size
<1>1. /\ Size \in Nat /\ Base \in Nat /\ Size > 0 /\ SortShape(info) /\ Copies
  BY SortNumbers DEF SortInv, SortPoint, Live
<1>2. info.stepSize \in Nat /\ info.stepSize > 0
  BY <1>1 DEF SortShape
<1>3. Order(s, Size, Base) /\ Merging(d, info, s, Size, w, x)
  BY DEF MergePoint
<1>4. \A m \in 1 .. Size : s[m] # Null /\ s[m] \in Base + 1 .. Base + Size
  <2>1. \A m \in 1 .. Size : s[m] \in Base + 1 .. Base + Size
    BY <1>3 DEF Order
  <2>2. \A c \in Base + 1 .. Base + Size : c # 0
    BY <1>1
  <2>. QED
    BY <2>1, <2>2 DEF Null
<1>5. /\ w \in 0 .. Size /\ x \in w .. Size /\ info.psize = x - w /\ info.qsize \in Nat
      /\ info.tail = At(s, Size, w) /\ (w < x => info.p = s[w + 1]) /\ info.q = At(s, Size, x + 1)
  BY <1>3 DEF Merging, Built
<1>6. info.psize # 0 <=> w < x
  BY <1>1, <1>5
<1>7. (info.q # Null <=> x < Size) /\ (x < Size => info.q = s[x + 1])
  <2>1. x + 1 \in 1 .. Size <=> x < Size
    BY <1>1, <1>5
  <2>. QED
    BY <1>4, <1>5, <2>1 DEF At
<1>8. (info.tail = Null <=> w = 0) /\ (w > 0 => info.tail = s[w])
  <2>1. (w \in 1 .. Size <=> w > 0) /\ (w = 0 <=> ~(w > 0))
    BY <1>1, <1>5
  <2>. QED
    BY <1>4, <1>5, <2>1 DEF At
<1>. QED
  BY <1>1, <1>2, <1>3, <1>4, <1>5, <1>6, <1>7, <1>8

(* The next of p is taken.                                                  *)
LEMMA TakePInv ==
  ASSUME SortInv, Sorting, pc \in {"merge", "body"}, ~PEnded, Take("p"), stack' = <<>>,
         UNCHANGED <<a, call, assigns>>,
         Proper /\ ~QEnded => a[info.p] <= a[info.q]
  PROVE  SortInv'
<1> DEFINE i == info
           j == info'
           k == info.stepSize
           n == Size
           b == Base
           g == d'
<1>1. PICK s, w, x : MergePoint(s, w, x)
  BY DEF SortInv, SortPoint
<1>2. /\ n \in Nat /\ b \in Nat /\ n > 0 /\ SortShape(i) /\ k \in Nat /\ k > 0
      /\ Order(s, n, b) /\ Merging(d, i, s, n, w, x) /\ Copies
      /\ w \in 0 .. n /\ x \in w .. n /\ i.qsize \in Nat
      /\ w < x /\ i.p = s[w + 1]
      /\ i.q # Null <=> x < n
      /\ x < n => i.q = s[x + 1]
      /\ i.tail = Null <=> w = 0
      /\ w > 0 => i.tail = s[w]
      /\ \A m \in 1 .. n : s[m] # Null /\ s[m] \in b + 1 .. b + n
  BY <1>1, MergeFacts DEF PEnded
<1>3. w + 1 \in 1 .. n
  BY <1>2
<1> DEFINE e == s[w + 1]
           l == IF w = 0 THEN e ELSE i.list
<1>4. i.p # Null /\ Rest(i.p) = d[e]
  BY <1>2, <1>3 DEF Rest
<1>5. /\ pc' = "merge" /\ (w = 0 => g = d) /\ (w > 0 => WithCell(d, s[w], e, g))
      /\ TookP(i, d[e], i.psize - 1, e, l, j)
  <2>1. /\ pc' = "merge" /\ d' = IF info.tail = Null THEN d ELSE [d EXCEPT ![info.tail] = info.p]
        /\ TookP(i, Rest(i.p), i.psize - 1, i.p, IF i.tail = Null THEN i.p ELSE i.list, j)
    BY DEF Take, TookP
  <2>2. w > 0 => i.tail # Null
    BY <1>2
  <2>. QED
    BY <1>2, <1>4, <2>1, <2>2 DEF WithCell
<1>6. /\ IsSeq(g) /\ Len(g) = Len(d) /\ Linking(d, g, s, n, b, w, e)
      /\ call.method = "sort" => \A m \in 1 .. n : g[m] = d[m]
  BY <1>2, <1>5, Relinked
<1> HIDE DEF i, j, k, n, b, g, e, l
<1>7. j = SFields(l, d[e], i.q, e, i.stepSize, i.psize - 1, i.qsize, i.numMerges)
  BY <1>2, <1>5, SortUpdates
<1>8. i.stepSize = k
  BY DEF i, k
<1>9. /\ j.list = l /\ j.p = d[e] /\ j.q = i.q /\ j.tail = e /\ j.stepSize = k /\ j.psize = i.psize - 1
      /\ j.qsize = i.qsize /\ j.numMerges = i.numMerges /\ SortShape(j)
  BY <1>2, <1>7, <1>8, SFieldsOf
<1>10. Merging(g, j, s, n, w + 1, x)
  <2>1. /\ n \in Nat /\ b \in Nat /\ Order(s, n, b) /\ Merging(d, i, s, n, w, x) /\ w < x
        /\ Linking(d, g, s, n, b, w, s[w + 1])
        /\ j.tail = s[w + 1] /\ j.list = (IF w = 0 THEN s[w + 1] ELSE i.list)
        /\ j.p = d[s[w + 1]] /\ j.psize = i.psize - 1 /\ j.q = i.q /\ j.qsize = i.qsize
    BY <1>2, <1>6, <1>9 DEF e, l
  <2>. QED
    BY ONLY <2>1, LinksFromP
<1>11. Size' = n /\ Base' = b /\ (Proper' <=> Proper)
  BY SameSort DEF n, b
<1>12. ASSUME Proper
       PROVE  \E t \in Nat : /\ InMerge(a, s, n, w + 1, x, j.qsize, k, t * (2 * k))
                             /\ j.numMerges = (t + 1) % ByteValues
  <2>1. PICK t \in Nat : /\ InMerge(a, s, n, w, x, i.qsize, k, t * (2 * k))
                         /\ i.numMerges = (t + 1) % ByteValues
    BY <1>1, <1>12 DEF MergePoint, i, k, n
  <2> DEFINE o == t * (2 * k)
             z == i.qsize
  <2>2. KeysOK(a, n, b)
    BY <1>2, <1>12, SortNumbers DEF n, b
  <2>3. ASSUME NEW m \in 1 .. n, x < m, m <= o + 2 * k PROVE a[s[w + 1]] <= a[s[x + 1]]
    <3>1. x < n /\ x + z = o + 2 * k
      BY <1>2, <2>1, <2>3 DEF InMerge
    <3>2. z # 0
      <4>1. z = 0 => m <= x
        BY <1>2, <2>3, <3>1
      <4>. QED
        BY <1>2, <2>3, <4>1
    <3>3. ~QEnded /\ i.q = s[x + 1] /\ i.p = s[w + 1]
      BY <1>2, <3>1, <3>2 DEF QEnded, i
    <3>. QED
      BY <1>12, <3>3 DEF i
  <2>4. /\ n \in Nat /\ b \in Nat /\ Order(s, n, b) /\ KeysOK(a, n, b) /\ k \in Nat
        /\ w \in 0 .. n /\ x \in w .. n /\ InMerge(a, s, n, w, x, z, k, o) /\ w < x
        /\ \A m \in 1 .. n : x < m /\ m <= o + 2 * k => a[s[w + 1]] <= a[s[x + 1]]
    BY <1>2, <2>1, <2>2, <2>3
  <2> HIDE DEF o, z
  <2>5. InMerge(a, s, n, w + 1, x, z, k, o)
    BY ONLY <2>4, FromP
  <2>. QED
    BY <1>9, <2>1, <2>5 DEF o, z
<1>13. MergePoint(s, w + 1, x)'
  BY <1>2, <1>9, <1>10, <1>11, <1>12 DEF MergePoint, j, g
<1>14. SortPoint' /\ Comparing'
  BY <1>2, <1>5, <1>11, <1>13 DEF SortPoint, Comparing
<1>15. /\ pc' \in Live \cup {"returned", "thrown", "escaped"} /\ pc \in Live /\ IsSeq(d') /\ Len(d') = Len(d)
       /\ SortShape(info') /\ (call.method = "sort" => \A m \in 1 .. Size : d'[m] = d[m])
  BY <1>5, <1>6, <1>9 DEF Live, j, g, n
<1>. QED
  BY <1>14, <1>15, SortStepInv

(* The next of q is taken.                                                  *)
LEMMA TakeQInv ==
  ASSUME SortInv, Sorting, pc \in {"merge", "body"}, ~QEnded, Take("q"), stack' = <<>>,
         UNCHANGED <<a, call, assigns>>,
         Proper /\ ~PEnded => a[info.q] < a[info.p]
  PROVE  SortInv'
<1> DEFINE i == info
           j == info'
           k == info.stepSize
           n == Size
           b == Base
           g == d'
<1>1. PICK s, w, x : MergePoint(s, w, x)
  BY DEF SortInv, SortPoint
<1>2. /\ n \in Nat /\ b \in Nat /\ n > 0 /\ SortShape(i) /\ k \in Nat /\ k > 0
      /\ Order(s, n, b) /\ Merging(d, i, s, n, w, x) /\ Copies
      /\ w \in 0 .. n /\ x \in w .. n /\ i.qsize \in Nat
      /\ i.psize # 0 <=> w < x
      /\ w < x => i.p = s[w + 1]
      /\ x < n /\ i.q = s[x + 1]
      /\ i.tail = Null <=> w = 0
      /\ w > 0 => i.tail = s[w]
      /\ \A m \in 1 .. n : s[m] # Null /\ s[m] \in b + 1 .. b + n
  BY <1>1, MergeFacts DEF QEnded
<1>3. x + 1 \in 1 .. n /\ w + 1 \in 0 .. n /\ x + 1 \in w + 1 .. n /\ i.qsize > 0
  BY <1>2 DEF QEnded
<1> DEFINE e == s[x + 1]
           l == IF w = 0 THEN e ELSE i.list
<1>4. i.q # Null /\ Rest(i.q) = d[e]
  BY <1>2, <1>3 DEF Rest
<1>5. /\ pc' = "merge" /\ (w = 0 => g = d) /\ (w > 0 => WithCell(d, s[w], e, g))
      /\ TookQ(i, d[e], i.qsize - 1, e, l, j)
  <2>1. /\ pc' = "merge" /\ d' = IF info.tail = Null THEN d ELSE [d EXCEPT ![info.tail] = info.q]
        /\ TookQ(i, Rest(i.q), i.qsize - 1, i.q, IF i.tail = Null THEN i.q ELSE i.list, j)
    BY DEF Take, TookQ
  <2>2. w > 0 => i.tail # Null
    BY <1>2
  <2>. QED
    BY <1>2, <1>4, <2>1, <2>2 DEF WithCell
<1>6. /\ IsSeq(g) /\ Len(g) = Len(d) /\ Linking(d, g, s, n, b, w, e)
      /\ call.method = "sort" => \A m \in 1 .. n : g[m] = d[m]
  BY <1>2, <1>5, Relinked
<1> HIDE DEF i, j, k, n, b, g, e, l
<1>7. j = SFields(l, i.p, d[e], e, i.stepSize, i.psize, i.qsize - 1, i.numMerges)
  BY <1>2, <1>5, SortUpdates
<1>8. i.stepSize = k
  BY DEF i, k
<1>9. /\ j.list = l /\ j.p = i.p /\ j.q = d[e] /\ j.tail = e /\ j.stepSize = k /\ j.psize = i.psize
      /\ j.qsize = i.qsize - 1 /\ j.numMerges = i.numMerges /\ SortShape(j)
  BY <1>2, <1>7, <1>8, SFieldsOf
<1>20. PICK r : r = Moved(s, n, w, x)
  OBVIOUS
<1>21. Order(r, n, b)
  BY <1>2, <1>20, MovedOrder
<1>10. Merging(g, j, r, n, w + 1, x + 1)
  <2>1. /\ n \in Nat /\ b \in Nat /\ Order(s, n, b) /\ Merging(d, i, s, n, w, x) /\ x < n /\ i.qsize > 0
        /\ Linking(d, g, s, n, b, w, s[x + 1])
        /\ j.tail = s[x + 1] /\ j.list = (IF w = 0 THEN s[x + 1] ELSE i.list)
        /\ j.q = d[s[x + 1]] /\ j.qsize = i.qsize - 1 /\ j.p = i.p /\ j.psize = i.psize
    BY <1>2, <1>3, <1>6, <1>9 DEF e, l
  <2>. QED
    BY ONLY <1>20, <2>1, LinksFromQ
<1>11. Size' = n /\ Base' = b /\ (Proper' <=> Proper)
  BY SameSort DEF n, b
<1>12. ASSUME Proper
       PROVE  \E t \in Nat : /\ InMerge(a, r, n, w + 1, x + 1, j.qsize, k, t * (2 * k))
                             /\ j.numMerges = (t + 1) % ByteValues
  <2>1. PICK t \in Nat : /\ InMerge(a, s, n, w, x, i.qsize, k, t * (2 * k))
                         /\ i.numMerges = (t + 1) % ByteValues
    BY <1>1, <1>12 DEF MergePoint, i, k, n
  <2> DEFINE o == t * (2 * k)
             z == i.qsize
  <2>2. KeysOK(a, n, b)
    BY <1>2, <1>12, SortNumbers DEF n, b
  <2>3. w < x => a[s[x + 1]] < a[s[w + 1]]
    BY <1>2, <1>12 DEF PEnded, i
  <2>4. /\ n \in Nat /\ b \in Nat /\ Order(s, n, b) /\ KeysOK(a, n, b) /\ k \in Nat /\ k > 0
        /\ w \in 0 .. n /\ x \in w .. n /\ z \in Nat /\ InMerge(a, s, n, w, x, z, k, o) /\ x < n /\ z > 0
        /\ w < x => a[s[x + 1]] < a[s[w + 1]]
    BY <1>2, <1>3, <2>1, <2>2, <2>3
  <2> HIDE DEF o, z
  <2>5. InMerge(a, r, n, w + 1, x + 1, z - 1, k, o)
    BY ONLY <1>20, <2>4, FromQ
  <2>. QED
    BY <1>9, <2>1, <2>5 DEF o, z
<1>13. MergePoint(r, w + 1, x + 1)'
  BY <1>2, <1>9, <1>10, <1>11, <1>12, <1>21 DEF MergePoint, j, g
<1>14. SortPoint' /\ Comparing'
  BY <1>2, <1>5, <1>11, <1>13 DEF SortPoint, Comparing
<1>15. /\ pc' \in Live \cup {"returned", "thrown", "escaped"} /\ pc \in Live /\ IsSeq(d') /\ Len(d') = Len(d)
       /\ SortShape(info') /\ (call.method = "sort" => \A m \in 1 .. Size : d'[m] = d[m])
  BY <1>5, <1>6, <1>9 DEF Live, j, g, n
<1>. QED
  BY <1>14, <1>15, SortStepInv

(* Both of two arguments.                                                   *)
LEMMA TwoOnly ==
  ASSUME NEW x, NEW y
  PROVE  SubSeq(<<x, y>>, 1, 2) = <<x, y>>
<1> DEFINE S == {x, y}
           s == <<x, y>>
           t == SubSeq(s, 1, 2)
<1>1. s \in Seq(S) /\ Len(s) = 2 /\ \A k \in 1 .. 2 : s[k] \in S
  OBVIOUS
<1> HIDE DEF s, S
<1>2. 1 \in Int /\ 2 \in Int /\ (1 <= 2) = TRUE /\ 2 - 1 + 1 = 2
  OBVIOUS
<1>3. /\ t \in Seq(S) /\ Len(t) = IF 1 <= 2 THEN 2 - 1 + 1 ELSE 0
      /\ \A k \in 1 .. 2 - 1 + 1 : t[k] = s[1 + k - 1]
  BY <1>1, <1>2, SubSeqProperties
<1>4. t \in Seq(S) /\ Len(t) = 2
  BY <1>2, <1>3
<1>5. \A k \in 1 .. 2 : t[k] = s[k]
  BY <1>3
<1> HIDE DEF t
<1>6. t = s
  BY <1>1, <1>4, <1>5, SeqEqual
<1>. QED
  BY <1>6 DEF s, t

(* The function is asked to compare.                                        *)
LEMMA CompareInv ==
  ASSUME SortInv, Sorting, pc = "merge", ~PEnded, ~QEnded,
         CallUser(stack, <<Num(a[info.p]), Num(a[info.q])>>, info)
  PROVE  SortInv'
<1>1. /\ pc' = "user" /\ UNCHANGED <<a, d, call, info, assigns>> /\ stack = <<>>
      /\ stack' = stack \o <<Fn>> \o <<Num(a[info.p]), Num(a[info.q])>>
  BY DEF CallUser, SortInv, Comparing
<1>2. PICK s, w, x : MergePoint(s, w, x)
  BY DEF SortInv, SortPoint
<1>3. Size' = Size /\ Base' = Base /\ (Proper' <=> Proper)
  BY <1>1, SameSort
<1>4. MergePoint(s, w, x)'
  BY <1>1, <1>2, <1>3 DEF MergePoint
<1>5. SortPoint'
  BY <1>1, <1>3, <1>4 DEF SortPoint, SortInv
<1>6. PICK g, h : g = a[info.p] /\ h = a[info.q]
  OBVIOUS
<1>7. SubSeq(<<Num(g), Num(h)>>, 1, 2) = <<Num(g), Num(h)>>
  BY TwoOnly
<1>8. stack' = <<>> \o <<Fn>> \o SubSeq(<<Num(g), Num(h)>>, 1, 2)
  BY <1>1, <1>6, <1>7
<1>9. Comparing'
  BY <1>1, <1>6, <1>8 DEF Comparing, PEnded, QEnded
<1>10. /\ pc' \in Live \cup {"returned", "thrown", "escaped"} /\ pc \in Live /\ IsSeq(d') /\ Len(d') = Len(d)
       /\ SortShape(info')
  BY <1>1 DEF Live, SortInv, Memory
<1>. QED
  BY <1>1, <1>5, <1>9, <1>10, SortStepInv

(* A merge goes on.                                                         *)
LEMMA MergeLoopInv ==
  ASSUME SortInv, Sorting, MergeLoop
  PROVE  SortInv'
<1>1. pc = "merge" /\ pc \in {"merge", "body"} /\ stack = <<>>
  BY DEF MergeLoop, SortInv, Comparing
<1>2. CASE PEnded /\ QEnded /\ SortStep([info EXCEPT !.p = info.q], "step") /\ UNCHANGED d
  BY <1>1, <1>2, MergeDoneInv
<1>3. CASE PEnded /\ ~QEnded /\ Take("q") /\ UNCHANGED <<a, call, stack, seen, assigns>>
  BY <1>1, <1>3, TakeQInv
<1>4. CASE ~PEnded /\ QEnded /\ Take("p") /\ UNCHANGED <<a, call, stack, seen, assigns>>
  BY <1>1, <1>4, TakePInv
<1>5. CASE ~PEnded /\ ~QEnded /\ CallUser(stack, <<Num(a[info.p]), Num(a[info.q])>>, info)
  BY <1>1, <1>5, CompareInv
<1>. QED
  BY <1>2, <1>3, <1>4, <1>5 DEF MergeLoop

(* The answer has come.                                                     *)
LEMMA SignIs ==
  ASSUME NEW g \in Int, NEW h \in Int
  PROVE  (Sign(g - h) <= 0 <=> g <= h) /\ (~(Sign(g - h) <= 0) <=> h < g)
  BY DEF Sign

(* It goes on from the answer.                                              *)
LEMMA AfterCompareInv ==
  ASSUME SortInv, Sorting, AfterCompare
  PROVE  SortInv'
<1>1. /\ pc = "body" /\ pc \in {"merge", "body"} /\ stack' = Popped /\ UNCHANGED <<a, call, assigns>>
      /\ ~PEnded /\ ~QEnded
  BY DEF AfterCompare, SortInv, Comparing, PEnded, QEnded
<1>2. PICK r : stack = <<r>> /\ (Proper => r = Num(Sign(a[info.p] - a[info.q])))
  BY <1>1 DEF SortInv, Comparing
<1>3. stack' = <<>> /\ Answer = r
  BY <1>1, <1>2, OneOnStack DEF Popped, Answer
<1>4. CASE Answer = None
  <2>1. pc' = "thrown" /\ UNCHANGED <<d, info>>
    BY <1>4 DEF AfterCompare
  <2>2. SortPoint' /\ Comparing'
    BY <2>1 DEF SortPoint, Comparing
  <2>3. pc' \in Live \cup {"returned", "thrown", "escaped"} /\ pc \in Live /\ IsSeq(d') /\ Len(d') = Len(d)
        /\ pc' \notin Live
    BY <1>1, <2>1 DEF Live, SortInv, Memory
  <2>. QED
    BY <1>1, <2>1, <2>2, <2>3, SortStepInv
<1>5. ASSUME Proper PROVE (r[2] <= 0 => a[info.p] <= a[info.q]) /\ (~(r[2] <= 0) => a[info.q] < a[info.p])
  <2>1. PICK s, w, x : MergePoint(s, w, x)
    BY <1>1 DEF SortInv, SortPoint
  <2>2. /\ Size \in Nat /\ Base \in Nat /\ Order(s, Size, Base) /\ Copies
        /\ w \in 0 .. Size /\ x \in w .. Size
        /\ w < x /\ info.p = s[w + 1] /\ x < Size /\ info.q = s[x + 1]
    BY <1>1, <2>1, MergeFacts DEF PEnded, QEnded
  <2>3. \A m \in 1 .. Size : a[s[m]] \in Int
    BY <1>5, <2>2, SortNumbers, KeysIn
  <2>4. w + 1 \in 1 .. Size /\ x + 1 \in 1 .. Size
    BY <2>2
  <2>5. a[info.p] \in Int /\ a[info.q] \in Int
    BY <2>2, <2>3, <2>4
  <2>6. r[2] = Sign(a[info.p] - a[info.q])
    BY <1>2, <1>5 DEF Num
  <2> DEFINE g == a[info.p]
             h == a[info.q]
  <2>7. g \in Int /\ h \in Int /\ r[2] = Sign(g - h)
    BY <2>5, <2>6
  <2> HIDE DEF g, h
  <2>8. (r[2] <= 0 => g <= h) /\ (~(r[2] <= 0) => h < g)
    BY <2>7, SignIs
  <2>. QED
    BY <2>8 DEF g, h
<1>6. CASE Answer # None /\ Answer[2] <= 0
  <2>1. Take("p")
    BY <1>6 DEF AfterCompare
  <2>2. Proper => a[info.p] <= a[info.q]
    BY <1>3, <1>5, <1>6
  <2>. QED
    BY <1>1, <1>3, <2>1, <2>2, TakePInv
<1>7. CASE Answer # None /\ ~(Answer[2] <= 0)
  <2>1. Take("q")
    BY <1>7 DEF AfterCompare
  <2>2. Proper => a[info.q] < a[info.p]
    BY <1>3, <1>5, <1>7
  <2>. QED
    BY <1>1, <1>3, <2>1, <2>2, TakeQInv
<1>. QED
  BY <1>4, <1>6, <1>7

(* A pass is over.                                                          *)
LEMMA AfterStepLoopInv ==
  ASSUME SortInv, Sorting, AfterStepLoop
  PROVE  SortInv'
<1> DEFINE i == info
           k == info.stepSize
           n == Size
           b == Base
           g == d'
<1>1. /\ pc = "step" /\ pc \in Live /\ i.p = Null /\ stack = <<>> /\ UNCHANGED <<a, call, assigns>>
      /\ n \in Nat /\ b \in Nat /\ n > 0 /\ SortShape(i) /\ Copies
      /\ WithCell(d, i.tail, Null, g)
  BY SortNumbers DEF AfterStepLoop, SortStep, SortInv, SortPoint, Comparing, Live, WithCell
<1>2. PICK s, w : StepPoint(s, w)
  BY <1>1 DEF SortInv, SortPoint
<1>3. /\ Order(s, n, b) /\ w \in 0 .. n
      /\ Built(d, i, s, n, w) /\ i.p = At(s, n, w + 1)
      /\ Proper => \E t \in Nat : Merged(a, s, n, w, k, t) /\ i.numMerges = t % ByteValues
  BY <1>2 DEF StepPoint
<1>4. k \in Nat /\ k > 0
  BY <1>1 DEF SortShape
<1>5. \A m \in 1 .. n : s[m] # Null
  <2>1. \A m \in 1 .. n : s[m] \in b + 1 .. b + n
    BY <1>3 DEF Order
  <2>2. \A c \in b + 1 .. b + n : c # 0
    BY <1>1
  <2>. QED
    BY <2>1, <2>2 DEF Null
<1>6. w = n /\ n \in 1 .. n
  <2>1. w + 1 \notin 1 .. n
    BY <1>1, <1>3, <1>5 DEF At
  <2>. QED
    BY <1>1, <1>3, <2>1
<1>7. i.tail = s[n] /\ i.list = s[1] /\ Leads(d, s, 1, n)
  BY <1>1, <1>3, <1>6 DEF Built, At
<1>8. /\ IsSeq(g) /\ Len(g) = Len(d) /\ Linking(d, g, s, n, b, n, Null)
      /\ call.method = "sort" => \A m \in 1 .. n : g[m] = d[m]
  <2>1. n \in 0 .. n /\ n # 0 /\ WithCell(d, s[n], Null, g)
    BY <1>1, <1>7
  <2>. QED
    BY <1>1, <1>3, <2>1, Relinked
<1>9. LeadsOn(g, s, n, 0)
  <2>1. \A m \in 1 .. n : (m = n => g[s[m]] = Null) /\ (m # n => g[s[m]] = d[s[m]])
    <3> DEFINE e == Null
    <3>1. n \in 0 .. n /\ n \in Nat /\ b \in Nat /\ Order(s, n, b) /\ Linking(d, g, s, n, b, n, e)
      BY <1>1, <1>3, <1>8
    <3> HIDE DEF n, b, e, g
    <3>2. \A m \in 1 .. n : (m = n => g[s[m]] = e) /\ (m # n => g[s[m]] = d[s[m]])
      BY ONLY <3>1, LinkingIs
    <3>. QED
      BY <3>2 DEF e
  <2>2. \A m \in 1 .. n - 1 : m \in 1 .. n /\ m # n
    BY <1>1
  <2>3. \A m \in 1 .. n - 1 : g[s[m]] = s[m + 1]
    BY <1>7, <2>1, <2>2 DEF Leads
  <2>4. g[s[n]] = Null
    BY <1>6, <2>1
  <2>. QED
    BY <2>3, <2>4 DEF LeadsOn, Leads
<1>10. Size' = n /\ Base' = b /\ (Proper' <=> Proper)
  BY <1>1, SameSort
<1>11. ASSUME Proper
       PROVE  /\ RunsFrom(a, s, n, 0, 2 * k)
              /\ i.numMerges <= 1 => \A y, m \in 1 .. n : y < m => Less(a, s[y], s[m])
  <2>1. PICK t \in Nat : Merged(a, s, n, n, k, t) /\ i.numMerges = t % ByteValues
    BY <1>3, <1>6, <1>11
  <2>2. n <= 2 * ByteValues - 2
    BY <1>11 DEF Proper
  <2> HIDE DEF n, k
  <2>3. /\ RunsFrom(a, s, n, 0, 2 * k)
        /\ t <= 1 => \A y, m \in 1 .. n : y < m => Less(a, s[y], s[m])
        /\ n <= 2 * ByteValues - 2 => t % ByteValues = t
    BY ONLY <1>1, <1>4, <2>1, PassEnds
  <2>. QED
    BY <2>1, <2>2, <2>3
<1>12. CASE i.numMerges <= 1
  <2>1. pc' = "returned" /\ stack' = Append(stack, <<"cell", i.list>>)
    BY <1>12 DEF AfterStepLoop
  <2>2. stack' = <<<<"cell", i.list>>>>
    BY <1>1, <2>1, OneOnStack
  <2> HIDE DEF n, b, g
  <2>3. PICK c : c = s[1]
    OBVIOUS
  <2>4. EndPoint(s, c)'
    BY <1>1, <1>3, <1>7, <1>9, <1>10, <1>11, <1>12, <2>2, <2>3 DEF EndPoint, g
  <2>5. SortPoint' /\ Comparing'
    BY <2>1, <2>4 DEF SortPoint, Comparing
  <2>6. /\ pc' \in Live \cup {"returned", "thrown", "escaped"} /\ pc' \notin Live /\ IsSeq(d')
        /\ Len(d') = Len(d) /\ (call.method = "sort" => \A m \in 1 .. Size : d'[m] = d[m])
    BY <1>8, <2>1 DEF Live, g, n
  <2>. QED
    BY <1>1, <2>5, <2>6, SortStepInv
<1>13. CASE ~(i.numMerges <= 1)
  <2> DEFINE j == info'
             h == 2 * k
  <2>1. pc' = "outer" /\ stack' = <<>> /\ Doubled(i, 2 * k, j)
    BY <1>1, <1>13 DEF AfterStepLoop, SortStep, Doubled
  <2>2. h \in Nat /\ h > 0
    BY <1>4
  <2> HIDE DEF i, j, k, n, b, g, h
  <2>3. j = SFields(i.list, i.p, i.q, i.tail, h, i.psize, i.qsize, i.numMerges)
    BY <1>1, <2>1, SortUpdates DEF h
  <2>4. j.list = i.list /\ j.stepSize = h /\ SortShape(j)
    BY <2>2, <2>3, SFieldsOf
  <2>5. Proper => RunsFrom(a, s, n, 0, h)
    BY <1>11 DEF h
  <2>6. OuterPoint(s)'
    BY <1>1, <1>3, <1>7, <1>9, <1>10, <2>4, <2>5 DEF OuterPoint, g, j
  <2>7. SortPoint' /\ Comparing'
    BY <1>1, <1>10, <2>1, <2>6 DEF SortPoint, Comparing
  <2>8. /\ pc' \in Live \cup {"returned", "thrown", "escaped"} /\ IsSeq(d') /\ SortShape(info')
        /\ Len(d') = Len(d) /\ (call.method = "sort" => \A m \in 1 .. Size : d'[m] = d[m])
    BY <1>8, <2>1, <2>4 DEF Live, g, n, j
  <2>. QED
    BY <1>1, <2>7, <2>8, SortStepInv
<1>. QED
  BY <1>12, <1>13

-----------------------------------------------------------------------------
(* Copying.                                                                 *)
Joined(f, g, h) == h = f \o g

(* What concatenation does to sequences.                                    *)
LEMMA JoinedIs ==
  ASSUME NEW f, IsSeq(f), NEW g, IsSeq(g), NEW h, Joined(f, g, h)
  PROVE  /\ IsSeq(h) /\ Len(h) = Len(f) + Len(g)
         /\ \A m \in 1 .. Len(f) : h[m] = f[m]
         /\ \A m \in 1 .. Len(g) : h[Len(f) + m] = g[m]
<1> DEFINE S == {f[m] : m \in 1 .. Len(f)} \cup {g[m] : m \in 1 .. Len(g)}
<1>1. f \in Seq(S) /\ g \in Seq(S) /\ Len(f) \in Nat /\ Len(g) \in Nat
  BY DEF IsSeq
<1> HIDE DEF S
<1>2. /\ f \o g \in Seq(S) /\ Len(f \o g) = Len(f) + Len(g)
      /\ \A m \in 1 .. Len(f) + Len(g) : (f \o g)[m] = IF m <= Len(f) THEN f[m] ELSE g[m - Len(f)]
  BY <1>1, ConcatProperties
<1>3. ASSUME NEW q \in Seq(S) PROVE IsSeq(q)
  BY DEF IsSeq
<1>4. \A m \in 1 .. Len(f) : h[m] = f[m]
  BY <1>1, <1>2 DEF Joined
<1>5. ASSUME NEW m \in 1 .. Len(g) PROVE h[Len(f) + m] = g[m]
  <2>1. Len(f) + m \in 1 .. Len(f) + Len(g) /\ ~(Len(f) + m <= Len(f)) /\ (Len(f) + m) - Len(f) = m
    BY <1>1
  <2>. QED
    BY <1>2, <2>1 DEF Joined
<1>. QED
  BY <1>2, <1>3, <1>4, <1>5 DEF Joined

(* What there is before and while the argument is copied.                   *)
LEMMA CloneFacts ==
  ASSUME SortInv, pc \in {"called", "clone"}
  PROVE  /\ Size \in Nat /\ Base = Size /\ call.method = "sort" /\ assigns = 0
         /\ IsSeq(a) /\ IsSeq(d) /\ Len(a) = Size /\ Len(d) = Size /\ stack = <<>>
         /\ \A k \in 1 .. Size : a[k] = call.a[k] /\ d[k] = call.d[k]
         /\ \E last \in 0 .. Size : call.d = Linked(Size, last)
  BY SortNumbers DEF SortInv, SortCallOK, Memory, Comparing, Base

(* A step of copying that creates no cell.                                  *)
LEMMA CloneStep ==
  ASSUME SortInv, pc \in {"called", "clone"}, UNCHANGED <<a, d, call, stack, assigns>>,
         pc' = "thrown" \/ (pc' = "clone" /\ Cloning')
  PROVE  SortInv'
<1>1. SortCallOK'
  BY SameSort DEF SortInv
<1>2. Memory'
  BY CloneFacts, SameSort DEF SortInv, Memory
<1>3. SortPoint' /\ Comparing' /\ pc' \notin Live \cup {"returned"}
  BY CloneFacts DEF SortPoint, Comparing, Live
<1>. QED
  BY <1>1, <1>2, <1>3 DEF SortInv

(* The first cell.                                                          *)
LEMMA StartCloneInv ==
  ASSUME SortInv, Sorting, StartClone
  PROVE  SortInv'
<1>1. /\ pc = "called" /\ pc \in {"called", "clone"} /\ UNCHANGED <<a, d, call, stack, seen, assigns>>
      /\ call.head = HeadOf(Size)
  BY DEF StartClone, SortInv, SortCallOK
<1>2. /\ Size \in Nat /\ Base = Size /\ call.method = "sort" /\ assigns = 0
      /\ IsSeq(a) /\ IsSeq(d) /\ Len(a) = Size /\ Len(d) = Size /\ stack = <<>>
      /\ \A k \in 1 .. Size : a[k] = call.a[k] /\ d[k] = call.d[k]
      /\ \E last \in 0 .. Size : call.d = Linked(Size, last)
  BY <1>1, CloneFacts
<1>3. Size' = Size /\ Base' = Base /\ (Proper' <=> Proper) /\ SortCallOK'
  BY <1>1, SameSort DEF SortInv
<1>4. CASE Size = 0
  <2>1. pc' = "start" /\ info' = NoSort
    BY <1>1, <1>4 DEF StartClone, HeadOf
  <2>2. SortShape(NoSort) /\ NoSort.stepSize = 1 /\ NoSort.list = Null
    BY DEF SortShape, SFields, NoSort
  <2>3. SortShape(info') /\ info'.stepSize = 1 /\ info'.list = Null
    BY <2>1, <2>2
  <2>4. \A m \in 1 .. Size : FALSE
    BY <1>4
  <2>5. LeadsOn(d', [k \in 1 .. Size |-> Base + k], Size, 0)
    <3>1. \A m \in 0 + 1 .. Size - 1 : FALSE
      BY <1>4
    <3>. QED
      BY <1>4, <3>1 DEF LeadsOn, Leads
  <2>6. StartPoint'
    BY <1>3, <1>4, <2>3, <2>5 DEF StartPoint
  <2>7. Copies'
    BY <1>1, <1>2, <1>3, <1>4, <2>4 DEF Copies
  <2>8. Memory'
    BY <1>1, <1>2, <1>3, <2>1, <2>4 DEF Memory
  <2>9. SortPoint' /\ Comparing'
    BY <1>1, <1>2, <2>1, <2>6 DEF SortPoint, Comparing
  <2>10. pc' \in Live /\ pc' # "clone"
    BY <2>1 DEF Live
  <2>. QED
    BY <1>3, <2>3, <2>7, <2>8, <2>9, <2>10 DEF SortInv
<1>5. CASE Size # 0
  <2>1. call.head = 1 /\ call.head # Null /\ 1 \in 1 .. Size
    BY <1>1, <1>2, <1>5 DEF HeadOf, Null
  <2>2. pc' = "clone" /\ info'.tortoise = d[1] /\ info'.copy = <<a[1]>>
    BY <1>1, <2>1 DEF StartClone, Rest
  <2>3. info'.tortoise = call.d[1] /\ info'.copy = <<call.a[1]>>
    BY <1>2, <2>1, <2>2
  <2>4. IsSeq(info'.copy) /\ Len(info'.copy) = 1 /\ info'.copy[1] = call.a[1]
    <3> DEFINE e == call.a[1]
    <3> HIDE DEF e
    <3>1. IsSeq(<<e>>) /\ Len(<<e>>) = 1 /\ <<e>>[1] = e
      BY DEF IsSeq
    <3>. QED
      BY <2>3, <3>1 DEF e
  <2>5. PICK last \in 0 .. Size : call.d = Linked(Size, last)
    BY <1>2
  <2>6. \A k \in 1 .. Size : call.d[k] = IF k < Size THEN k + 1 ELSE last
    BY <2>5 DEF Linked
  <2>7. CASE last = Null
    <3>1. info'.tortoise = IF 1 < Size THEN 1 + 1 ELSE Null
      BY <2>1, <2>3, <2>6, <2>7
    <3>2. info'.copy = [k \in 1 .. 1 |-> call.a[k]]
      BY <2>4 DEF IsSeq
    <3>3. Cloning'
      BY <1>1, <1>2, <1>3, <1>5, <2>1, <2>4, <2>5, <2>7, <3>1, <3>2 DEF Cloning
    <3>. QED
      BY <1>1, <2>2, <3>3, CloneStep
  <2>8. CASE last # Null
    <3>1. last \in 1 .. Size
      BY <1>2, <2>8 DEF Null
    <3>2. \A k \in 1 .. Size : call.d[k] # Null /\ call.d[k] \in 1 .. Size
      BY <1>2, <2>6, <3>1 DEF Null
    <3>3. Cloning'
      BY <1>1, <1>2, <1>3, <1>5, <2>1, <2>3, <2>4, <3>2 DEF Cloning
    <3>. QED
      BY <1>1, <2>2, <3>3, CloneStep
  <2>. QED
    BY <2>7, <2>8
<1>. QED
  BY <1>4, <1>5

(* The next cell.                                                           *)
LEMMA CloneCellInv ==
  ASSUME SortInv, Sorting, CloneCell
  PROVE  SortInv'
<1> DEFINE t == info.tortoise
           c == info.copy
           m == Len(info.copy)
<1>1. /\ pc = "clone" /\ pc' = "clone" /\ pc \in {"called", "clone"}
      /\ UNCHANGED <<a, d, call, stack, seen, assigns>> /\ t # Null /\ Cloning
      /\ info'.tortoise = Rest(t) /\ info'.copy = Append(c, a[t])
  BY DEF CloneCell, SortInv
<1>2. /\ Size \in Nat /\ Base = Size
      /\ \A k \in 1 .. Size : a[k] = call.a[k] /\ d[k] = call.d[k]
      /\ \E last \in 0 .. Size : call.d = Linked(Size, last)
  BY <1>1, CloneFacts
<1>3. Size' = Size
  BY <1>1, SameSort
<1>4. Size > 0 /\ IsSeq(c) /\ m \in Nat
  BY <1>1 DEF Cloning
<1>5. /\ IsSeq(info'.copy) /\ Len(info'.copy) = m + 1 /\ info'.copy[m + 1] = a[t]
      /\ \A k \in 1 .. m : info'.copy[k] = c[k]
  <2>1. Appended(c, a[t], info'.copy)
    BY <1>1 DEF Appended
  <2>. QED
    BY <1>4, <2>1, AppendIs
<1>6. CASE t \in 1 .. Size /\ \A k \in 1 .. Size : call.d[k] # Null
  <2>1. PICK last \in 0 .. Size : call.d = Linked(Size, last)
    BY <1>2
  <2>2. \A k \in 1 .. Size : call.d[k] = IF k < Size THEN k + 1 ELSE last
    BY <2>1 DEF Linked
  <2>3. last \in 1 .. Size
    BY <1>2, <1>4, <1>6, <2>2 DEF Null
  <2>4. info'.tortoise = call.d[t] /\ call.d[t] \in 1 .. Size
    <3>1. info'.tortoise = d[t] /\ d[t] = call.d[t]
      BY <1>1, <1>2, <1>6 DEF Rest
    <3>2. t < Size => t + 1 \in 1 .. Size
      BY <1>2, <1>6
    <3>3. call.d[t] = IF t < Size THEN t + 1 ELSE last
      BY <1>6, <2>2
    <3>. QED
      BY <2>3, <3>1, <3>2, <3>3
  <2>5. Cloning'
    BY <1>1, <1>3, <1>4, <1>5, <1>6, <2>4 DEF Cloning
  <2>. QED
    BY <1>1, <2>5, CloneStep
<1>7. CASE /\ call.d = Linked(Size, Null)
           /\ c = [k \in 1 .. m |-> call.a[k]]
           /\ m \in 1 .. Size
           /\ t = IF m < Size THEN m + 1 ELSE Null
  <2>1. m < Size /\ t = m + 1 /\ t \in 1 .. Size
    BY <1>1, <1>2, <1>7
  <2>2. info'.tortoise = IF m + 1 < Size THEN m + 1 + 1 ELSE Null
    BY <1>1, <1>2, <1>7, <2>1 DEF Rest, Linked
  <2>3. \A k \in 1 .. m + 1 : info'.copy[k] = call.a[k]
    <3>1. \A k \in 1 .. m : info'.copy[k] = call.a[k]
      BY <1>5, <1>7, Zenon
    <3>2. info'.copy[m + 1] = call.a[m + 1]
      BY <1>2, <1>5, <2>1, Zenon
    <3>3. \A k \in 1 .. m + 1 : k \in 1 .. m \/ k = m + 1
      BY <1>4
    <3>. QED
      BY <3>1, <3>2, <3>3, Zenon
  <2>4. info'.copy = [k \in 1 .. m + 1 |-> call.a[k]]
    BY <1>5, <2>3 DEF IsSeq
  <2>5. m + 1 \in 1 .. Size /\ m + 1 \in Nat
    BY <1>4, <2>1
  <2>6. Cloning'
    BY <1>1, <1>3, <1>4, <1>5, <1>7, <2>2, <2>4, <2>5 DEF Cloning
  <2>. QED
    BY <1>1, <2>6, CloneStep
<1>. QED
  BY <1>1, <1>6, <1>7 DEF Cloning

(* The last one, or a list that never ends.                                 *)
LEMMA FinishCloneInv ==
  ASSUME SortInv, Sorting, FinishClone
  PROVE  SortInv'
<1> DEFINE n == Len(a)
           m == Len(info.copy)
           f == [i \in 1 .. m |-> IF i < m THEN n + i + 1 ELSE Null]
<1>1. pc = "clone" /\ pc \in {"called", "clone"} /\ UNCHANGED <<call, stack, seen, assigns>> /\ Cloning
  BY DEF FinishClone, SortInv
<1>2. /\ Size \in Nat /\ Base = Size /\ call.method = "sort" /\ assigns = 0
      /\ IsSeq(a) /\ IsSeq(d) /\ Len(a) = Size /\ Len(d) = Size /\ stack = <<>>
      /\ \A k \in 1 .. Size : a[k] = call.a[k] /\ d[k] = call.d[k]
  BY <1>1, CloneFacts
<1>3. Size' = Size /\ Base' = Base /\ (Proper' <=> Proper) /\ SortCallOK'
  BY <1>1, SameSort DEF SortInv
<1>4. CASE info.tortoise # Null
  <2>1. pc' = "thrown" /\ UNCHANGED <<a, d>>
    BY <1>4 DEF FinishClone
  <2>. QED
    BY <1>1, <2>1, CloneStep
<1>5. CASE info.tortoise = Null
  <2>1. /\ pc' = "start" /\ Joined(a, info.copy, a') /\ Joined(d, f, d')
        /\ info' = [NoSort EXCEPT !.list = n + 1]
    BY <1>5 DEF FinishClone, Joined
  <2>2. /\ IsSeq(info.copy) /\ m = Size /\ Size > 0 /\ info.copy = [k \in 1 .. m |-> call.a[k]]
    <3>1. ~(info.tortoise \in 1 .. Size)
      BY <1>2, <1>5 DEF Null
    <3>2. /\ IsSeq(info.copy) /\ Size > 0 /\ m \in 1 .. Size /\ info.copy = [k \in 1 .. m |-> call.a[k]]
          /\ info.tortoise = IF m < Size THEN m + 1 ELSE Null
      BY <1>1, <3>1 DEF Cloning
    <3>3. m = Size
      BY <1>2, <1>5, <3>2 DEF Null
    <3>. QED
      BY <3>2, <3>3
  <2>3. IsSeq(f) /\ Len(f) = Size
    <3>1. m \in Nat
      BY <1>2, <2>2
    <3>2. Len(f) = m
      BY <3>1
    <3>. QED
      BY <1>2, <2>2, <3>1, <3>2 DEF IsSeq
  <2>4. \A k \in 1 .. Size : f[k] = IF k < Size THEN Size + k + 1 ELSE Null
    BY <1>2, <2>2
  <2> HIDE DEF f
  <2>5. /\ IsSeq(a') /\ Len(a') = Size + Size
        /\ \A k \in 1 .. Size : a'[k] = a[k]
        /\ \A k \in 1 .. Size : a'[Size + k] = info.copy[k]
    <3>1. /\ IsSeq(a') /\ Len(a') = Len(a) + Len(info.copy)
          /\ \A k \in 1 .. Len(a) : a'[k] = a[k]
          /\ \A k \in 1 .. Len(info.copy) : a'[Len(a) + k] = info.copy[k]
      BY <1>2, <2>1, <2>2, JoinedIs
    <3>. QED
      BY <1>2, <2>2, <3>1
  <2>6. /\ IsSeq(d') /\ Len(d') = Size + Size
        /\ \A k \in 1 .. Size : d'[k] = d[k]
        /\ \A k \in 1 .. Size : d'[Size + k] = f[k]
    <3>1. /\ IsSeq(d') /\ Len(d') = Len(d) + Len(f)
          /\ \A k \in 1 .. Len(d) : d'[k] = d[k]
          /\ \A k \in 1 .. Len(f) : d'[Len(d) + k] = f[k]
      BY <1>2, <2>1, <2>3, JoinedIs
    <3>. QED
      BY <1>2, <2>3, <3>1
  <2>7. SortShape(info') /\ info'.stepSize = 1 /\ info'.list = Base + 1
    <3> DEFINE y == n + 1
    <3>1. info' = [NoSort EXCEPT !.list = y] /\ y = Base + 1
      BY <1>2, <2>1
    <3> DEFINE j == info'
    <3> HIDE DEF y, j
    <3>2. j = SFields(y, Null, Null, Null, 1, 0, 0, 0)
      BY <3>1 DEF NoSort, SFields, j
    <3>3. 1 \in Nat /\ 1 > 0
      OBVIOUS
    <3>4. SortShape(j) /\ j.stepSize = 1 /\ j.list = y
      BY <3>2, <3>3 DEF SFields, SortShape
    <3>. QED
      BY <3>1, <3>4 DEF j
  <2>8. LeadsOn(d', [k \in 1 .. Size |-> Base + k], Size, 0)
    <3> DEFINE s == [k \in 1 .. Size |-> Base + k]
    <3>1. \A k \in 1 .. Size : s[k] = Size + k
      BY <1>2
    <3>2. ASSUME NEW k \in 0 + 1 .. Size - 1 PROVE d'[s[k]] = s[k + 1]
      <4>1. k \in 1 .. Size /\ k + 1 \in 1 .. Size /\ k < Size /\ Size + k + 1 = Size + (k + 1)
        BY <1>2
      <4>. QED
        BY <2>4, <2>6, <3>1, <4>1
    <3>3. d'[s[Size]] = Null
      <4>1. Size \in 1 .. Size /\ ~(Size < Size)
        BY <1>2, <2>2
      <4>. QED
        BY <2>4, <2>6, <3>1, <4>1
    <3>. QED
      BY <3>2, <3>3 DEF LeadsOn, Leads
  <2>9. StartPoint'
    BY <1>3, <2>2, <2>7, <2>8 DEF StartPoint
  <2>10. Copies'
    BY <1>1, <1>2, <1>3, <2>2, <2>5 DEF Copies
  <2>11. Memory'
    BY <1>1, <1>2, <1>3, <2>1, <2>5, <2>6 DEF Memory
  <2>12. SortPoint' /\ Comparing'
    BY <1>1, <1>2, <2>1, <2>9 DEF SortPoint, Comparing
  <2>13. pc' \in Live /\ pc' # "clone"
    BY <2>1 DEF Live
  <2>. QED
    BY <1>3, <2>7, <2>10, <2>11, <2>12, <2>13 DEF SortInv
<1>. QED
  BY <1>4, <1>5

-----------------------------------------------------------------------------
(* The program.  The function answers.                                      *)
LEMMA ComparedInv ==
  ASSUME SortInv, Sorting, NEW r, UserReturns(r)
  PROVE  SortInv'
<1>1. /\ pc = "user" /\ pc' = "body" /\ r \in Answers /\ UNCHANGED <<a, d, call, info, assigns>>
      /\ stack' = Append(SubSeq(stack, 1, Len(stack) - Argc - 1), r)
  BY DEF UserReturns
<1>2. Argc = 2
  BY DEF Argc, Sorting, Sorts, Searches, IsRange, SortInv, SortCallOK
<1>3. PICK g, h : /\ stack = <<>> \o <<Fn>> \o SubSeq(<<Num(g), Num(h)>>, 1, 2)
                  /\ Proper => g = a[info.p] /\ h = a[info.q]
  BY <1>1 DEF SortInv, Comparing
<1> DEFINE x1 == Num(g)
           x2 == Num(h)
<1>4. /\ SubSeq(stack, Len(stack) - 2 + 1, Len(stack)) = <<x1, x2>>
      /\ SubSeq(stack, 1, Len(stack) - 2 - 1) = <<>>
  <2> DEFINE args == SubSeq(<<x1, x2>>, 1, 2)
  <2>1. stack = <<>> \o <<Fn>> \o args /\ 2 \in 0 .. 2 /\ args = SubSeq(<<x1, x2>>, 1, 2)
    BY <1>3
  <2>2. args = <<x1, x2>>
    BY TwoOnly
  <2> HIDE DEF x1, x2, args
  <2>3. /\ SubSeq(stack, Len(stack) - 2 + 1, Len(stack)) = args
        /\ SubSeq(stack, 1, Len(stack) - 2 - 1) = <<>>
    BY <2>1, CallOnStack
  <2>. QED
    BY <2>2, <2>3
<1>5. Given = <<x1, x2>> /\ stack' = <<r>>
  BY <1>1, <1>2, <1>4, OneOnStack DEF Given
<1>6. Proper => r = Num(Sign(a[info.p] - a[info.q]))
  <2>1. SUFFICES ASSUME Proper PROVE r = Num(Sign(g - h))
    BY <1>3
  <2>2. Answers = {Num(Sign(Given[1][2] - Given[2][2]))}
    BY <2>1 DEF Answers, Proper, Sorting, Sorts, Loops, Searches
  <2>3. Given[1][2] = g /\ Given[2][2] = h
    BY <1>5 DEF Num
  <2>. QED
    BY <1>1, <2>2, <2>3
<1>7. PICK s, w, x : MergePoint(s, w, x)
  BY <1>1 DEF SortInv, SortPoint
<1>8. Size' = Size /\ Base' = Base /\ (Proper' <=> Proper)
  BY <1>1, SameSort
<1>9. MergePoint(s, w, x)'
  BY <1>1, <1>7, <1>8 DEF MergePoint
<1>10. SortPoint'
  BY <1>1, <1>8, <1>9 DEF SortPoint, SortInv
<1>11. Comparing'
  BY <1>1, <1>5, <1>6, <1>8 DEF Comparing, SortInv
<1>12. /\ pc' \in Live \cup {"returned", "thrown", "escaped"} /\ pc \in Live /\ IsSeq(d') /\ Len(d') = Len(d)
       /\ SortShape(info')
  BY <1>1 DEF Live, SortInv, Memory
<1>. QED
  BY <1>1, <1>10, <1>11, <1>12, SortStepInv

(* It leaves for good.                                                      *)
LEMMA SortEscapesInv ==
  ASSUME SortInv, UserEscapes
  PROVE  SortInv'
<1>1. pc = "user" /\ pc' = "escaped" /\ UNCHANGED <<a, d, call, stack, info, assigns>>
  BY DEF UserEscapes
<1>2. SortPoint' /\ Comparing'
  BY <1>1 DEF SortPoint, Comparing
<1>3. /\ pc' \in Live \cup {"returned", "thrown", "escaped"} /\ pc \in Live /\ IsSeq(d') /\ Len(d') = Len(d)
      /\ pc' \notin Live
  BY <1>1 DEF Live, SortInv, Memory
<1>. QED
  BY <1>1, <1>2, <1>3, SortStepInv

(* It assigns to a cell of the argument: not to those that are linked anew, *)
(* or not to their links.                                                   *)
LEMMA SameLinks ==
  ASSUME NEW n \in Nat, NEW b \in Nat, NEW s, Order(s, n, b), NEW f, NEW i, NEW w, NEW x,
         Merging(f, i, s, n, w, x), NEW g, \A c \in b + 1 .. b + n : g[c] = f[c]
  PROVE  Merging(g, i, s, n, w, x)
<1>1. \A m \in 1 .. n : g[s[m]] = f[s[m]]
  BY DEF Order
<1>2. w \in 0 .. n /\ x \in w .. n
  BY DEF Merging
<1>3. Leads(g, s, 1, w)
  <2>1. \A m \in 1 .. w - 1 : m \in 1 .. n
    BY <1>2
  <2>. QED
    BY <1>1, <2>1 DEF Merging, Built, Leads
<1>4. Leads(g, s, w + 1, x)
  <2>1. \A m \in w + 1 .. x - 1 : m \in 1 .. n
    BY <1>2
  <2>. QED
    BY <1>1, <2>1 DEF Merging, Leads
<1>5. LeadsOn(g, s, n, x)
  <2>1. (\A m \in x + 1 .. n - 1 : m \in 1 .. n) /\ (x < n => n \in 1 .. n)
    BY <1>2
  <2>. QED
    BY <1>1, <2>1 DEF Merging, LeadsOn, Leads
<1>. QED
  BY <1>3, <1>4, <1>5 DEF Merging, Built

(* An assignment, as far as the sort is concerned.                          *)
LEMMA SortAssignsInv ==
  ASSUME SortInv, Sorting, MayAssign, assigns' = assigns + 1, UNCHANGED <<call, pc, stack, info>>,
         IsSeq(a'), Len(a') = Len(a), IsSeq(d'), Len(d') = Len(d),
         \A m \in Size + 1 .. Len(a) : a'[m] = a[m],
         \A m \in Base + 1 .. Base + Size : d'[m] = d[m]
  PROVE  SortInv'
<1>1. pc = "user" /\ pc' = "user" /\ ~Proper /\ call.order # "keys" /\ assigns \in Nat /\ assigns' # 0
  BY DEF MayAssign, Proper, SortInv, Memory
<1>2. PICK s, w, x : MergePoint(s, w, x)
  BY <1>1 DEF SortInv, SortPoint
<1>3. /\ Size \in Nat /\ Base \in Nat /\ Order(s, Size, Base) /\ Merging(d, info, s, Size, w, x) /\ Copies
  BY <1>1, <1>2, MergeFacts
<1>4. Size' = Size /\ Base' = Base /\ (Proper' <=> Proper) /\ SortCallOK'
  BY SameSort DEF SortInv
<1>5. Merging(d', info, s, Size, w, x)
  BY <1>3, SameLinks
<1>6. MergePoint(s, w, x)'
  BY <1>1, <1>3, <1>4, <1>5 DEF MergePoint
<1>7. SortPoint' /\ Comparing'
  BY <1>1, <1>4, <1>6 DEF SortPoint, SortInv, Comparing
<1>8. Copies'
  <2>1. ASSUME call.method = "sort", NEW k \in 1 .. Size PROVE a'[Base + k] = call.a[k]
    <3>1. Base + k \in Size + 1 .. Len(a)
      BY <1>3, <2>1 DEF Base, Copies
    <3>. QED
      BY <1>3, <2>1, <3>1 DEF Copies
  <2>. QED
    BY <1>1, <1>3, <1>4, <2>1 DEF Copies
<1>9. Memory'
  BY <1>1, <1>4 DEF SortInv, Memory
<1>. QED
  BY <1>1, <1>4, <1>7, <1>8, <1>9 DEF SortInv, Live

(* To the content of a cell.                                                *)
LEMMA SortSetsAInv ==
  ASSUME SortInv, Sorting, NEW c \in 1 .. Len(call.a), NEW k, UserSetsA(c, k)
  PROVE  SortInv'
<1>1. /\ MayAssign /\ WithCell(a, c, k, a') /\ assigns' = assigns + 1
      /\ UNCHANGED <<d, call, pc, stack, info>>
  BY DEF UserSetsA, WithCell
<1>2. /\ Size \in Nat /\ c \in 1 .. Size /\ IsSeq(a) /\ IsSeq(d) /\ Len(a) \in Nat /\ Len(a) >= Size
  BY SortNumbers DEF Size, SortInv, Memory, IsSeq
<1>3. c \in 1 .. Len(a)
  BY <1>2
<1>4. IsSeq(a') /\ Len(a') = Len(a) /\ \A m \in 1 .. Len(a) : a'[m] = IF m = c THEN k ELSE a[m]
  BY <1>1, <1>2, <1>3, CellSet
<1>5. \A m \in Size + 1 .. Len(a) : m \in 1 .. Len(a) /\ m # c
  BY <1>2
<1>. QED
  BY <1>1, <1>2, <1>4, <1>5, SortAssignsInv

(* To the rest of a cell.                                                   *)
LEMMA SortSetsDInv ==
  ASSUME SortInv, Sorting, NEW c \in 1 .. Len(call.a), NEW e, UserSetsD(c, e)
  PROVE  SortInv'
<1>1. /\ MayAssign /\ WithCell(d, c, e, d') /\ assigns' = assigns + 1 /\ call.method = "sort"
      /\ UNCHANGED <<a, call, pc, stack, info>>
  BY DEF UserSetsD, WithCell, Sorting, Sorts
<1>2. /\ Size \in Nat /\ Base = Size /\ c \in 1 .. Size /\ IsSeq(a) /\ IsSeq(d) /\ Len(d) \in Nat
  BY <1>1, SortNumbers DEF Size, SortInv, Memory, IsSeq, Base
<1>3. pc \in Live
  BY <1>1 DEF MayAssign, Live
<1>4. Len(d) = Size + Size
  BY <1>2, <1>3 DEF SortInv, Memory, Copies
<1>5. c \in 1 .. Len(d)
  BY <1>2, <1>4
<1>6. IsSeq(d') /\ Len(d') = Len(d) /\ \A m \in 1 .. Len(d) : d'[m] = IF m = c THEN e ELSE d[m]
  BY <1>1, <1>2, <1>5, CellSet
<1>7. \A m \in Base + 1 .. Base + Size : m \in 1 .. Len(d) /\ m # c
  BY <1>2, <1>4
<1>. QED
  BY <1>1, <1>2, <1>6, <1>7, SortAssignsInv

(* Nothing happens.                                                         *)
LEMMA SortStuttersInv ==
  ASSUME SortInv, UNCHANGED vars
  PROVE  SortInv'
<1>1. UNCHANGED <<a, d, call, pc, stack, info, seen, assigns>>
  BY DEF vars
<1>2. Size' = Size /\ Base' = Base /\ (Proper' <=> Proper) /\ SortCallOK'
  BY <1>1, SameSort DEF SortInv
<1>3. Memory' /\ (Copies' <=> Copies) /\ (Cloning' <=> Cloning)
  BY <1>1, <1>2 DEF SortInv, Memory, Copies, Cloning
<1>4. SortPoint'
  <2>1. /\ StartPoint' <=> StartPoint
        /\ \A s : OuterPoint(s)' <=> OuterPoint(s)
        /\ \A s, w : StepPoint(s, w)' <=> StepPoint(s, w)
    BY <1>1, <1>2 DEF StartPoint, OuterPoint, StepPoint
  <2>2. /\ \A s, w, x : MergePoint(s, w, x)' <=> MergePoint(s, w, x)
        /\ \A s, c : EndPoint(s, c)' <=> EndPoint(s, c)
    BY <1>1, <1>2 DEF MergePoint, EndPoint
  <2>. QED
    BY <1>1, <1>2, <2>1, <2>2 DEF SortInv, SortPoint
<1>5. Comparing'
  BY <1>1, <1>2 DEF SortInv, Comparing
<1>. QED
  BY <1>1, <1>2, <1>3, <1>4, <1>5 DEF SortInv

(* Every step of a sort.                                                    *)
SInv == Sorting => SortInv

(* No step changes what was called.                                         *)
LEMMA SameCalled ==
  ASSUME [Next]_vars
  PROVE  call' = call
  BY DEF Next, Machine, User, Finished, vars, Each, Map, Where, Count, AnyAll, Find, RangeFind,
         RangeAll, Iterate, NextCall, CallUser, Return, StartClone, CloneCell, FinishClone, Initial,
         SortStep, OuterLoop, StepLoop, AfterStepLoop, MergeLoop, AfterCompare, Returns, UserReturns,
         UserEscapes, UserSetsA, UserSetsD

(* All of them.                                                             *)
LEMMA NextSortInv ==
  ASSUME SInv, [Next]_vars
  PROVE  SInv'
<1>1. call' = call
  BY SameCalled
<1>2. SUFFICES ASSUME Sorting PROVE SortInv'
  BY <1>1 DEF SInv, Sorting
<1>3. SortInv
  BY <1>2 DEF SInv
<1>4. ~(Each \/ Map \/ Where \/ Count \/ AnyAll \/ Find \/ RangeFind \/ RangeAll)
  BY <1>2 DEF Sorting, Sorts, Each, Map, Where, Count, AnyAll, Find, RangeFind, RangeAll
<1>5. CASE StartClone \/ CloneCell \/ FinishClone
  BY <1>2, <1>3, <1>5, StartCloneInv, CloneCellInv, FinishCloneInv
<1>6. CASE Initial \/ OuterLoop \/ StepLoop
  BY <1>2, <1>3, <1>6, InitialInv, OuterLoopInv, StepLoopInv
<1>7. CASE AfterStepLoop \/ MergeLoop \/ AfterCompare
  BY <1>2, <1>3, <1>7, AfterStepLoopInv, MergeLoopInv, AfterCompareInv
<1>8. CASE Returns
  BY <1>2, <1>3, <1>8, ComparedInv DEF Returns
<1>9. CASE UserEscapes
  BY <1>3, <1>9, SortEscapesInv
<1>10. ASSUME NEW c \in 1 .. Len(call.a), NEW k \in Keys, UserSetsA(c, k) PROVE SortInv'
  BY <1>2, <1>3, <1>10, SortSetsAInv
<1>11. ASSUME NEW c \in 1 .. Len(call.a), NEW e \in 0 .. Len(call.a), UserSetsD(c, e) PROVE SortInv'
  BY <1>2, <1>3, <1>11, SortSetsDInv
<1>12. CASE UNCHANGED vars
  BY <1>3, <1>12, SortStuttersInv
<1>. QED
  BY <1>4, <1>5, <1>6, <1>7, <1>8, <1>9, <1>10, <1>11, <1>12 DEF Next, Machine, User, Finished

(* The initial states.                                                      *)
CalledOn == IsSeq(call.a) /\ IsSeq(call.d) /\ Len(call.d) = Len(call.a) /\ call.method \in Loops \cup Sorts

(* A function of the numbers up to n is a sequence.                         *)
LEMMA FunctionIsSeq ==
  ASSUME NEW n \in Nat, NEW f, f = [k \in 1 .. n |-> f[k]]
  PROVE  IsSeq(f) /\ Len(f) = n
<1> DEFINE S == {f[k] : k \in 1 .. n}
<1>1. f \in Seq(S) /\ Len(f) = n
  <2>1. f \in [1 .. n -> S]
    OBVIOUS
  <2>. QED
    BY <2>1, LenProperties
<1>. QED
  BY <1>1 DEF IsSeq

(* Every call is of a method on a list of cells.                            *)
LEMMA InitCalledOn == Init => CalledOn
<1>1. SUFFICES ASSUME Init PROVE CalledOn
  OBVIOUS
<1>2. CASE InitList
  <2>1. PICK n \in 0 .. MaxLoop, method \in Loops, arity \in {1, 2} :
             /\ a = [i \in 1 .. n |-> i] /\ d = Linked(n, Null)
             /\ Calls(method, "list", HeadOf(n), arity, "none", NoRange)
    BY <1>2 DEF InitList
  <2>2. call.method = method /\ call.a = a /\ call.d = d
    BY <2>1 DEF Calls
  <2>3. n \in Nat /\ a = [k \in 1 .. n |-> a[k]] /\ d = [k \in 1 .. n |-> d[k]]
    BY <2>1, BoundsAssumption DEF Linked
  <2>. QED
    BY <2>2, <2>3, FunctionIsSeq DEF CalledOn
<1>3. CASE InitRange
  <2>1. PICK r \in [start : Numbers, end : Numbers, step : Numbers], method \in Loops, arity \in 0 .. 2 :
             a = <<>> /\ d = <<>> /\ Calls(method, "range", Null, arity, "none", r)
    BY <1>3 DEF InitRange
  <2>2. call.method = method /\ call.a = <<>> /\ call.d = <<>>
    BY <2>1 DEF Calls
  <2>3. IsSeq(<<>>)
    BY DEF IsSeq
  <2>. QED
    BY <2>2, <2>3 DEF CalledOn
<1>4. CASE InitSort
  <2>1. PICK method \in Sorts, order \in {"keys", "any"}, n \in 0 .. MaxSort, last \in 0 .. MaxSort :
             /\ IF order = "keys" THEN a \in [1 .. n -> Keys] ELSE a = [i \in 1 .. n |-> i]
             /\ d = Linked(n, last)
             /\ Calls(method, "list", HeadOf(n), 2, order, NoRange)
    BY <1>4 DEF InitSort
  <2>2. call.method = method /\ call.a = a /\ call.d = d
    BY <2>1 DEF Calls
  <2>3. n \in Nat /\ a = [k \in 1 .. n |-> a[k]] /\ d = [k \in 1 .. n |-> d[k]]
    BY <2>1, BoundsAssumption DEF Linked
  <2>. QED
    BY <2>2, <2>3, FunctionIsSeq DEF CalledOn
<1>. QED
  BY <1>1, <1>2, <1>3, <1>4 DEF Init

(* A sort that has been called.                                             *)
LEMMA InitSortInv == Init => SInv
<1>1. SUFFICES ASSUME Init, Sorting PROVE SortInv
  BY DEF SInv
<1>2. assigns = 0 /\ InitSort
  <2>1. ~InitList /\ ~InitRange
    <3>1. ASSUME NEW m \in Loops, NEW x, NEW y, NEW z, NEW u, NEW r, Calls(m, x, y, z, u, r) PROVE FALSE
      BY <1>1, <3>1 DEF Calls, Sorting, Sorts, Loops, Searches
    <3>2. ~InitList
      BY <3>1 DEF InitList
    <3>3. ~InitRange
      BY <3>1 DEF InitRange
    <3>. QED
      BY <3>2, <3>3
  <2>. QED
    BY <1>1, <2>1 DEF Init
<1>3. PICK method \in Sorts, order \in {"keys", "any"}, n \in 0 .. MaxSort, last \in 0 .. MaxSort :
        /\ last # Null => method = "sort" /\ order = "any" /\ last <= n
        /\ IF order = "keys" THEN a \in [1 .. n -> Keys] ELSE a = [i \in 1 .. n |-> i]
        /\ d = Linked(n, last)
        /\ Calls(method, "list", HeadOf(n), 2, order, NoRange)
        /\ info = [NoSort EXCEPT !.list = HeadOf(n)]
        /\ stack = <<>>
        /\ pc = IF method = "sort" THEN "called" ELSE "start"
  BY <1>2 DEF InitSort
<1>4. /\ call.method = method /\ call.of = "list" /\ call.head = HeadOf(n) /\ call.order = order
      /\ call.a = a /\ call.d = d
  BY <1>3 DEF Calls
<1>5. n \in Nat /\ IsSeq(a) /\ IsSeq(d) /\ Len(a) = n /\ Len(d) = n
  <2>1. n \in Nat /\ a = [k \in 1 .. n |-> a[k]] /\ d = [k \in 1 .. n |-> d[k]]
    BY <1>3, BoundsAssumption DEF Linked
  <2>. QED
    BY <2>1, FunctionIsSeq
<1>6. Size = n
  BY <1>4, <1>5 DEF Size
<1>7. SortCallOK
  <2>1. last \in 0 .. n
    BY <1>3, <1>5 DEF Null
  <2>2. call.order = "keys" => \A k \in 1 .. n : call.a[k] \in Int
    BY <1>3, <1>4, KeysAssumption
  <2>3. call.method = "sort!" => last = Null
    BY <1>3, <1>4
  <2>. QED
    BY <1>3, <1>4, <1>5, <1>6, <2>1, <2>2, <2>3 DEF SortCallOK
<1>8. Memory
  BY <1>2, <1>3, <1>4, <1>5, <1>6 DEF Memory
<1>9. CASE method = "sort"
  <2>1. pc = "called" /\ pc \notin Live \cup {"clone", "returned"}
    BY <1>3, <1>9 DEF Live
  <2>2. SortPoint /\ Comparing
    BY <1>3, <2>1 DEF SortPoint, Comparing
  <2>. QED
    BY <1>7, <1>8, <2>1, <2>2 DEF SortInv
<1>10. CASE method = "sort!"
  <2>1. pc = "start" /\ pc \in Live /\ Base = 0 /\ last = Null
    BY <1>3, <1>4, <1>10 DEF Live, Base
  <2>2. SortShape(info) /\ info.stepSize = 1 /\ info.list = HeadOf(n)
    <3> DEFINE y == HeadOf(n)
               j == info
    <3>1. j = [NoSort EXCEPT !.list = y]
      BY <1>3
    <3> HIDE DEF y, j
    <3>2. j = SFields(y, Null, Null, Null, 1, 0, 0, 0)
      BY <3>1 DEF NoSort, SFields
    <3>3. 1 \in Nat /\ 1 > 0
      OBVIOUS
    <3>4. SortShape(j) /\ j.stepSize = 1 /\ j.list = y
      BY <3>2, <3>3 DEF SFields, SortShape
    <3>. QED
      BY <3>4 DEF y, j
  <2>3. Copies
    BY <1>4, <1>5, <1>6, <2>1 DEF Copies
  <2>4. LeadsOn(d, [k \in 1 .. Size |-> Base + k], Size, 0)
    <3> DEFINE s == [k \in 1 .. n |-> k]
    <3>1. \A k \in 1 .. n : d[k] = IF k < n THEN k + 1 ELSE Null
      BY <1>3, <2>1 DEF Linked
    <3>2. ASSUME NEW k \in 0 + 1 .. n - 1 PROVE d[s[k]] = s[k + 1]
      <4>1. k \in 1 .. n /\ k + 1 \in 1 .. n /\ k < n
        BY <1>5
      <4>. QED
        BY <3>1, <4>1
    <3>3. 0 < n => d[s[n]] = Null
      <4>1. 0 < n => n \in 1 .. n /\ ~(n < n)
        BY <1>5
      <4>. QED
        BY <3>1, <4>1
    <3>4. LeadsOn(d, s, n, 0)
      BY <3>2, <3>3 DEF LeadsOn, Leads
    <3>5. [k \in 1 .. Size |-> Base + k] = s
      BY <1>5, <1>6, <2>1
    <3>. QED
      BY <1>6, <3>4, <3>5
  <2>5. StartPoint
    BY <1>6, <2>1, <2>2, <2>4 DEF StartPoint, HeadOf
  <2>6. SortPoint /\ Comparing
    BY <1>3, <2>1, <2>5 DEF SortPoint, Comparing
  <2>. QED
    BY <1>7, <1>8, <2>1, <2>2, <2>3, <2>6 DEF SortInv
<1>. QED
  BY <1>9, <1>10 DEF Sorts

-----------------------------------------------------------------------------
(* What a sort returns.                                                     *)
LEMMA PartIs ==
  ASSUME NEW f, NEW g, IsSeq(g), NEW o \in Nat, \A k \in 1 .. Len(g) : f[o + k] = g[k]
  PROVE  SubSeq(f, o + 1, o + Len(g)) = g
<1> DEFINE n == Len(g)
           S == {g[k] : k \in 1 .. n}
           h == SubSeq(f, o + 1, o + n)
<1>1. n \in Nat /\ g \in Seq(S) /\ o + 1 \in Int /\ o + n \in Int
  BY DEF IsSeq
<1>2. ASSUME NEW k \in o + 1 .. o + n PROVE f[k] \in S
  <2>1. k - o \in 1 .. n /\ o + (k - o) = k
    BY <1>1
  <2>. QED
    BY <2>1
<1> HIDE DEF S
<1>3. /\ h \in Seq(S) /\ Len(h) = IF o + 1 <= o + n THEN (o + n) - (o + 1) + 1 ELSE 0
      /\ \A k \in 1 .. (o + n) - (o + 1) + 1 : h[k] = f[(o + 1) + k - 1]
  BY <1>1, <1>2, SubSeqProperties
<1> HIDE DEF h
<1>4. (o + n) - (o + 1) + 1 = n /\ (o + 1 <= o + n <=> n > 0)
  BY <1>1
<1>5. Len(h) = n
  BY <1>1, <1>3, <1>4
<1>6. ASSUME NEW k \in 1 .. n PROVE h[k] = g[k]
  <2>1. (o + 1) + k - 1 = o + k
    BY <1>1
  <2>. QED
    BY <1>3, <1>4, <2>1
<1>7. h = g
  BY <1>1, <1>3, <1>5, <1>6, SeqEqual
<1>. QED
  BY <1>7 DEF h

(* A beginning of a sequence.                                               *)
LEMMA PrefixIs ==
  ASSUME NEW f, NEW g, IsSeq(g), \A k \in 1 .. Len(g) : f[k] = g[k]
  PROVE  SubSeq(f, 1, Len(g)) = g
<1> DEFINE n == Len(g)
           S == {g[k] : k \in 1 .. n}
           h == SubSeq(f, 1, n)
<1>1. n \in Nat /\ g \in Seq(S) /\ 1 \in Int /\ n \in Int
  BY DEF IsSeq
<1>2. \A k \in 1 .. n : f[k] \in S
  OBVIOUS
<1> HIDE DEF S
<1>3. /\ h \in Seq(S) /\ Len(h) = IF 1 <= n THEN n - 1 + 1 ELSE 0
      /\ \A k \in 1 .. n - 1 + 1 : h[k] = f[1 + k - 1]
  BY <1>1, <1>2, SubSeqProperties
<1> HIDE DEF h
<1>4. n - 1 + 1 = n /\ Len(h) = n
  BY <1>1, <1>3
<1>5. ASSUME NEW k \in 1 .. n PROVE h[k] = g[k]
  <2>1. 1 + k - 1 = k
    BY <1>1
  <2>. QED
    BY <1>3, <1>4, <2>1
<1>6. h = g
  BY <1>1, <1>3, <1>4, <1>5, SeqEqual
<1>. QED
  BY <1>6 DEF h

(* The cells from the first on are the sort's own, in order.                *)
LEMMA ReturnedCells ==
  ASSUME SortInv, pc = "returned"
  PROVE  \E s : /\ Order(s, Size, Base)
                /\ \A N \in Nat : \A j \in 0 .. N : Ahead(Result, N)[j] = At(s, Size, 1 + j)
                /\ Proper => \A j, m \in 1 .. Size : j < m => Less(a, s[j], s[m])
<1>1. PICK s, c : EndPoint(s, c)
  BY DEF SortInv, SortPoint
<1>2. Result = c
  BY <1>1 DEF EndPoint, Result
<1>3. Size \in Nat /\ Base \in Nat
  BY SortNumbers
<1>4. PICK r : /\ Order(r, Size, Base) /\ c = At(r, Size, 0 + 1) /\ LeadsOn(d, r, Size, 0)
               /\ Proper => \A j, m \in 1 .. Size : j < m => Less(a, r[j], r[m])
  <2>1. CASE Size = 0
    <3> DEFINE r == [k \in 1 .. Size |-> Base + k]
    <3>1. /\ \A k \in 1 .. Size : FALSE
          /\ \A k \in Base + 1 .. Base + Size : FALSE
          /\ \A k \in 0 + 1 .. Size - 1 : FALSE
          /\ ~(0 + 1 \in 1 .. Size)
      BY <1>3, <2>1
    <3>2. Order(r, Size, Base) /\ c = At(r, Size, 0 + 1) /\ LeadsOn(d, r, Size, 0)
      BY <1>1, <2>1, <3>1 DEF Order, At, LeadsOn, Leads, EndPoint
    <3>. QED
      BY <3>1, <3>2
  <2>2. CASE Size # 0
    <3>1. 0 + 1 \in 1 .. Size /\ 0 + 1 = 1
      BY <1>3, <2>2
    <3>. QED
      BY <1>1, <2>2, <3>1 DEF EndPoint, At
  <2>. QED
    BY <2>1, <2>2
<1>5. ASSUME NEW N \in Nat PROVE \A j \in 0 .. N : Ahead(Result, N)[j] = At(r, Size, 1 + j)
  <2> DEFINE n == Size
             b == Base
             v == At(r, n, 0 + 1)
  <2>1. n \in Nat /\ b \in Nat /\ Order(r, n, b) /\ 0 \in 0 .. n /\ LeadsOn(d, r, n, 0) /\ N \in Nat
    BY <1>3, <1>4
  <2> HIDE DEF n, b
  <2>2. \A j \in 0 .. N : Ahead(v, N)[j] = At(r, n, 0 + 1 + j)
    BY ONLY <2>1, AheadInOrder
  <2>3. \A j \in 0 .. N : 0 + 1 + j = 1 + j
    OBVIOUS
  <2>4. v = Result
    BY <1>2, <1>4 DEF n
  <2> HIDE DEF v
  <2>. QED
    BY <2>2, <2>3, <2>4 DEF n
<1>. QED
  BY <1>4, <1>5

(* The sorts keep their invariant.                                          *)
THEOREM SortsIInv == Spec => [](SInv /\ CalledOn)
<1>1. Init => SInv /\ CalledOn
  BY InitSortInv, InitCalledOn
<1>2. SInv /\ CalledOn /\ [Next]_vars => (SInv /\ CalledOn)'
  <2>1. SUFFICES ASSUME SInv, CalledOn, [Next]_vars PROVE SInv' /\ CalledOn'
    OBVIOUS
  <2>2. call' = call
    BY <2>1, SameCalled
  <2>3. CalledOn'
    BY <2>1, <2>2 DEF CalledOn
  <2>. QED
    BY <2>1, <2>3, NextSortInv
<1>. QED
  BY <1>1, <1>2, PTL DEF Spec

(* A list of at most 2 * ByteValues - 2 cells, sorted by a comparison of    *)
(* their keys, is in order, and equal items are in the order they had.      *)
THEOREM SortsStably == Spec => []SortedStably
<1>1. SInv => SortedStably
  <2>1. SUFFICES ASSUME SInv, pc = "returned", Sorting, call.order = "keys",
                        Len(call.a) <= 2 * ByteValues - 2,
                        NEW i \in 0 .. Len(call.a) - 1, NEW j \in 0 .. Len(call.a) - 1, i < j
                 PROVE  LET at == Ahead(Result, Len(call.a)) IN
                        a[at[i]] < a[at[j]] \/ (a[at[i]] = a[at[j]] /\ at[i] < at[j])
    BY DEF SortedStably
  <2>2. SortInv /\ Proper /\ Size = Len(call.a)
    BY <2>1 DEF SInv, Proper, Size
  <2>3. PICK s : /\ \A N \in Nat : \A m \in 0 .. N : Ahead(Result, N)[m] = At(s, Size, 1 + m)
                 /\ Proper => \A k, m \in 1 .. Size : k < m => Less(a, s[k], s[m])
    BY <2>1, <2>2, ReturnedCells
  <2>4. Size \in Nat
    BY <2>2, SortNumbers
  <2> DEFINE at == Ahead(Result, Len(call.a))
  <2>5. \A m \in 0 .. Size : at[m] = At(s, Size, 1 + m)
    BY <2>2, <2>3, <2>4
  <2> HIDE DEF at
  <2>6. /\ i \in 0 .. Size /\ j \in 0 .. Size /\ 1 + i \in 1 .. Size /\ 1 + j \in 1 .. Size /\ 1 + i < 1 + j
    BY <2>1, <2>2, <2>4
  <2>7. at[i] = s[1 + i] /\ at[j] = s[1 + j]
    BY <2>5, <2>6 DEF At
  <2>8. Less(a, s[1 + i], s[1 + j])
    BY <2>2, <2>3, <2>6
  <2>9. a[at[i]] < a[at[j]] \/ (a[at[i]] = a[at[j]] /\ at[i] < at[j])
    BY <2>7, <2>8 DEF Less
  <2>. QED
    BY <2>9 DEF at
<1>. QED
  BY <1>1, SortsIInv, PTL

(* Whatever the comparison answers and the program assigns: the result of a *)
(* sort has every cell once and ends, sort has copied the contents there    *)
(* were, and neither it nor a loop touches the argument.                    *)
THEOREM SortsKeep == Spec => []SortKeeps
<1>1. ASSUME SInv, CalledOn, IInv PROVE SortKeeps
  <2> DEFINE n == Len(call.a)
  <2>1. n \in Nat /\ IsSeq(call.a) /\ IsSeq(call.d) /\ Len(call.d) = n
    BY <1>1 DEF CalledOn, IsSeq
  <2>2. ASSUME pc = "returned", Sorting
        PROVE  /\ Cells(Result) = (IF call.method = "sort" THEN n + 1 .. 2 * n ELSE 1 .. n)
               /\ Ahead(Result, n)[n] = Null
               /\ call.method = "sort" => SubSeq(a, n + 1, 2 * n) = call.a
    <3>1. SortInv /\ Size = n /\ Base \in Nat /\ Copies /\ Len(d) = Base + n
      BY <1>1, <2>2, SortNumbers DEF SInv, Size, SortInv, Memory, Copies
    <3>2. PICK s : /\ Order(s, n, Base)
                   /\ \A N \in Nat : \A j \in 0 .. N : Ahead(Result, N)[j] = At(s, n, 1 + j)
      BY <2>2, <3>1, ReturnedCells
    <3>3. \A j \in 0 .. Len(d) : Ahead(Result, Len(d))[j] = At(s, n, 1 + j)
      <4> DEFINE L == Len(d)
      <4>1. L \in Nat
        BY <2>1, <3>1
      <4> HIDE DEF L
      <4>2. \A j \in 0 .. L : Ahead(Result, L)[j] = At(s, n, 1 + j)
        BY <3>2, <4>1
      <4>. QED
        BY <4>2 DEF L
    <3>4. \A m \in 1 .. n : s[m] # Null /\ s[m] \in Base + 1 .. Base + n
      <4>1. \A m \in 1 .. n : s[m] \in Base + 1 .. Base + n
        BY <3>2 DEF Order
      <4>2. \A c \in Base + 1 .. Base + n : c # 0
        BY <2>1, <3>1
      <4>. QED
        BY <4>1, <4>2 DEF Null
    <3>5. Cells(Result) = Base + 1 .. Base + n
      <4> DEFINE D == Ahead(Result, Len(d))
      <4>1. Cells(Result) = {D[j] : j \in 0 .. Len(d)} \ {Null}
        BY DEF Cells
      <4> HIDE DEF D
      <4>2. \A j \in 0 .. Len(d) : D[j] = At(s, n, 1 + j)
        BY <3>3 DEF D
      <4>3. ASSUME NEW c \in Cells(Result) PROVE c \in Base + 1 .. Base + n
        <5>1. PICK j \in 0 .. Len(d) : c = At(s, n, 1 + j) /\ c # Null
          BY <4>1, <4>2, <4>3
        <5>. QED
          BY <3>4, <5>1 DEF At
      <4>4. ASSUME NEW c \in Base + 1 .. Base + n PROVE c \in Cells(Result)
        <5>1. PICK m \in 1 .. n : s[m] = c
          BY <3>2 DEF Order
        <5>2. m - 1 \in 0 .. Len(d) /\ 1 + (m - 1) = m
          BY <2>1, <3>1
        <5>3. D[m - 1] = c /\ c # Null
          BY <3>4, <4>2, <5>1, <5>2 DEF At
        <5>. QED
          BY <4>1, <5>2, <5>3
      <4>. QED
        BY <4>3, <4>4
    <3>6. Ahead(Result, n)[n] = Null
      <4>1. n \in 0 .. n /\ 1 + n \notin 1 .. n
        BY <2>1
      <4>. QED
        BY <2>1, <3>2, <4>1 DEF At
    <3>7. CASE call.method = "sort"
      <4>1. Base = n /\ n + n = 2 * n
        BY <2>1, <3>1, <3>7 DEF Base
      <4>2. \A k \in 1 .. Len(call.a) : a[n + k] = call.a[k]
        BY <3>1, <3>7, <4>1 DEF Copies
      <4>3. SubSeq(a, n + 1, n + Len(call.a)) = call.a
        BY <2>1, <4>2, PartIs
      <4>. QED
        BY <3>5, <3>6, <3>7, <4>1, <4>3
    <3>8. CASE call.method # "sort"
      <4>1. Base = 0 /\ 0 + 1 = 1 /\ 0 + n = n
        BY <2>1, <3>8 DEF Base
      <4>. QED
        BY <3>5, <3>6, <3>8, <4>1
    <3>. QED
      BY <3>7, <3>8
  <2>3. ASSUME call.method # "sort!", assigns = 0
        PROVE  SubSeq(a, 1, n) = call.a /\ SubSeq(d, 1, n) = call.d
    <3>1. \A k \in 1 .. n : a[k] = call.a[k] /\ d[k] = call.d[k]
      <4>1. CASE call.method = "sort"
        BY <1>1, <2>3, <4>1 DEF SInv, Sorting, Sorts, SortInv, Memory, Size
      <4>2. CASE call.method \in Loops
        BY <1>1, <2>3, <4>2 DEF IInv, LoopInv, Unassigned
      <4>. QED
        BY <1>1, <2>3, <4>1, <4>2 DEF CalledOn, Sorts
    <3>2. \A k \in 1 .. Len(call.d) : d[k] = call.d[k]
      BY <2>1, <3>1
    <3>3. SubSeq(a, 1, Len(call.a)) = call.a
      BY <2>1, <3>1, PrefixIs
    <3>4. SubSeq(d, 1, Len(call.d)) = call.d
      BY <2>1, <3>2, PrefixIs
    <3>. QED
      BY <2>1, <3>3, <3>4
  <2>. QED
    BY <2>2, <2>3 DEF SortKeeps
<1>. QED
  BY <1>1, SortsIInv, LoopsIInv, PTL

-----------------------------------------------------------------------------
(* A list that is looped over.  Its links lead down it, whatever the        *)
(* program has assigned.                                                    *)
DownTheList ==
  call.method \in Loops /\ ~IsRange =>
    /\ call.head = HeadOf(Len(call.a)) /\ IsSeq(d) /\ Len(d) = Len(call.a)
    /\ \A c \in 1 .. Len(d) : d[c] = Null \/ d[c] \in c + 1 .. Len(d)

(* So they do in the beginning.                                             *)
LEMMA InitDown == Init => DownTheList
<1>1. SUFFICES ASSUME Init, call.method \in Loops, ~IsRange
               PROVE  /\ call.head = HeadOf(Len(call.a)) /\ IsSeq(d) /\ Len(d) = Len(call.a)
                      /\ \A c \in 1 .. Len(d) : d[c] = Null \/ d[c] \in c + 1 .. Len(d)
  BY DEF DownTheList
<1>2. ~InitRange
  <2>1. ASSUME NEW m, NEW h, NEW k, NEW o, NEW r, Calls(m, "range", h, k, o, r) PROVE FALSE
    BY <1>1, <2>1 DEF Calls, IsRange
  <2>. QED
    BY <2>1 DEF InitRange
<1>3. ~InitSort
  <2>1. ASSUME NEW m \in Sorts, NEW x, NEW h, NEW k, NEW o, NEW r, Calls(m, x, h, k, o, r) PROVE FALSE
    BY <1>1, <2>1 DEF Calls, Sorts, Loops, Searches
  <2>. QED
    BY <2>1 DEF InitSort
<1>4. PICK n \in 0 .. MaxLoop, method \in Loops, arity \in {1, 2} :
           /\ a = [i \in 1 .. n |-> i] /\ d = Linked(n, Null)
           /\ Calls(method, "list", HeadOf(n), arity, "none", NoRange)
  BY <1>1, <1>2, <1>3 DEF Init, InitList
<1>5. call.a = a /\ call.head = HeadOf(n)
  BY <1>4 DEF Calls
<1>6. n \in Nat /\ a = [k \in 1 .. n |-> a[k]] /\ d = [k \in 1 .. n |-> d[k]]
  BY <1>4, BoundsAssumption DEF Linked
<1>7. Len(a) = n /\ IsSeq(d) /\ Len(d) = n
  BY <1>6, FunctionIsSeq
<1>8. \A c \in 1 .. n : d[c] = Null \/ d[c] \in c + 1 .. n
  <2>1. \A c \in 1 .. n : d[c] = IF c < n THEN c + 1 ELSE Null
    BY <1>4 DEF Linked
  <2>2. \A c \in 1 .. n : c < n => c + 1 \in c + 1 .. n
    BY <1>6
  <2>. QED
    BY <2>1, <2>2
<1>. QED
  BY <1>5, <1>7, <1>8

(* Only an assignment of the program changes a link of it.                  *)
LEMMA LoopKeepsLinks ==
  ASSUME [Next]_vars, ~Sorting, pc \notin {"called", "clone", "outer", "step", "merge"}
  PROVE  d' = d \/ \E c \in 1 .. Len(call.a), e \in 0 .. Len(call.a) : UserSetsD(c, e)
<1>1. ASSUME Each \/ Map \/ Where \/ Count PROVE d' = d
  BY <1>1 DEF Each, Map, Where, Count, Iterate, NextCall, CallUser, Return
<1>2. ASSUME AnyAll \/ Find \/ RangeFind \/ RangeAll PROVE d' = d
  BY <1>2 DEF AnyAll, Find, RangeFind, RangeAll, Iterate, NextCall, CallUser, Return
<1>3. ~(StartClone \/ CloneCell \/ FinishClone \/ Initial \/ OuterLoop \/ StepLoop
        \/ AfterStepLoop \/ MergeLoop \/ AfterCompare)
  BY DEF StartClone, CloneCell, FinishClone, Initial, OuterLoop, StepLoop, AfterStepLoop,
         MergeLoop, AfterCompare
<1>4. ASSUME Returns \/ UserEscapes \/ Finished \/ UNCHANGED vars PROVE d' = d
  BY <1>4 DEF Returns, UserReturns, UserEscapes, Finished, vars
<1>5. ASSUME NEW c, NEW k, UserSetsA(c, k) PROVE d' = d
  BY <1>5 DEF UserSetsA
<1>. QED
  BY <1>1, <1>2, <1>3, <1>4, <1>5 DEF Next, Machine, User

(* And every step keeps it so.                                              *)
LEMMA NextDown ==
  ASSUME IInv, DownTheList, [Next]_vars
  PROVE  DownTheList'
<1>1. call' = call
  BY SameCalled
<1>2. SUFFICES ASSUME call.method \in Loops, ~IsRange
               PROVE  /\ call.head = HeadOf(Len(call.a)) /\ IsSeq(d') /\ Len(d') = Len(call.a)
                      /\ \A c \in 1 .. Len(d') : d'[c] = Null \/ d'[c] \in c + 1 .. Len(d')
  BY <1>1 DEF DownTheList, IsRange
<1>3. /\ call.head = HeadOf(Len(call.a)) /\ IsSeq(d) /\ Len(d) = Len(call.a)
      /\ \A c \in 1 .. Len(d) : d[c] = Null \/ d[c] \in c + 1 .. Len(d)
  BY <1>2 DEF DownTheList
<1>4. ~Sorting /\ pc \notin {"called", "clone", "outer", "step", "merge"}
  BY <1>2 DEF IInv, LoopInv, Sorting, Sorts, Loops, Searches
<1>5. CASE d' = d
  BY <1>3, <1>5
<1>6. ASSUME NEW c \in 1 .. Len(call.a), NEW e \in 0 .. Len(call.a), UserSetsD(c, e)
      PROVE  /\ IsSeq(d') /\ Len(d') = Len(call.a)
             /\ \A m \in 1 .. Len(d') : d'[m] = Null \/ d'[m] \in m + 1 .. Len(d')
  <2>1. WithCell(d, c, e, d') /\ (e > c \/ e = Null) /\ c \in 1 .. Len(d) /\ Len(d) \in Nat
    BY <1>3, <1>6 DEF UserSetsD, WithCell, IsSeq
  <2>2. IsSeq(d') /\ Len(d') = Len(d) /\ \A m \in 1 .. Len(d) : d'[m] = IF m = c THEN e ELSE d[m]
    BY <1>3, <2>1, CellSet
  <2>3. e = Null \/ e \in c + 1 .. Len(d)
    BY <1>3, <1>6, <2>1
  <2>. QED
    BY <1>3, <2>2, <2>3
<1>. QED
  BY <1>3, <1>4, <1>5, <1>6, LoopKeepsLinks

(* A cell of the list is not behind its last, and its rest is one as well.  *)
LEMMA RestIsCell ==
  ASSUME call.method \in Loops, ~IsRange, DownTheList, NEW c \in Cells(call.head), Rest(c) # Null
  PROVE  Rest(c) \in Cells(call.head)
<1> DEFINE n == Len(d)
           D == Ahead(call.head, n)
           G == {k \in 0 .. n : D[k] = Null \/ D[k] \in k + 1 .. n}
<1>1. /\ n \in Nat /\ call.head = HeadOf(n) /\ \A e \in 1 .. n : d[e] = Null \/ d[e] \in e + 1 .. n
  BY DEF DownTheList, IsSeq
<1>2. Cells(call.head) = {D[k] : k \in 0 .. n} \ {Null}
  BY DEF Cells
<1>3. D[0] = call.head /\ \A k \in 1 .. n : D[k] = Rest(D[k - 1])
  BY <1>1, AheadUnfolds
<1> HIDE DEF D, n
<1>4. 0 \in G
  BY <1>1, <1>3 DEF HeadOf
<1>5. ASSUME NEW k \in 1 .. n, k - 1 \in G PROVE k \in G
  <2> DEFINE e == D[k - 1]
  <2>1. e = Null \/ e \in k .. n
    BY <1>1, <1>5
  <2>2. D[k] = Rest(e)
    BY <1>3
  <2> HIDE DEF e
  <2>3. CASE e = Null
    BY <1>1, <2>2, <2>3 DEF Rest
  <2>4. CASE e # Null
    <3>1. e \in 1 .. n /\ e \in k .. n /\ D[k] = d[e]
      BY <1>1, <2>1, <2>2, <2>4 DEF Rest
    <3>2. d[e] = Null \/ d[e] \in e + 1 .. n
      BY <1>1, <3>1
    <3>. QED
      BY <1>1, <3>1, <3>2
  <2>. QED
    BY <2>3, <2>4
<1> HIDE DEF G
<1>6. \A k \in 0 .. n : k \in G
  BY <1>1, <1>4, <1>5, Upwards
<1>7. PICK k \in 0 .. n : c = D[k] /\ c # Null
  BY <1>2
<1>8. c \in k + 1 .. n
  BY <1>6, <1>7 DEF G
<1>9. k + 1 \in 1 .. n /\ k + 1 \in 0 .. n /\ (k + 1) - 1 = k
  BY <1>1, <1>8
<1>10. D[k + 1] = Rest(c)
  BY <1>3, <1>7, <1>9
<1>. QED
  BY <1>2, <1>9, <1>10

(* A loop that asks again has moved on to the rest of the cell.             *)
LEMMA AsksForRest ==
  ASSUME pc = "body", pc' = "user", ~IsRange, NEW i, InfoShape(i), i.at = info.at, NEW over, Iterate(i, over)
  PROVE  info'.at = Rest(info.at) /\ info'.at # Null
<1>1. NextCall(Popped, Advance(i), over)
  BY DEF Iterate
<1>2. More(Advance(i)) /\ info' = Advance(i)
  BY <1>1 DEF NextCall, CallUser, Return
<1>3. Advance(i).at = Rest(i.at)
  BY Advanced
<1>. QED
  BY <1>2, <1>3 DEF More

(* Every loop but each.                                                     *)
LEMMA MovesOn ==
  ASSUME LoopInv, Next, pc = "body", pc' = "user", ~IsRange, call.method # "each"
  PROVE  info'.at = Rest(info.at) /\ info'.at # Null
<1>1. InfoShape(info) /\ ~Sorting /\ IsSeq(info.result) /\ info.count \in Nat
  BY DEF LoopInv, CallOK, Sorting, Sorts, Loops, Searches, InfoShape
<1>2. ~Each /\ ~RangeFind /\ ~RangeAll
  BY DEF Each, RangeFind, RangeAll
<1>3. CASE Map
  <2> DEFINE x == Append(info.result, Answer)
             i == [info EXCEPT !.result = x]
  <2>1. Iterate(i, List(i.result)) /\ Appended(info.result, Answer, x) /\ ResultSet(info, x, i)
    BY <1>3 DEF Map, Appended, ResultSet
  <2> HIDE DEF x, i
  <2>2. IsSeq(x)
    BY <1>1, <2>1, AppendIs
  <2>3. InfoShape(i) /\ i.at = info.at
    BY <1>1, <2>1, <2>2, ResultSetIs
  <2>. QED
    BY <2>1, <2>3, AsksForRest
<1>4. CASE Where
  <2>1. CASE AnsweredYes
    <3> DEFINE e == Num(Item(info))
               x == Append(info.result, e)
               i == [info EXCEPT !.result = x]
    <3>1. Iterate(i, List(i.result)) /\ Appended(info.result, e, x) /\ ResultSet(info, x, i)
      BY <1>4, <2>1 DEF Where, Appended, ResultSet
    <3> HIDE DEF e, x, i
    <3>2. IsSeq(x)
      BY <1>1, <3>1, AppendIs
    <3>3. InfoShape(i) /\ i.at = info.at
      BY <1>1, <3>1, <3>2, ResultSetIs
    <3>. QED
      BY <3>1, <3>3, AsksForRest
  <2>2. CASE ~AnsweredYes
    <3>1. Iterate(info, List(info.result))
      BY <1>4, <2>2 DEF Where
    <3>. QED
      BY <1>1, <3>1, AsksForRest
  <2>. QED
    BY <2>1, <2>2
<1>5. CASE Count
  <2>1. CASE AnsweredYes
    <3> DEFINE x == info.count + 1
               i == [info EXCEPT !.count = x]
    <3>1. Iterate(i, Num(i.count)) /\ x \in Nat /\ CountSet(info, x, i)
      BY <1>1, <1>5, <2>1 DEF Count, CountSet
    <3> HIDE DEF x, i
    <3>2. InfoShape(i) /\ i.at = info.at
      BY <1>1, <3>1, CountSetIs
    <3>. QED
      BY <3>1, <3>2, AsksForRest
  <2>2. CASE ~AnsweredYes
    <3>1. Iterate(info, Num(info.count))
      BY <1>5, <2>2 DEF Count
    <3>. QED
      BY <1>1, <3>1, AsksForRest
  <2>. QED
    BY <2>1, <2>2
<1>6. CASE AnyAll \/ Find
  <2>1. \E over : Iterate(info, over)
    BY <1>6 DEF AnyAll, Find, Return
  <2>. QED
    BY <1>1, <2>1, AsksForRest
<1>7. ~(StartClone \/ CloneCell \/ FinishClone \/ Initial \/ OuterLoop \/ StepLoop
        \/ AfterStepLoop \/ MergeLoop \/ AfterCompare)
  BY <1>1 DEF StartClone, CloneCell, FinishClone, Initial, OuterLoop, StepLoop, AfterStepLoop,
              MergeLoop, AfterCompare
<1>8. ~User /\ ~Finished
  BY DEF User, Returns, UserEscapes, UserSetsA, UserSetsD, MayAssign, Finished, Over
<1>. QED
  BY <1>2, <1>3, <1>4, <1>5, <1>6, <1>7, <1>8 DEF Next, Machine

(* No loop but each visits a cell that the program has taken out of the     *)
(* list while its function ran, for lists of every length and any number of *)
(* assignments.                                                             *)
THEOREM RemovedStayOut == Spec => RemovedNotVisited
<1>1. Init => IInv /\ DownTheList
  BY InitInv, InitDown
<1>2. IInv /\ DownTheList /\ [Next]_vars => (IInv /\ DownTheList)'
  BY NextInv, NextDown
<1>3. IInv /\ DownTheList /\ [Next]_vars =>
        [pc = "body" /\ pc' = "user" /\ call.of = "list" /\ call.method \in Loops \ {"each"}
           => info'.at \in Cells(call.head) \/ info.at \notin Cells(call.head)]_vars
  <2>1. SUFFICES ASSUME IInv, DownTheList, Next, pc = "body", pc' = "user", call.of = "list",
                        call.method \in Loops \ {"each"}, info.at \in Cells(call.head)
                 PROVE  info'.at \in Cells(call.head)
    OBVIOUS
  <2>2. LoopInv /\ ~IsRange /\ call.method # "each" /\ call.method \in Loops
    BY <2>1 DEF IInv, IsRange
  <2>3. info'.at = Rest(info.at) /\ info'.at # Null
    BY <2>1, <2>2, MovesOn
  <2> DEFINE c == info.at
  <2>4. c \in Cells(call.head) /\ Rest(c) # Null
    BY <2>1, <2>3
  <2> HIDE DEF c
  <2>5. Rest(c) \in Cells(call.head)
    BY <2>1, <2>2, <2>4, RestIsCell
  <2>. QED
    BY <2>3, <2>5 DEF c
<1>. QED
  BY <1>1, <1>2, <1>3, PTL DEF Spec, RemovedNotVisited
=============================================================================
