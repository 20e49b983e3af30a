-------------------------- MODULE Int32DictProofs --------------------------
(***************************************************************************)
(* Proofs about Int32Dict for tables of every size, every set of keys and  *)
(* every sequence of calls.                                                *)
(***************************************************************************)
EXTENDS Int32Dict, FiniteSetTheorems, WellFoundedInduction, TLAPS

(* Array of n list indices, -1 ending a list.                               *)
Links(n) == [0 .. n - 1 -> -1 .. n - 1]

-----------------------------------------------------------------------------
(* The set of nodes a list loop visits: it is closed, and the least such    *)
(* set.                                                                     *)
LEMMA ChainLeast ==
  ASSUME NEW nx, NEW s, NEW S \in SUBSET DOMAIN nx, Closed(nx, s, S)
  PROVE  Chain(nx, s) \subseteq S
  BY DEF Chain

(* The nodes a list loop visits are closed under the links it follows.      *)
LEMMA ChainClosed ==
  ASSUME NEW N \in Nat, NEW nx \in Links(N), NEW s \in -1 .. N - 1
  PROVE  /\ Chain(nx, s) \subseteq 0 .. N - 1
         /\ s >= 0 => s \in Chain(nx, s)
         /\ \A n \in Chain(nx, s) : nx[n] >= 0 => nx[n] \in Chain(nx, s)
<1>1. DOMAIN nx = 0 .. N - 1
  BY DEF Links
<1>2. Chain(nx, s) \subseteq 0 .. N - 1
  BY <1>1 DEF Chain
<1>3. s >= 0 => s \in Chain(nx, s)
  BY <1>1 DEF Chain, Closed
<1>4. ASSUME NEW n \in Chain(nx, s), nx[n] >= 0
      PROVE  nx[n] \in Chain(nx, s)
  <2>1. n \in 0 .. N - 1 /\ nx[n] \in 0 .. N - 1
    BY <1>2, <1>4 DEF Links
  <2>2. ASSUME NEW S \in SUBSET DOMAIN nx, Closed(nx, s, S)
        PROVE  nx[n] \in S
    <3>1. n \in S
      BY <2>2 DEF Chain
    <3>. QED
      BY <3>1, <2>2, <1>4 DEF Closed
  <2>. QED
    BY <2>1, <2>2, <1>1 DEF Chain
<1>. QED
  BY <1>2, <1>3, <1>4

(* A list is its first node followed by the rest of the list.               *)
LEMMA ChainUnfold ==
  ASSUME NEW N \in Nat, NEW nx \in Links(N), NEW s \in -1 .. N - 1
  PROVE  /\ s < 0 => Chain(nx, s) = {}
         /\ s >= 0 => Chain(nx, s) = {s} \cup Chain(nx, nx[s])
<1>1. DOMAIN nx = 0 .. N - 1
  BY DEF Links
<1>2. ASSUME s < 0 PROVE Chain(nx, s) = {}
  <2>1. Closed(nx, s, {})
    BY <1>2 DEF Closed
  <2>. QED
    BY <2>1, ChainLeast
<1>3. ASSUME s >= 0 PROVE Chain(nx, s) = {s} \cup Chain(nx, nx[s])
  <2>1. s \in 0 .. N - 1 /\ nx[s] \in -1 .. N - 1
    BY <1>3 DEF Links
  <2>2. Chain(nx, nx[s]) \subseteq 0 .. N - 1
    BY <2>1, ChainClosed
  <2>3. Closed(nx, s, {s} \cup Chain(nx, nx[s]))
    BY <2>1, <2>2, ChainClosed DEF Closed
  <2>4. Chain(nx, s) \subseteq {s} \cup Chain(nx, nx[s])
    BY <2>1, <2>2, <2>3, <1>1, ChainLeast
  <2>5. Closed(nx, nx[s], Chain(nx, s))
    BY <1>3, ChainClosed DEF Closed
  <2>6. Chain(nx, nx[s]) \subseteq Chain(nx, s)
    BY <2>5, <1>1, ChainClosed, ChainLeast
  <2>. QED
    BY <2>4, <2>6, <1>3, ChainClosed
<1>. QED
  BY <1>2, <1>3

(* The list that starts at a node of a list is part of it.                  *)
LEMMA ChainSub ==
  ASSUME NEW N \in Nat, NEW nx \in Links(N), NEW s \in -1 .. N - 1,
         NEW t \in -1 .. N - 1, t >= 0 => t \in Chain(nx, s)
  PROVE  Chain(nx, t) \subseteq Chain(nx, s)
<1>1. Closed(nx, t, Chain(nx, s))
  BY ChainClosed DEF Closed
<1>. QED
  BY <1>1, ChainClosed, ChainLeast DEF Links

(* A list is what its own nodes say: other links do not matter.             *)
LEMMA ChainFrame ==
  ASSUME NEW N \in Nat, NEW nx \in Links(N), NEW ny \in Links(N),
         NEW s \in -1 .. N - 1,
         \A n \in Chain(nx, s) : ny[n] = nx[n]
  PROVE  Chain(ny, s) = Chain(nx, s)
<1>1. DOMAIN nx = 0 .. N - 1 /\ DOMAIN ny = 0 .. N - 1
  BY DEF Links
<1>2. Closed(ny, s, Chain(nx, s))
  BY ChainClosed DEF Closed
<1>3. Chain(ny, s) \subseteq Chain(nx, s)
  BY <1>1, <1>2, ChainClosed, ChainLeast
<1>4. Closed(nx, s, Chain(ny, s))
  BY <1>3, ChainClosed DEF Closed
<1>5. Chain(nx, s) \subseteq Chain(ny, s)
  BY <1>1, <1>4, ChainClosed, ChainLeast
<1>. QED
  BY <1>3, <1>5

(* Writing the link of a node n that is not on the list.                    *)
SameBut(nx, ny, n) == \A m \in DOMAIN nx : m # n => ny[m] = nx[m]

(* Changing the link of a node that is not on a list leaves the list alone. *)
LEMMA ChainExcept ==
  ASSUME NEW N \in Nat, NEW nx \in Links(N), NEW ny \in Links(N),
         NEW s \in -1 .. N - 1, NEW n, SameBut(nx, ny, n), n \notin Chain(nx, s)
  PROVE  Chain(ny, s) = Chain(nx, s)
<1>1. \A m \in Chain(nx, s) : ny[m] = nx[m]
  BY ChainClosed DEF Links, SameBut
<1>. QED
  BY <1>1, ChainFrame

(* Pushing a node that is not on a list on the front of that list.          *)
LEMMA ChainPush ==
  ASSUME NEW N \in Nat, NEW nx \in Links(N), NEW ny \in Links(N),
         NEW s \in -1 .. N - 1, NEW n \in 0 .. N - 1, n \notin Chain(nx, s),
         SameBut(nx, ny, n), ny[n] = s
  PROVE  Chain(ny, n) = {n} \cup Chain(nx, s)
<1>1. Chain(ny, s) = Chain(nx, s)
  BY ChainExcept
<1>2. Chain(ny, n) = {n} \cup Chain(ny, ny[n])
  BY ChainUnfold
<1>. QED
  BY <1>1, <1>2

(* Taking a node n, not the first, out of a list without circles by linking *)
(* its predecessor p to its successor: the rest of the list stays.          *)
LEMMA ChainCut ==
  ASSUME NEW N \in Nat, NEW nx \in Links(N), NEW ny \in Links(N),
         NEW s \in -1 .. N - 1, NEW n \in Chain(nx, s), n # s,
         n \notin Chain(nx, nx[n]),
         \A m \in Chain(nx, s) : m # n => ny[m] = IF nx[m] = n THEN nx[n] ELSE nx[m]
  PROVE  Chain(ny, s) = Chain(nx, s) \ {n}
<1> DEFINE A == Chain(nx, s)
           B == Chain(ny, s)
<1>1. DOMAIN nx = 0 .. N - 1 /\ DOMAIN ny = 0 .. N - 1
  BY DEF Links
<1>2. A \subseteq 0 .. N - 1 /\ B \subseteq 0 .. N - 1 /\ n \in 0 .. N - 1
  BY ChainClosed
<1>3. nx[n] # n
  <2>1. nx[n] \in -1 .. N - 1
    BY <1>2 DEF Links
  <2>. QED
    BY <2>1, <1>2, ChainClosed
<1>4. Closed(ny, s, A \ {n})
  <2>1. s >= 0 => s \in A \ {n}
    BY ChainClosed
  <2>2. ASSUME NEW m \in A \ {n}, ny[m] >= 0
        PROVE  ny[m] \in A \ {n}
    <3>1. CASE nx[m] = n
      BY <3>1, <2>2, <1>3, ChainClosed
    <3>2. CASE nx[m] # n
      BY <3>2, <2>2, ChainClosed
    <3>. QED
      BY <3>1, <3>2
  <2>. QED
    BY <2>1, <2>2 DEF Closed
<1>5. B \subseteq A \ {n}
  BY <1>1, <1>2, <1>4, ChainLeast
<1>6. Closed(nx, s, B \cup {n})
  <2>1. s >= 0 => s \in B
    BY ChainClosed
  <2>2. ASSUME NEW m \in B, nx[m] >= 0
        PROVE  nx[m] \in B \cup {n}
    BY <2>2, <1>5, ChainClosed
  <2>3. ASSUME nx[n] >= 0
        PROVE  nx[n] \in B \cup {n}
    <3>1. CASE \E p \in B : nx[p] = n
      BY <3>1, <2>3, <1>5, ChainClosed
    <3>2. CASE \A p \in B : nx[p] # n
      <4>1. Closed(nx, s, B)
        BY <2>1, <3>2, <1>5, ChainClosed DEF Closed
      <4>2. A \subseteq B
        BY <4>1, <1>1, <1>2, ChainLeast
      <4>. QED
        BY <4>2, <1>5
    <3>. QED
      BY <3>1, <3>2
  <2>. QED
    BY <2>1, <2>2, <2>3 DEF Closed
<1>7. A \subseteq B \cup {n}
  BY <1>6, <1>1, <1>2, ChainLeast
<1>. QED
  BY <1>5, <1>7

-----------------------------------------------------------------------------
(* A nonempty set of small naturals has a least element.                    *)
LEMMA LeastNatural ==
  ASSUME NEW N \in Nat, NEW M \in SUBSET (0 .. N), M # {}
  PROVE  \E m \in M : \A k \in M : m <= k
<1> DEFINE T == {0 .. m : m \in M}
           R == StrictSubsetOrdering(0 .. N)
<1>1. IsWellFoundedOn(R, FiniteSubsetsOf(0 .. N))
  BY FS_StrictSubsetOrderingWellFounded
<1>2. T \subseteq FiniteSubsetsOf(0 .. N)
  <2>1. ASSUME NEW m \in M PROVE 0 .. m \in FiniteSubsetsOf(0 .. N)
    <3>1. 0 .. m \subseteq 0 .. N
      OBVIOUS
    <3>2. IsFiniteSet(0 .. m)
      BY FS_Interval
    <3>. QED
      BY <3>1, <3>2 DEF FiniteSubsetsOf
  <2>. QED
    BY <2>1
<1>3. T # {}
  OBVIOUS
<1>4. PICK x \in T : \A y \in T : ~ (<<y, x>> \in R)
  <2> HIDE DEF T, R
  <2>. QED
    BY <1>1, <1>2, <1>3, WFMin
<1>5. PICK m \in M : x = 0 .. m
  OBVIOUS
<1>6. ASSUME NEW k \in M, k < m PROVE FALSE
  <2>1. 0 .. k \subseteq 0 .. m /\ 0 .. k # 0 .. m
    <3>1. m \in 0 .. m /\ m \notin 0 .. k
      BY <1>6
    <3>2. 0 .. k \subseteq 0 .. m
      BY <1>6
    <3>. QED
      BY <3>1, <3>2
  <2>2. 0 .. k \in SUBSET (0 .. N) /\ 0 .. m \in SUBSET (0 .. N)
    OBVIOUS
  <2>3. <<0 .. k, 0 .. m>> \in R
    BY <2>1, <2>2 DEF StrictSubsetOrdering
  <2>. QED
    BY <2>3, <1>4, <1>5
<1>. QED
  BY <1>6

(* The free list a fresh or a resized heap starts with: the nodes from f to *)
(* the end of the heap, in order.                                           *)
LEMMA FreshChain ==
  ASSUME NEW N \in Nat \ {0}, NEW nx \in Links(N), NEW f \in 0 .. N - 1,
         \A j \in f .. N - 1 : nx[j] = IF j = N - 1 THEN -1 ELSE j + 1
  PROVE  /\ Chain(nx, f) = f .. N - 1
         /\ \A j \in f .. N - 1 : j \notin Chain(nx, nx[j])
<1>1. DOMAIN nx = 0 .. N - 1
  BY DEF Links
<1>2. ASSUME NEW j \in f .. N - 1
      PROVE  Chain(nx, j) \subseteq j .. N - 1
  <2>1. Closed(nx, j, j .. N - 1)
    BY DEF Closed
  <2>. QED
    BY <2>1, <1>1, ChainLeast
<1>3. \A j \in f .. N - 1 : j \notin Chain(nx, nx[j])
  <2>1. ASSUME NEW j \in f .. N - 1 PROVE j \notin Chain(nx, nx[j])
    <3>1. CASE j = N - 1
      <4>1. nx[j] = -1
        BY <3>1
      <4>. QED
        BY <4>1, ChainUnfold
    <3>2. CASE j # N - 1
      <4>1. nx[j] = j + 1 /\ j + 1 \in f .. N - 1
        BY <3>2
      <4>. QED
        BY <4>1, <1>2
    <3>. QED
      BY <3>1, <3>2
  <2>. QED
    BY <2>1
<1>4. f .. N - 1 \subseteq Chain(nx, f)
  <2> DEFINE M == (f .. N - 1) \ Chain(nx, f)
  <2>1. SUFFICES ASSUME M # {} PROVE FALSE
    OBVIOUS
  <2>2. M \subseteq 0 .. N
    OBVIOUS
  <2>3. PICK m \in M : \A k \in M : m <= k
    <3> HIDE DEF M
    <3>. QED
      BY <2>1, <2>2, LeastNatural
  <2>4. f \in Chain(nx, f)
    BY ChainClosed
  <2>5. m - 1 \in f .. N - 1 /\ m - 1 \in Chain(nx, f)
    BY <2>3, <2>4
  <2>6. nx[m - 1] = m
    BY <2>5
  <2>. QED
    BY <2>5, <2>6, ChainClosed
<1>5. Chain(nx, f) \subseteq f .. N - 1
  BY <1>2
<1>6. Chain(nx, f) = f .. N - 1
  BY <1>4, <1>5
<1>. QED
  BY <1>3, <1>6

-----------------------------------------------------------------------------
(* A heap of N nodes in which exactly the nodes of U hold a pair: each is   *)
(* on the list of its key's bucket, the lists run into no circle and no key *)
(* is held twice.                                                           *)
Heap(N, bk, nx, ky, U) ==
  /\ \A b \in 0 .. N - 1 : Chain(nx, bk[b]) \subseteq U
  /\ \A b \in 0 .. N - 1 : \A n \in Chain(nx, bk[b]) : ky[n] % N = b
  /\ \A n \in U : /\ ky[n] \in Keys
                  /\ n \in Chain(nx, bk[ky[n] % N])
                  /\ n \notin Chain(nx, nx[n])
  /\ \A m, n \in U : ky[m] = ky[n] => m = n

(* A key's bucket is a bucket: the mask keeps the index in the table.       *)
LEMMA BucketRange ==
  ASSUME NEW k \in Int, NEW N \in Nat \ {0}
  PROVE  k % N \in 0 .. N - 1
  OBVIOUS

(* Pushing an unused node on its key's bucket keeps the lists sound.        *)
LEMMA HeapPush ==
  ASSUME NEW N \in Nat \ {0}, NEW bk \in Links(N), NEW nx \in Links(N), NEW ky,
         NEW U \in SUBSET (0 .. N - 1), Heap(N, bk, nx, ky, U),
         NEW n \in 0 .. N - 1, n \notin U, NEW k \in Keys,
         \A m \in U : ky[m] # k,
         NEW bq \in Links(N), NEW nq \in Links(N), NEW kq,
         SameBut(bk, bq, k % N), bq[k % N] = n,
         SameBut(nx, nq, n), nq[n] = bk[k % N],
         \A m \in U : kq[m] = ky[m], kq[n] = k
  PROVE  Heap(N, bq, nq, kq, U \cup {n})
<1> DEFINE c == k % N
<1>1. c \in 0 .. N - 1
  BY KeysAssumption, BucketRange
<1>2. DOMAIN bk = 0 .. N - 1 /\ DOMAIN nx = 0 .. N - 1
  BY DEF Links
<1>3. \A b \in 0 .. N - 1 : bk[b] \in -1 .. N - 1
  BY DEF Links
<1>4. Chain(nq, bq[c]) = {n} \cup Chain(nx, bk[c])
  <2>1. n \notin Chain(nx, bk[c])
    BY <1>1 DEF Heap
  <2>. QED
    BY <2>1, <1>1, <1>3, ChainPush
<1>5. ASSUME NEW b \in 0 .. N - 1, b # c
      PROVE  Chain(nq, bq[b]) = Chain(nx, bk[b])
  <2>1. n \notin Chain(nx, bk[b]) /\ bq[b] = bk[b]
    BY <1>5, <1>2 DEF Heap, SameBut
  <2>. QED
    BY <2>1, <1>3, ChainExcept
<1>6. ASSUME NEW m \in U PROVE m \notin Chain(nq, nq[m])
  <2>1. m # n /\ nq[m] = nx[m] /\ m \in 0 .. N - 1
    BY <1>2 DEF SameBut
  <2>2. nx[m] \in -1 .. N - 1 /\ ky[m] % N \in 0 .. N - 1
    BY <2>1, KeysAssumption, BucketRange DEF Links, Heap
  <2>3. Chain(nx, nx[m]) \subseteq Chain(nx, bk[ky[m] % N])
    <3>1. nx[m] >= 0 => nx[m] \in Chain(nx, bk[ky[m] % N])
      BY <2>2, <1>3, ChainClosed DEF Heap
    <3>. QED
      BY <3>1, <2>2, <1>3, ChainSub
  <2>4. n \notin Chain(nx, nx[m])
    BY <2>2, <2>3 DEF Heap
  <2>5. Chain(nq, nx[m]) = Chain(nx, nx[m])
    BY <2>2, <2>4, ChainExcept
  <2>. QED
    BY <2>1, <2>5 DEF Heap
<1>7. n \notin Chain(nq, nq[n])
  <2>1. n \notin Chain(nx, bk[c])
    BY <1>1 DEF Heap
  <2>2. Chain(nq, bk[c]) = Chain(nx, bk[c])
    BY <2>1, <1>1, <1>3, ChainExcept
  <2>. QED
    BY <2>1, <2>2
<1>8. \A b \in 0 .. N - 1 : Chain(nq, bq[b]) \subseteq U \cup {n}
  BY <1>4, <1>5 DEF Heap
<1>9. \A b \in 0 .. N - 1 : \A m \in Chain(nq, bq[b]) : kq[m] % N = b
  <2>1. ASSUME NEW b \in 0 .. N - 1, NEW m \in Chain(nq, bq[b])
        PROVE  kq[m] % N = b
    <3>1. CASE m = n
      BY <3>1, <1>5 DEF Heap
    <3>2. CASE m # n
      <4>1. m \in Chain(nx, bk[b])
        BY <3>2, <1>4, <1>5
      <4>. QED
        BY <4>1 DEF Heap
    <3>. QED
      BY <3>1, <3>2
  <2>. QED
    BY <2>1
<1>10. ASSUME NEW m \in U \cup {n}
       PROVE  kq[m] \in Keys /\ m \in Chain(nq, bq[kq[m] % N])
  <2>1. CASE m = n
    BY <2>1, <1>4
  <2>2. CASE m \in U
    <3>1. ky[m] % N \in 0 .. N - 1
      BY <2>2, KeysAssumption, BucketRange DEF Heap
    <3>. QED
      BY <3>1, <2>2, <1>4, <1>5 DEF Heap
  <2>. QED
    BY <2>1, <2>2
<1>11. \A l, m \in U \cup {n} : kq[l] = kq[m] => l = m
  BY DEF Heap
<1>. QED
  BY <1>6, <1>7, <1>8, <1>9, <1>10, <1>11 DEF Heap

(* The nodes that hold a pair are the nodes on the buckets' lists.          *)
LEMMA HeapLive ==
  ASSUME NEW N \in Nat \ {0}, NEW bk \in Links(N), NEW nx \in Links(N), NEW ky,
         NEW U, Heap(N, bk, nx, ky, U)
  PROVE  UNION {Chain(nx, bk[b]) : b \in 0 .. N - 1} = U
<1>1. \A n \in U : ky[n] % N \in 0 .. N - 1
  BY KeysAssumption, BucketRange DEF Heap
<1>. QED
  BY <1>1 DEF Heap

(* What Remove does to the lists: take node n out of its bucket's list, and *)
(* let nq[n] be anything.                                                   *)
LEMMA HeapCut ==
  ASSUME NEW N \in Nat \ {0}, NEW bk \in Links(N), NEW nx \in Links(N), NEW ky,
         NEW U \in SUBSET (0 .. N - 1), Heap(N, bk, nx, ky, U),
         NEW n \in U, NEW bq \in Links(N), NEW nq \in Links(N), NEW kq,
         SameBut(bk, bq, ky[n] % N),
         bq[ky[n] % N] = IF bk[ky[n] % N] = n THEN nx[n] ELSE bk[ky[n] % N],
         \A m \in U : m # n => nq[m] = IF nx[m] = n THEN nx[n] ELSE nx[m],
         \A m \in U : m # n => kq[m] = ky[m]
  PROVE  Heap(N, bq, nq, kq, U \ {n})
<1> DEFINE c == ky[n] % N
<1>1. c \in 0 .. N - 1
  BY KeysAssumption, BucketRange DEF Heap
<1>2. DOMAIN bk = 0 .. N - 1 /\ DOMAIN nx = 0 .. N - 1
  BY DEF Links
<1>3. \A b \in 0 .. N - 1 : bk[b] \in -1 .. N - 1 /\ nx[b] \in -1 .. N - 1
  BY DEF Links
<1>4. n \in Chain(nx, bk[c]) /\ n \notin Chain(nx, nx[n])
  BY DEF Heap
\* the links of a list that starts after n, or that n is not on, stay
<1>5. ASSUME NEW s \in -1 .. N - 1, Chain(nx, s) \subseteq U
      PROVE  Chain(nq, s) \subseteq Chain(nx, s) \ {n} \/ s = n
  <2>1. SUFFICES ASSUME s # n
                 PROVE  Closed(nq, s, Chain(nx, s) \ {n})
    BY <1>2, <1>5, ChainClosed, ChainLeast DEF Links
  <2>2. s >= 0 => s \in Chain(nx, s) \ {n}
    BY <2>1, ChainClosed
  <2>3. ASSUME NEW m \in Chain(nx, s) \ {n}, nq[m] >= 0
        PROVE  nq[m] \in Chain(nx, s) \ {n}
    <3>1. nq[m] = IF nx[m] = n THEN nx[n] ELSE nx[m]
      BY <1>5, <2>3
    <3>2. CASE nx[m] = n
      <4>1. n \in Chain(nx, s)
        BY <3>2, <1>3, <1>5, ChainClosed
      <4>2. nx[n] # n
        BY <1>3, <1>4, ChainClosed
      <4>. QED
        BY <3>1, <3>2, <4>1, <4>2, <2>3, ChainClosed
    <3>3. CASE nx[m] # n
      BY <3>1, <3>3, <2>3, ChainClosed
    <3>. QED
      BY <3>2, <3>3
  <2>. QED
    BY <2>2, <2>3 DEF Closed
<1>6. ASSUME NEW b \in 0 .. N - 1, b # c
      PROVE  Chain(nq, bq[b]) = Chain(nx, bk[b])
  <2>1. bq[b] = bk[b]
    BY <1>6, <1>2 DEF SameBut
  <2>2. n \notin Chain(nx, bk[b])
    BY <1>6 DEF Heap
  <2>3. \A m \in Chain(nx, bk[b]) : nq[m] = nx[m]
    <3>1. ASSUME NEW m \in Chain(nx, bk[b]) PROVE nq[m] = nx[m]
      <4>1. m \in U /\ m # n
        BY <2>2, <1>6 DEF Heap
      <4>2. nx[m] # n
        BY <2>2, <1>3, ChainClosed
      <4>. QED
        BY <4>1, <4>2
    <3>. QED
      BY <3>1
  <2>. QED
    BY <2>1, <2>3, <1>3, ChainFrame
<1>7. Chain(nq, bq[c]) = Chain(nx, bk[c]) \ {n}
  <2>1. CASE bk[c] = n
    <3>1. bq[c] = nx[n] /\ nx[n] \in -1 .. N - 1
      BY <2>1, <1>3
    <3>2. Chain(nx, bk[c]) = {n} \cup Chain(nx, nx[n])
      BY <2>1, <1>1, <1>3, ChainUnfold
    <3>3. Chain(nx, nx[n]) \subseteq U
      BY <3>2, <1>1 DEF Heap
    <3>4. \A m \in Chain(nx, nx[n]) : nq[m] = nx[m]
      <4>1. ASSUME NEW m \in Chain(nx, nx[n]) PROVE nq[m] = nx[m]
        <5>1. m \in U /\ m # n
          BY <3>3, <1>4
        <5>2. nx[m] # n
          BY <1>3, <1>4, ChainClosed
        <5>. QED
          BY <5>1, <5>2
      <4>. QED
        BY <4>1
    <3>5. Chain(nq, nx[n]) = Chain(nx, nx[n])
      BY <3>1, <3>4, ChainFrame
    <3>. QED
      BY <3>1, <3>2, <3>5, <1>4
  <2>2. CASE bk[c] # n
    <3>1. Chain(nx, bk[c]) \subseteq U /\ bq[c] = bk[c]
      BY <2>2, <1>1 DEF Heap
    <3>2. \A m \in Chain(nx, bk[c]) :
            m # n => nq[m] = IF nx[m] = n THEN nx[n] ELSE nx[m]
      BY <3>1
    <3>3. ASSUME NEW s \in -1 .. N - 1, s = bk[c]
          PROVE  Chain(nq, s) = Chain(nx, s) \ {n}
      <4>1. n \in Chain(nx, s) /\ n # s
        BY <3>3, <2>2, <1>4
      <4>2. \A m \in Chain(nx, s) :
              m # n => nq[m] = IF nx[m] = n THEN nx[n] ELSE nx[m]
        BY <3>2, <3>3
      <4>3. n \notin Chain(nx, nx[n])
        BY <1>4
      <4> HIDE DEF c
      <4>. QED
        BY <4>1, <4>2, <4>3, ChainCut
    <3>. QED
      BY <3>1, <3>3, <1>1, <1>3
  <2>. QED
    BY <2>1, <2>2
<1>8. ASSUME NEW m \in U \ {n} PROVE m \notin Chain(nq, nq[m])
  <2>1. m \in 0 .. N - 1 /\ m \notin Chain(nx, nx[m])
    BY DEF Heap
  <2>2. ky[m] % N \in 0 .. N - 1 /\ m \in Chain(nx, bk[ky[m] % N])
    BY KeysAssumption, BucketRange DEF Heap
  <2>3. Chain(nx, nx[m]) \subseteq U
    <3>1. nx[m] >= 0 => nx[m] \in Chain(nx, bk[ky[m] % N])
      BY <2>2, <1>3, ChainClosed
    <3>2. Chain(nx, nx[m]) \subseteq Chain(nx, bk[ky[m] % N])
      BY <3>1, <2>1, <2>2, <1>3, ChainSub
    <3>. QED
      BY <3>2, <2>2 DEF Heap
  <2>4. CASE nx[m] = n
    <3>1. nq[m] = nx[n]
      BY <2>4
    <3>2. n \in Chain(nx, nx[m]) /\ Chain(nx, nx[n]) \subseteq Chain(nx, nx[m])
      BY <2>4, <1>3, ChainUnfold
    <3>3. nx[n] # n
      BY <1>3, <1>4, ChainClosed
    <3>4. Chain(nq, nx[n]) \subseteq Chain(nx, nx[n])
      BY <3>2, <3>3, <2>3, <1>3, <1>5
    <3>. QED
      BY <3>1, <3>2, <3>4, <2>1
  <2>5. CASE nx[m] # n
    <3>1. nq[m] = nx[m]
      BY <2>5
    <3>. QED
      BY <3>1, <2>1, <2>3, <2>5, <1>3, <1>5
  <2>. QED
    BY <2>4, <2>5
<1>9. \A b \in 0 .. N - 1 : Chain(nq, bq[b]) \subseteq U \ {n}
  <2>1. ASSUME NEW b \in 0 .. N - 1, b # c PROVE n \notin Chain(nx, bk[b])
    BY <2>1 DEF Heap
  <2>. QED
    BY <2>1, <1>6, <1>7 DEF Heap
<1>10. \A b \in 0 .. N - 1 : \A m \in Chain(nq, bq[b]) : kq[m] % N = b
  <2>1. ASSUME NEW b \in 0 .. N - 1, NEW m \in Chain(nq, bq[b])
        PROVE  kq[m] % N = b
    <3>1. m \in U \ {n} /\ m \in Chain(nx, bk[b])
      BY <1>6, <1>7, <1>9
    <3>. QED
      BY <3>1 DEF Heap
  <2>. QED
    BY <2>1
<1>11. ASSUME NEW m \in U \ {n}
       PROVE  kq[m] \in Keys /\ m \in Chain(nq, bq[kq[m] % N])
  <2>1. ky[m] % N \in 0 .. N - 1
    BY KeysAssumption, BucketRange DEF Heap
  <2>. QED
    BY <2>1, <1>6, <1>7 DEF Heap
<1>12. \A l, m \in U \ {n} : kq[l] = kq[m] => l = m
  BY DEF Heap
<1>. QED
  BY <1>8, <1>9, <1>10, <1>11, <1>12 DEF Heap

-----------------------------------------------------------------------------
(* The inductive invariant.  TableInv is about the table in use; it holds   *)
(* during a resize too, since the rehash loop changes nothing of the old    *)
(* table but its values.  RehashInv is about the half-built new table: it   *)
(* is a heap of its own, whose keys and the keys still to be copied are the *)
(* keys of the table, and the nodes copied and to be copied add up to count.*)
TableInv ==
  /\ Heap(size, buckets, next, key, Live)
  /\ Live \cap Free = {}
  /\ Index \subseteq Live \cup Free
  /\ \A n \in Free : n \notin Chain(next, next[n])
  /\ IsFiniteSet(Live) /\ count = Cardinality(Live)

FreshKey(k, ky, S) == \A n \in S : ky[n] # k

RehashInv ==
  pc = "rehash" =>
    /\ Heap(newLen, newBuckets, newNext, newKey, 0 .. i - 1)
    /\ oldNodeIndex >= 0 => oldNodeIndex \in Bucket(oldBucketIndex)
    /\ \A j \in 0 .. i - 1 : FreshKey(newKey[j], key, Todo)
    /\ IsFiniteSet(Todo) /\ i + Cardinality(Todo) = count
    /\ count < newLen
    /\ call.active => /\ FreshKey(call.key, key, Todo)
                      /\ FreshKey(call.key, newKey, 0 .. i - 1)

CallInv ==
  /\ pc = "idle" => ~call.active
  /\ pc = "append" => call.active /\ firstFree >= 0 /\ FreshKey(call.key, key, Live)

IInv == TypeOK /\ TableInv /\ RehashInv /\ CallInv

-----------------------------------------------------------------------------
(* A table with no pairs: its free list holds every node.                   *)
LEMMA EmptyTable ==
  ASSUME NEW N \in Nat \ {0}, NEW bk, NEW ky,
         bk = [b \in 0 .. N - 1 |-> -1]
  PROVE  /\ bk \in Links(N) /\ FreshNext(N) \in Links(N)
         /\ Heap(N, bk, FreshNext(N), ky, {})
         /\ Chain(FreshNext(N), 0) = 0 .. N - 1
         /\ \A n \in 0 .. N - 1 : n \notin Chain(FreshNext(N), FreshNext(N)[n])
<1> DEFINE nx == FreshNext(N)
<1>1. bk \in Links(N) /\ nx \in Links(N)
  BY DEF Links, FreshNext
<1>2. \A j \in 0 .. N - 1 : nx[j] = IF j = N - 1 THEN -1 ELSE j + 1
  BY DEF FreshNext
<1>3. \A b \in 0 .. N - 1 : Chain(nx, bk[b]) = {}
  BY <1>1, ChainUnfold
<1>4. Heap(N, bk, nx, ky, {})
  BY <1>3 DEF Heap
<1> HIDE DEF nx
<1>5. /\ Chain(nx, 0) = 0 .. N - 1
      /\ \A n \in 0 .. N - 1 : n \notin Chain(nx, nx[n])
  BY <1>1, <1>2, FreshChain
<1> USE DEF nx
<1>. QED
  BY <1>1, <1>4, <1>5

(* The table right after Init or ClearWithSize.                             *)
LEMMA EmptyTableInv ==
  ASSUME size \in Nat \ {0}, buckets = [b \in 0 .. size - 1 |-> -1],
         next = FreshNext(size), firstFree = 0, count = 0
  PROVE  TableInv
<1>1. /\ buckets \in Links(size) /\ next \in Links(size)
      /\ Heap(size, buckets, next, key, {})
      /\ Chain(next, 0) = 0 .. size - 1
      /\ \A n \in 0 .. size - 1 : n \notin Chain(next, next[n])
  BY EmptyTable
<1>2. Live = {}
  BY <1>1, HeapLive, SMTT(20) DEF Live, Bucket, Index
<1>. QED
  BY <1>1, <1>2, FS_EmptySet DEF TableInv, Free, Index

(* The table Int32Dict_Create makes satisfies the invariant.                *)
LEMMA InitInv == Init => IInv
<1> SUFFICES ASSUME Init PROVE IInv
  OBVIOUS
<1>1. TypeOK
  <2>1. Table(size, buckets, next, key, value)
    BY SizeAssumption DEF Init, Table, FreshNext
  <2>2. call \in [active : BOOLEAN, key : Keys \cup {0}, value : Values \cup {NULL},
                  ret : BOOLEAN] /\ ~call.active
    BY DEF Init, NoCall
  <2>. QED
    BY <2>1, <2>2, SizeAssumption DEF Init, TypeOK
<1>2. TableInv
  BY EmptyTableInv, SizeAssumption DEF Init
<1>3. RehashInv
  BY DEF Init, RehashInv
<1>4. CallInv
  BY DEF Init, CallInv, NoCall
<1>. QED
  BY <1>1, <1>2, <1>3, <1>4 DEF IInv

(* Link pushes the first free node on a bucket's list.                      *)
LEMMA LinkInv ==
  ASSUME TypeOK, TableInv, firstFree >= 0,
         NEW k \in Keys, NEW v \in Values \cup {NULL}, FreshKey(k, key, Live), Link(k, v)
  PROVE  /\ TableInv'
         /\ Table(size, buckets, next, key, value)'
         /\ firstFree' \in -1 .. size' - 1 /\ count' \in Nat
         /\ Live' = Live \cup {firstFree} /\ firstFree \notin Live
<1> DEFINE n == firstFree
           b == k % size
<1>1. /\ size \in Nat \ {0} /\ buckets \in Links(size) /\ next \in Links(size)
      /\ n \in 0 .. size - 1 /\ size' = size
  BY DEF TypeOK, Table, Links, Link
<1>2. b \in 0 .. size - 1
  BY <1>1, KeysAssumption, BucketRange
<1>3. buckets[b] \in -1 .. size - 1 /\ next[n] \in -1 .. size - 1
  BY <1>1, <1>2 DEF Links
<1>4. /\ buckets' = [buckets EXCEPT ![b] = n]
      /\ next' = [next EXCEPT ![n] = buckets[b]]
      /\ key' = [key EXCEPT ![n] = k]
      /\ value' = [value EXCEPT ![n] = v]
      /\ firstFree' = next[n] /\ count' = count + 1
  BY DEF Link
<1>5. buckets' \in Links(size) /\ next' \in Links(size)
  BY <1>1, <1>2, <1>3, <1>4 DEF Links
<1>6. Table(size, buckets, next, key, value)'
  BY <1>1, <1>4, <1>5 DEF Table, TypeOK, Links
<1>7. Free = {n} \cup Chain(next, next[n]) /\ n \in Free
  BY <1>1, ChainUnfold DEF Free
<1>8. n \notin Live /\ Live \subseteq 0 .. size - 1
  <2>1. n \notin Live
    BY <1>7 DEF TableInv
  <2>2. ASSUME NEW c \in 0 .. size - 1
        PROVE  Chain(next, buckets[c]) \subseteq 0 .. size - 1
    <3>1. buckets[c] \in -1 .. size - 1
      BY <1>1 DEF Links
    <3>. QED
      BY <3>1, <1>1, ChainClosed
  <2>. QED
    BY <2>1, <2>2 DEF Live, Bucket, Index
<1>9. Heap(size, buckets', next', key', Live \cup {n})
  <2>1. SameBut(buckets, buckets', b) /\ buckets'[b] = n
    BY <1>1, <1>2, <1>4 DEF SameBut, Links
  <2>2. SameBut(next, next', n) /\ next'[n] = buckets[b]
    BY <1>1, <1>4 DEF SameBut, Links
  <2>3. (\A m \in Live : key'[m] = key[m]) /\ key'[n] = k
    BY <1>1, <1>4, <1>8 DEF TypeOK, Table
  <2>4. Heap(size, buckets, next, key, Live) /\ \A m \in Live : key[m] # k
    BY DEF TableInv, FreshKey
  <2>. QED
    BY <1>1, <1>5, <1>8, <2>1, <2>2, <2>3, <2>4, HeapPush
<1>10. Live' = Live \cup {n}
  <2>1. UNION {Chain(next', buckets'[c]) : c \in 0 .. size - 1} = Live \cup {n}
    BY <1>1, <1>5, <1>9, HeapLive
  <2>. QED
    BY <2>1, <1>1 DEF Live, Bucket, Index
<1>11. SameBut(next, next', n)
  BY <1>1, <1>4 DEF SameBut, Links
<1>12. n \notin Chain(next, next[n])
  BY <1>7 DEF TableInv
<1>13. Free' = Free \ {n}
  <2>1. Chain(next', next[n]) = Chain(next, next[n])
    BY <1>1, <1>3, <1>5, <1>11, <1>12, ChainExcept
  <2>. QED
    BY <2>1, <1>4, <1>7, <1>12 DEF Free
<1>14. ASSUME NEW m \in Free' PROVE m \notin Chain(next', next'[m])
  <2>1. m \in Chain(next, next[n]) /\ m # n /\ m \in 0 .. size - 1
    BY <1>13, <1>7, <1>3, <1>1, ChainClosed
  <2>2. next'[m] = next[m] /\ next[m] \in -1 .. size - 1
    BY <2>1, <1>1, <1>11 DEF SameBut, Links
  <2>3. Chain(next, next[m]) \subseteq Chain(next, next[n])
    <3>1. next[m] >= 0 => next[m] \in Chain(next, next[n])
      BY <2>1, <1>1, <1>3, ChainClosed
    <3>. QED
      BY <3>1, <2>2, <1>1, <1>3, ChainSub
  <2>4. Chain(next', next[m]) = Chain(next, next[m])
    BY <2>2, <2>3, <1>12, <1>1, <1>5, <1>11, ChainExcept
  <2>. QED
    BY <2>1, <2>2, <2>4, <1>7 DEF TableInv
<1>15. IsFiniteSet(Live') /\ count' = Cardinality(Live') /\ count' \in Nat
  <2>1. IsFiniteSet(Live) /\ count = Cardinality(Live) /\ count \in Nat
    BY DEF TableInv, TypeOK
  <2>. QED
    BY <2>1, <1>4, <1>8, <1>10, FS_AddElement
<1>16. TableInv'
  <2>1. Live' \cap Free' = {}
    BY <1>10, <1>13 DEF TableInv
  <2>2. Index' \subseteq Live' \cup Free'
    BY <1>1, <1>10, <1>13 DEF TableInv, Index
  <2>3. Heap(size', buckets', next', key', Live')
    BY <1>1, <1>9, <1>10
  <2>. QED
    BY <2>1, <2>2, <2>3, <1>14, <1>15 DEF TableInv
<1>. QED
  BY <1>1, <1>3, <1>4, <1>6, <1>8, <1>10, <1>15, <1>16

(* The free list and the lists of the buckets before a call.                *)
LEMMA TableFacts ==
  ASSUME TypeOK, TableInv
  PROVE  /\ size \in Nat \ {0} /\ buckets \in Links(size) /\ next \in Links(size)
         /\ Live \subseteq 0 .. size - 1 /\ Free \subseteq 0 .. size - 1
         /\ \A b \in 0 .. size - 1 : buckets[b] \in -1 .. size - 1
         /\ \A n \in 0 .. size - 1 : next[n] \in -1 .. size - 1
         /\ firstFree \in -1 .. size - 1
<1>1. size \in Nat \ {0} /\ buckets \in Links(size) /\ next \in Links(size)
  BY DEF TypeOK, Table, Links
<1>2. /\ \A b \in 0 .. size - 1 : buckets[b] \in -1 .. size - 1
      /\ \A n \in 0 .. size - 1 : next[n] \in -1 .. size - 1
      /\ firstFree \in -1 .. size - 1
  BY <1>1 DEF Links, TypeOK
<1>3. Free \subseteq 0 .. size - 1
  BY <1>1, <1>2, ChainClosed DEF Free
<1>4. \A b \in 0 .. size - 1 : Chain(next, buckets[b]) \subseteq 0 .. size - 1
  BY <1>1, <1>2, ChainClosed
<1>. QED
  BY <1>1, <1>2, <1>3, <1>4 DEF Live, Bucket, Index

(* A search finds the one node that holds the key, if there is one.         *)
LEMMA SearchFinds ==
  ASSUME TypeOK, TableInv, NEW k \in Keys
  PROVE  /\ Matches(k) = {} => FreshKey(k, key, Live)
         /\ Matches(k) # {} => /\ Found(k) \in Live /\ key[Found(k)] = k
                               /\ Found(k) \in 0 .. size - 1
                               /\ Matches(k) = {Found(k)}
<1>1. Heap(size, buckets, next, key, Live)
  BY DEF TableInv
<1>2. k % size \in 0 .. size - 1
  BY TableFacts, KeysAssumption, BucketRange
<1>3. ASSUME Matches(k) = {} PROVE FreshKey(k, key, Live)
  BY <1>1, <1>3 DEF FreshKey, Heap, Matches, Bucket
<1>4. ASSUME NEW n \in Matches(k) PROVE n \in Live /\ key[n] = k
  BY <1>1, <1>2 DEF Matches, Bucket, Heap
<1>5. ASSUME Matches(k) # {}
      PROVE  Found(k) \in Matches(k) /\ Matches(k) = {Found(k)}
  <2>1. PICK n : n \in Matches(k)
    BY <1>5
  <2>2. Matches(k) = {n}
    BY <2>1, <1>1, <1>4 DEF Heap
  <2>3. n \in 0 .. size - 1
    BY <2>1, <1>4, TableFacts
  <2>4. Matches(k) \subseteq Chain(next, n)
    BY <2>2, <2>3, TableFacts, ChainClosed
  <2>. QED
    BY <2>2, <2>4 DEF Found
<1>. QED
  BY <1>3, <1>4, <1>5, TableFacts

(* Remove moves a live node to the free list.                               *)
Unlinked(n) ==
  /\ Unlink(n, key[n] % size)
  /\ key' = [key EXCEPT ![n] = 0]
  /\ value' = [value EXCEPT ![n] = NULL]
  /\ firstFree' = n
  /\ count' = count - 1
  /\ size' = size

(* Unlinking the node of a key keeps the table's lists and its count sound. *)
LEMMA RemoveInv ==
  ASSUME TypeOK, TableInv, NEW n \in Live, Unlinked(n)
  PROVE  /\ TableInv'
         /\ Table(size, buckets, next, key, value)'
         /\ firstFree' \in -1 .. size' - 1 /\ count' \in Nat
         /\ Live' = Live \ {n}
<1> DEFINE c == key[n] % size
<1>1. Heap(size, buckets, next, key, Live)
  BY DEF TableInv
<1>2. /\ n \in 0 .. size - 1 /\ key[n] \in Keys /\ c \in 0 .. size - 1
      /\ size \in Nat \ {0} /\ n \notin Free
  BY <1>1, TableFacts, KeysAssumption, BucketRange DEF Heap, TableInv
<1>3. /\ buckets' \in Links(size) /\ next' \in Links(size)
      /\ SameBut(buckets, buckets', c)
      /\ buckets'[c] = IF buckets[c] = n THEN next[n] ELSE buckets[c]
      /\ next'[n] = firstFree
      /\ \A m \in 0 .. size - 1 : m \notin Chain(next, buckets[c]) /\ m # n => next'[m] = next[m]
  BY <1>2, TableFacts DEF Unlinked, Unlink, Links, SameBut, Bucket
<1>4. ASSUME NEW m \in Live, m # n
      PROVE  next'[m] = IF next[m] = n THEN next[n] ELSE next[m]
  <2>1. m \in 0 .. size - 1 /\ m \notin Chain(next, next[m])
    BY <1>1, TableFacts DEF Heap
  <2>2. CASE buckets[c] = n
    \* no node precedes the first one
    <3>1. next[m] # n
      <4>1. SUFFICES ASSUME next[m] = n PROVE FALSE
        OBVIOUS
      <4>2. key[m] % size \in 0 .. size - 1 /\ m \in Chain(next, buckets[key[m] % size])
        BY <1>1, TableFacts, KeysAssumption, BucketRange DEF Heap
      <4>3. n \in Chain(next, buckets[key[m] % size])
        BY <4>1, <4>2, <1>2, TableFacts, ChainClosed
      <4>4. key[m] % size = c
        BY <4>2, <4>3, <1>1 DEF Heap
      <4>. QED
        BY <4>1, <4>2, <4>4, <2>1, <2>2
    <3>2. next' = [next EXCEPT ![n] = firstFree]
      BY <2>2 DEF Unlinked, Unlink
    <3>. QED
      BY <3>1, <3>2, <1>4, <2>1, TableFacts DEF Links
  <2>3. CASE buckets[c] # n
    <3>1. next'[m] = IF m \in Chain(next, buckets[c]) /\ next[m] = n THEN next[n]
                     ELSE next[m]
      BY <2>1, <2>3, <1>4, TableFacts DEF Unlinked, Unlink, Bucket, Links
    <3>2. next[m] = n => m \in Chain(next, buckets[c])
      <4>1. SUFFICES ASSUME next[m] = n PROVE m \in Chain(next, buckets[c])
        OBVIOUS
      <4>2. key[m] % size \in 0 .. size - 1 /\ m \in Chain(next, buckets[key[m] % size])
        BY <1>1, TableFacts, KeysAssumption, BucketRange DEF Heap
      <4>3. n \in Chain(next, buckets[key[m] % size])
        BY <4>1, <4>2, <1>2, TableFacts, ChainClosed
      <4>. QED
        BY <4>2, <4>3, <1>1 DEF Heap
    <3>. QED
      BY <3>1, <3>2
  <2>. QED
    BY <2>2, <2>3
<1>5. \A m \in Live : m # n => key'[m] = key[m]
  BY DEF Unlinked, TypeOK, Table
<1>6. Heap(size, buckets', next', key', Live \ {n})
  BY <1>1, <1>2, <1>3, <1>4, <1>5, TableFacts, HeapCut
<1>7. Live' = Live \ {n}
  <2>1. UNION {Chain(next', buckets'[b]) : b \in 0 .. size - 1} = Live \ {n}
    BY <1>2, <1>3, <1>6, HeapLive
  <2>. QED
    BY <2>1 DEF Live, Bucket, Index, Unlinked
\* the links of the free nodes stay
<1>8. ASSUME NEW m \in Free PROVE next'[m] = next[m] /\ m # n /\ m \in 0 .. size - 1
  <2>1. m \notin Live /\ m \in 0 .. size - 1
    BY TableFacts DEF TableInv
  <2>2. m \notin Chain(next, buckets[c])
    BY <2>1, <1>1, <1>2 DEF Heap
  <2>. QED
    BY <2>1, <2>2, <1>2, <1>3
<1>9. ASSUME NEW s \in -1 .. size - 1, Chain(next, s) \subseteq Free
      PROVE  Chain(next', s) = Chain(next, s)
  BY <1>8, <1>9, <1>3, TableFacts, ChainFrame
<1>10. Free' = Free \cup {n}
  <2>1. Chain(next', firstFree) = Free
    BY <1>9, TableFacts DEF Free
  <2>2. Chain(next', n) = {n} \cup Chain(next', firstFree)
    BY <1>2, <1>3, ChainUnfold
  <2>. QED
    BY <2>1, <2>2 DEF Free, Unlinked
<1>11. ASSUME NEW m \in Free' PROVE m \notin Chain(next', next'[m])
  <2>1. CASE m = n
    <3>1. Chain(next', firstFree) = Free
      BY <1>9, TableFacts DEF Free
    <3>. QED
      BY <2>1, <3>1, <1>2, <1>3
  <2>2. CASE m \in Free
    <3>1. next'[m] = next[m] /\ next[m] \in -1 .. size - 1
      BY <2>2, <1>8, TableFacts
    <3>2. next[m] >= 0 => next[m] \in Chain(next, firstFree)
      BY <2>2, TableFacts, ChainClosed DEF Free
    <3>3. Chain(next, next[m]) \subseteq Free
      BY <3>1, <3>2, TableFacts, ChainSub DEF Free
    <3>. QED
      BY <3>1, <3>3, <2>2, <1>9 DEF TableInv
  <2>. QED
    BY <2>1, <2>2, <1>10
<1>12. IsFiniteSet(Live') /\ count' = Cardinality(Live') /\ count' \in Nat
  <2>1. IsFiniteSet(Live) /\ count = Cardinality(Live) /\ count' = count - 1
    BY DEF TableInv, Unlinked
  <2>2. IsFiniteSet(Live') /\ Cardinality(Live') = count - 1
    BY <2>1, <1>7, FS_RemoveElement
  <2>. QED
    BY <2>1, <2>2, FS_CardinalityType
<1>13. Table(size, buckets, next, key, value)'
  BY <1>2, <1>3 DEF Unlinked, TypeOK, Table, Links
<1>14. TableInv'
  <2>1. size' = size
    BY DEF Unlinked
  <2>2. Live' \cap Free' = {} /\ Index' \subseteq Live' \cup Free'
    BY <2>1, <1>7, <1>10 DEF TableInv, Index
  <2>3. Heap(size', buckets', next', key', Live')
    BY <2>1, <1>6, <1>7
  <2>. QED
    BY <2>2, <2>3, <1>11, <1>12 DEF TableInv
<1>. QED
  BY <1>2, <1>7, <1>12, <1>13, <1>14 DEF Unlinked

-----------------------------------------------------------------------------
(* The resize.  At its start the loop has the whole table to visit.         *)
LEMMA StartTodo ==
  ASSUME NEW len, StartResize(len, buckets'), size' \in Nat \ {0}
  PROVE  Todo' = Live' /\ i' = 0 /\ pc' = "rehash"
<1>1. i' = 0 /\ oldBucketIndex' = 0 /\ oldNodeIndex' = buckets'[0] /\ pc' = "rehash"
  BY DEF StartResize
<1>2. 0 .. size' - 1 = {0} \cup (0 + 1 .. size' - 1)
  OBVIOUS
<1>. QED
  BY <1>1, <1>2 DEF Todo, Live, Bucket, Index

(* Then nothing is copied, and all is to be copied.                         *)
LEMMA StartResizeInv ==
  ASSUME TableInv', Table(size, buckets, next, key, value)',
         NEW len \in Nat \ {0}, StartResize(len, buckets'), count' < len,
         call'.active => FreshKey(call'.key, key', Live')
  PROVE  /\ RehashInv' /\ pc' = "rehash"
         /\ newLen' \in Nat /\ i' \in Nat
         /\ oldBucketIndex' \in 0 .. size' - 1 /\ oldNodeIndex' \in -1 .. size' - 1
         /\ Table(newLen, newBuckets, newNext, newKey, newValue)'
<1>1. /\ newLen' = len /\ i' = 0 /\ oldBucketIndex' = 0
      /\ oldNodeIndex' = buckets'[0] /\ pc' = "rehash"
      /\ newBuckets' = [b \in 0 .. len - 1 |-> -1]
      /\ newNext' = [n \in 0 .. len - 1 |-> 0]
      /\ newKey' = [n \in 0 .. len - 1 |-> 0]
      /\ newValue' = [n \in 0 .. len - 1 |-> NULL]
  BY DEF StartResize
<1>2. size' \in Nat \ {0} /\ buckets' \in Links(size') /\ next' \in Links(size')
  BY DEF Table, Links
<1>3. 0 \in 0 .. size' - 1 /\ buckets'[0] \in -1 .. size' - 1
  <2>1. \A N \in Nat \ {0} : 0 \in 0 .. N - 1
    OBVIOUS
  <2>2. 0 \in 0 .. size' - 1
    BY <2>1, <1>2
  <2>. QED
    BY <2>2 DEF Table
<1>4. Table(newLen, newBuckets, newNext, newKey, newValue)'
  BY <1>1 DEF Table
<1>5. Todo' = Live'
  BY <1>2, StartTodo
<1>6. 0 .. i' - 1 = {}
  BY <1>1
<1>7. Heap(newLen', newBuckets', newNext', newKey', {})
  <2>1. \A b \in 0 .. len - 1 : Chain(newNext', newBuckets'[b]) = {}
    <3>1. newNext' \in Links(len)
      BY <1>1 DEF Links
    <3>. QED
      BY <3>1, <1>1, ChainUnfold
  <2>. QED
    BY <2>1, <1>1 DEF Heap
<1>8. buckets'[0] >= 0 => buckets'[0] \in Chain(next', buckets'[0])
  BY <1>2, <1>3, ChainClosed
<1>9. RehashInv'
  <2>1. IsFiniteSet(Todo') /\ i' + Cardinality(Todo') = count'
    BY <1>1, <1>5, FS_CardinalityType DEF TableInv
  <2>2. oldNodeIndex' >= 0 => oldNodeIndex' \in Bucket(oldBucketIndex)'
    BY <1>1, <1>8 DEF Bucket
  <2>. QED
    BY <2>1, <2>2, <1>1, <1>5, <1>6, <1>7 DEF RehashInv, FreshKey
<1>. QED
  BY <1>1, <1>3, <1>4, <1>9

(* The old table's lists do not change while it is copied.                  *)
SameLists == UNCHANGED <<size, buckets, next, key, firstFree, count>>

(* A step that changes neither list, key nor count keeps the table sound.   *)
LEMMA SameListsInv ==
  ASSUME TableInv, SameLists
  PROVE  /\ TableInv' /\ Live' = Live
         /\ \A b : Bucket(b)' = Bucket(b)
  BY DEF TableInv, SameLists, Live, Free, Bucket, Index

(* Copying one node of the old heap to the new one keeps the invariant.     *)
LEMMA RehashNodeInv ==
  ASSUME IInv, RehashNode
  PROVE  /\ IInv'
         /\ oldNodeIndex \in Todo /\ oldNodeIndex \in 0 .. size - 1
         /\ Todo' = Todo \ {oldNodeIndex} /\ Todo \subseteq 0 .. size - 1
         /\ i \in 0 .. newLen - 1
<1> DEFINE on == oldNodeIndex
           b == key[on] % newLen
<1>1. pc = "rehash" /\ pc' = "rehash" /\ on >= 0 /\ SameLists
  BY DEF RehashNode, SameLists
<1>2. TypeOK /\ TableInv /\ RehashInv
  BY DEF IInv
<1>3. /\ Heap(newLen, newBuckets, newNext, newKey, 0 .. i - 1)
      /\ on \in Bucket(oldBucketIndex)
      /\ \A j \in 0 .. i - 1 : FreshKey(newKey[j], key, Todo)
      /\ IsFiniteSet(Todo) /\ i + Cardinality(Todo) = count
      /\ count < newLen
  BY <1>1, <1>2 DEF RehashInv
<1>4. /\ newLen \in Nat \ {0} /\ newBuckets \in Links(newLen) /\ newNext \in Links(newLen)
      /\ newKey \in [0 .. newLen - 1 -> Keys \cup {0}]
      /\ newValue \in [0 .. newLen - 1 -> Values \cup {NULL}]
      /\ i \in Nat /\ count \in Nat /\ oldBucketIndex \in 0 .. size - 1
  BY <1>1, <1>2 DEF TypeOK, Table, Links
<1>5. on \in Todo /\ on \in Live /\ on \in 0 .. size - 1
  <2>1. on \in Live
    BY <1>3, <1>4 DEF Live, Index
  <2>2. on \in 0 .. size - 1
    BY <2>1, <1>2, TableFacts
  <2>3. on \in Chain(next, on)
    BY <2>2, <1>2, TableFacts, ChainClosed
  <2>. QED
    BY <2>1, <2>2, <2>3 DEF Todo
<1>6. i < newLen /\ i \in 0 .. newLen - 1
  <2>1. Cardinality(Todo) \in Nat /\ Cardinality(Todo) # 0
    BY <1>3, <1>5, FS_CardinalityType, FS_EmptySet
  <2>. QED
    BY <2>1, <1>3, <1>4
<1>7. Todo' = Todo \ {on}
  <2>1. Chain(next, on) = {on} \cup Chain(next, next[on])
    BY <1>5, <1>2, TableFacts, ChainUnfold
  <2>2. on \notin Chain(next, next[on])
    BY <1>2, <1>5 DEF TableInv, Heap
  <2>3. ASSUME NEW c \in oldBucketIndex + 1 .. size - 1
        PROVE  on \notin Bucket(c)
    <3>1. c \in 0 .. size - 1 /\ c # oldBucketIndex
      BY <1>4
    <3>. QED
      BY <3>1, <1>2, <1>3, <1>4 DEF TableInv, Heap, Bucket
  <2>4. /\ next' = next /\ buckets' = buckets /\ size' = size
        /\ oldBucketIndex' = oldBucketIndex /\ oldNodeIndex' = next[on]
    BY DEF RehashNode
  <2>. QED
    BY <2>1, <2>2, <2>3, <2>4 DEF Todo, Bucket
<1>8. key[on] \in Keys /\ b \in 0 .. newLen - 1
  BY <1>2, <1>4, <1>5, KeysAssumption, BucketRange DEF TableInv, Heap
<1>9. /\ newBuckets' = [newBuckets EXCEPT ![b] = i]
      /\ newNext' = [newNext EXCEPT ![i] = newBuckets[b]]
      /\ newKey' = [newKey EXCEPT ![i] = key[on]]
      /\ newValue' = [newValue EXCEPT ![i] = value[on]]
      /\ i' = i + 1 /\ newLen' = newLen /\ call' = call
  BY DEF RehashNode
<1>10. newBuckets' \in Links(newLen) /\ newNext' \in Links(newLen)
  BY <1>4, <1>6, <1>8, <1>9 DEF Links
<1>11. 0 .. i' - 1 = (0 .. i - 1) \cup {i} /\ i \notin 0 .. i - 1
  BY <1>4, <1>9
<1>12. Heap(newLen', newBuckets', newNext', newKey', 0 .. i' - 1)
  <2>1. SameBut(newBuckets, newBuckets', b) /\ newBuckets'[b] = i
    BY <1>4, <1>8, <1>9 DEF SameBut, Links
  <2>2. SameBut(newNext, newNext', i) /\ newNext'[i] = newBuckets[b]
    BY <1>4, <1>6, <1>9 DEF SameBut, Links
  <2>3. (\A m \in 0 .. i - 1 : newKey'[m] = newKey[m]) /\ newKey'[i] = key[on]
    BY <1>4, <1>6, <1>9
  <2>4. \A m \in 0 .. i - 1 : newKey[m] # key[on]
    BY <1>3, <1>5 DEF FreshKey
  <2>5. 0 .. i - 1 \in SUBSET (0 .. newLen - 1)
    BY <1>4, <1>6
  <2>6. Heap(newLen, newBuckets', newNext', newKey', (0 .. i - 1) \cup {i})
    <3> DEFINE U == 0 .. i - 1
               k == key[on]
    <3>1. /\ newLen \in Nat \ {0} /\ newBuckets \in Links(newLen) /\ newNext \in Links(newLen)
          /\ U \in SUBSET (0 .. newLen - 1) /\ Heap(newLen, newBuckets, newNext, newKey, U)
          /\ i \in 0 .. newLen - 1 /\ i \notin U /\ k \in Keys /\ b = k % newLen
      BY <1>3, <1>4, <1>6, <1>8, <1>11, <2>5
    <3>2. /\ SameBut(newBuckets, newBuckets', k % newLen) /\ newBuckets'[k % newLen] = i
          /\ SameBut(newNext, newNext', i) /\ newNext'[i] = newBuckets[k % newLen]
      BY <2>1, <2>2, <3>1
    <3>3. (\A m \in U : newKey[m] # k) /\ (\A m \in U : newKey'[m] = newKey[m]) /\ newKey'[i] = k
      BY <2>3, <2>4
    <3> HIDE DEF U, k
    <3>4. Heap(newLen, newBuckets', newNext', newKey', U \cup {i})
      BY ONLY <1>10, <3>1, <3>2, <3>3, HeapPush
    <3>. QED
      BY <3>4 DEF U
  <2>. QED
    BY <2>6, <1>9, <1>11
<1>13. oldNodeIndex' = next[on] /\ next[on] \in -1 .. size - 1
       /\ (next[on] >= 0 => next[on] \in Bucket(oldBucketIndex))
  BY <1>2, <1>3, <1>4, <1>5, TableFacts, ChainClosed DEF RehashNode, Bucket
<1>14. TableInv'
  BY <1>1, <1>2, SameListsInv
<1>14a. Todo \subseteq Live
  <2> DEFINE s == buckets[oldBucketIndex]
             C == UNION {Bucket(c) : c \in oldBucketIndex + 1 .. size - 1}
  <2>1. size \in Nat /\ next \in Links(size) /\ s \in -1 .. size - 1 /\ on \in -1 .. size - 1
    BY <1>2, <1>4, <1>5, TableFacts
  <2>2. on \in Chain(next, s)
    BY <1>3 DEF Bucket
  <2> HIDE DEF s
  <2>3. Chain(next, on) \subseteq Chain(next, s)
    BY ONLY <2>1, <2>2, ChainSub
  <2>4. Chain(next, s) \subseteq Live
    BY <1>4 DEF Live, Bucket, Index, s
  <2>5. oldBucketIndex + 1 .. size - 1 \subseteq 0 .. size - 1
    BY <1>4, <2>1
  <2>6. C \subseteq Live
    BY <2>5 DEF Live, Index
  <2> HIDE DEF C
  <2>7. Todo = Chain(next, on) \cup C
    BY DEF Todo, C
  <2>. QED
    BY ONLY <2>3, <2>4, <2>6, <2>7
<1>15. RehashInv'
  <2>1. oldNodeIndex' >= 0 => oldNodeIndex' \in Bucket(oldBucketIndex)'
    BY <1>13 DEF RehashNode, Bucket
  <2>2. IsFiniteSet(Todo') /\ i' + Cardinality(Todo') = count'
    <3>1. IsFiniteSet(Todo') /\ Cardinality(Todo') = Cardinality(Todo) - 1
      BY <1>3, <1>5, <1>7, FS_RemoveElement
    <3>2. Cardinality(Todo) \in Nat /\ count' = count
      BY <1>3, FS_CardinalityType DEF RehashNode
    <3>. QED
      BY <3>1, <3>2, <1>3, <1>4, <1>9
  <2>3. key' = key /\ count' = count
    BY DEF RehashNode
  <2>4. ASSUME NEW j \in 0 .. i' - 1 PROVE FreshKey(newKey'[j], key', Todo')
    <3>1. CASE j = i
      \* the node just copied was the only one with its key
      <4>. QED
        BY <3>1, <1>14a, <2>3, <1>2, <1>4, <1>5, <1>6, <1>7, <1>9
        DEF FreshKey, TableInv, Heap
    <3>2. CASE j \in 0 .. i - 1
      BY <3>2, <2>3, <1>3, <1>4, <1>6, <1>7, <1>9 DEF FreshKey
    <3>. QED
      BY <3>1, <3>2, <1>11
  <2>5. call'.active => /\ FreshKey(call'.key, key', Todo')
                        /\ FreshKey(call'.key, newKey', 0 .. i' - 1)
    <3>1. SUFFICES ASSUME call.active
                   PROVE  /\ FreshKey(call.key, key', Todo')
                          /\ FreshKey(call.key, newKey', 0 .. i' - 1)
      BY <1>9
    <3>2. FreshKey(call.key, key, Todo) /\ FreshKey(call.key, newKey, 0 .. i - 1)
      BY <3>1, <1>1, <1>2 DEF RehashInv
    <3>. QED
      BY <3>2, <2>3, <1>4, <1>5, <1>6, <1>7, <1>9, <1>11 DEF FreshKey
  <2>. QED
    BY <2>1, <2>2, <2>3, <2>4, <2>5, <1>3, <1>9, <1>12 DEF RehashInv
<1>16. TypeOK'
  <2>1. Table(newLen, newBuckets, newNext, newKey, newValue)'
    BY <1>2, <1>4, <1>5, <1>6, <1>8, <1>9, <1>10 DEF Table, Links, TypeOK
  <2>2. Table(size, buckets, next, key, value)'
    BY <1>2 DEF RehashNode, TypeOK, Table
  <2>. QED
    BY <2>1, <2>2, <1>2, <1>4, <1>9, <1>13 DEF RehashNode, TypeOK
<1>17. CallInv'
  BY <1>1 DEF CallInv
<1>. QED
  BY <1>2, <1>5, <1>6, <1>7, <1>14, <1>15, <1>16, <1>17, <1>14a, TableFacts DEF IInv

(* Going on to the next old bucket keeps the invariant.                     *)
LEMMA RehashBucketInv ==
  ASSUME IInv, RehashBucket
  PROVE  IInv' /\ Todo' = Todo
<1>1. /\ pc = "rehash" /\ pc' = pc /\ oldNodeIndex < 0 /\ oldBucketIndex < size - 1
      /\ oldBucketIndex' = oldBucketIndex + 1
      /\ oldNodeIndex' = buckets[oldBucketIndex + 1]
      /\ UNCHANGED <<tableVars, ret, call, newLen, newBuckets, newNext,
                     newKey, newValue, i>>
      /\ SameLists
  BY DEF RehashBucket, SameLists, tableVars
<1>2. TypeOK /\ TableInv /\ RehashInv
  BY DEF IInv
<1> DEFINE c == oldBucketIndex + 1
<1>3. /\ size \in Nat \ {0} /\ oldBucketIndex \in 0 .. size - 1 /\ c \in 0 .. size - 1
      /\ buckets[c] \in -1 .. size - 1 /\ oldNodeIndex \in -1 .. size - 1
  BY <1>1, <1>2, TableFacts DEF TypeOK
<1>4. Todo' = Todo
  <2>1. Chain(next, oldNodeIndex) = {}
    BY <1>1, <1>2, <1>3, TableFacts, ChainUnfold
  <2>2. c .. size - 1 = {c} \cup (c + 1 .. size - 1)
    BY <1>3
  <2>3. next' = next /\ buckets' = buckets /\ size' = size
    BY <1>1 DEF SameLists
  <2>. QED
    BY <2>1, <2>2, <2>3, <1>1 DEF Todo, Bucket
<1>5. TableInv'
  BY <1>1, <1>2, SameListsInv
<1>6. buckets[c] >= 0 => buckets[c] \in Chain(next, buckets[c])
  BY <1>2, <1>3, TableFacts, ChainClosed
<1>7. RehashInv'
  BY <1>1, <1>2, <1>4, <1>6 DEF RehashInv, Bucket, SameLists
<1>8. TypeOK'
  <2>1. /\ oldBucketIndex' \in 0 .. size' - 1 /\ oldNodeIndex' \in -1 .. size' - 1
        /\ Table(newLen, newBuckets, newNext, newKey, newValue)'
    BY <1>1, <1>2, <1>3 DEF tableVars, TypeOK
  <2>. QED
    BY <2>1, <1>1, <1>2 DEF tableVars, TypeOK
<1>9. CallInv'
  BY <1>1 DEF CallInv
<1>. QED
  BY <1>4, <1>5, <1>7, <1>8, <1>9 DEF IInv

(* Installing the new heap keeps the invariant: nothing is left to copy.    *)
LEMMA FinishResizeInv ==
  ASSUME IInv, FinishResize
  PROVE  IInv' /\ Todo = {} /\ Live' = 0 .. i - 1 /\ i < newLen
<1>1. TypeOK /\ TableInv /\ RehashInv /\ pc = "rehash"
  BY DEF IInv, FinishResize
<1>2. /\ newLen \in Nat \ {0} /\ newBuckets \in Links(newLen) /\ newNext \in Links(newLen)
      /\ newKey \in [0 .. newLen - 1 -> Keys \cup {0}]
      /\ newValue \in [0 .. newLen - 1 -> Values \cup {NULL}]
      /\ i \in Nat
  BY <1>1 DEF TypeOK, Table, Links
<1>3. Todo = {}
  <2>1. oldBucketIndex = size - 1 /\ oldNodeIndex = -1 /\ size \in Nat
    BY <1>1 DEF FinishResize, TypeOK, Table
  <2>2. Chain(next, oldNodeIndex) = {}
    BY <1>1, <2>1, TableFacts, ChainUnfold
  <2>. QED
    BY <2>1, <2>2 DEF Todo
<1>4. /\ Heap(newLen, newBuckets, newNext, newKey, 0 .. i - 1)
      /\ i = count /\ i < newLen
  <2>1. Cardinality(Todo) = 0
    BY <1>3, FS_EmptySet
  <2>. QED
    BY <2>1, <1>1, <1>2 DEF RehashInv
<1>5. /\ size' = newLen /\ buckets' = newBuckets /\ firstFree' = i /\ count' = i
      /\ next' = [n \in 0 .. newLen - 1 |->
                    IF n < i THEN newNext[n] ELSE FreshNext(newLen)[n]]
      /\ key' = [n \in 0 .. newLen - 1 |-> IF n < i THEN newKey[n] ELSE 0]
      /\ value' = [n \in 0 .. newLen - 1 |-> IF n < i THEN newValue[n] ELSE NULL]
  BY <1>4 DEF FinishResize
<1>6. next' \in Links(newLen)
  BY <1>2, <1>5 DEF Links, FreshNext
<1>7. \A j \in i .. newLen - 1 : next'[j] = IF j = newLen - 1 THEN -1 ELSE j + 1
  BY <1>2, <1>5 DEF FreshNext
<1>8. /\ Chain(next', i) = i .. newLen - 1
      /\ \A j \in i .. newLen - 1 : j \notin Chain(next', next'[j])
  BY <1>2, <1>4, <1>6, <1>7, FreshChain
\* the new lists hold copied nodes only, whose links stay
<1>9. ASSUME NEW s \in -1 .. newLen - 1, Chain(newNext, s) \subseteq 0 .. i - 1
      PROVE  Chain(next', s) = Chain(newNext, s)
  <2>1. \A n \in Chain(newNext, s) : next'[n] = newNext[n]
    BY <1>2, <1>4, <1>5, <1>9
  <2>. QED
    BY <2>1, <1>2, <1>6, ChainFrame
<1>10. \A b \in 0 .. newLen - 1 : Chain(next', newBuckets[b]) = Chain(newNext, newBuckets[b])
  <2>1. \A b \in 0 .. newLen - 1 : newBuckets[b] \in -1 .. newLen - 1
    BY <1>2 DEF Links
  <2>. QED
    BY <2>1, <1>4, <1>9 DEF Heap
<1>11. ASSUME NEW n \in 0 .. i - 1 PROVE n \notin Chain(next', next'[n])
  <2>0. n \in 0 .. newLen - 1 /\ n < i
    BY <1>2, <1>4
  <2>1. /\ next'[n] = newNext[n] /\ newNext[n] \in -1 .. newLen - 1
        /\ newKey[n] % newLen \in 0 .. newLen - 1
    <3>1. next'[n] = newNext[n] /\ newNext[n] \in -1 .. newLen - 1
      BY <2>0, <1>2, <1>5 DEF Links
    <3>2. newKey[n] \in Int
      BY <1>4, KeysAssumption DEF Heap
    <3>. QED
      BY <3>1, <3>2, <1>2, BucketRange
  <2>2. newBuckets[newKey[n] % newLen] \in -1 .. newLen - 1
    BY <2>1, <1>2 DEF Links
  <2>3. newNext[n] >= 0 => newNext[n] \in Chain(newNext, newBuckets[newKey[n] % newLen])
    BY <2>1, <2>2, <1>2, <1>4, ChainClosed DEF Heap
  <2>4. Chain(newNext, newNext[n]) \subseteq Chain(newNext, newBuckets[newKey[n] % newLen])
    BY <2>1, <2>2, <2>3, <1>2, ChainSub
  <2>5. Chain(newNext, newNext[n]) \subseteq 0 .. i - 1
    BY <2>1, <2>4, <1>4 DEF Heap
  <2>. QED
    BY <2>1, <2>5, <1>4, <1>9 DEF Heap
<1>12. Heap(size', buckets', next', key', 0 .. i - 1)
  <2>1. ASSUME NEW n \in 0 .. i - 1
        PROVE  key'[n] = newKey[n] /\ newKey[n] % newLen \in 0 .. newLen - 1
    <3>1. n \in 0 .. newLen - 1 /\ n < i
      BY <1>2, <1>4
    <3>2. newKey[n] \in Int
      BY <1>4, KeysAssumption DEF Heap
    <3>. QED
      BY <3>1, <3>2, <1>2, <1>5, BucketRange
  <2>2. \A b \in 0 .. newLen - 1 : Chain(next', newBuckets[b]) \subseteq 0 .. i - 1
    BY <1>4, <1>10 DEF Heap
  <2>3. \A b \in 0 .. newLen - 1 : \A n \in Chain(next', newBuckets[b]) : key'[n] % newLen = b
    <3>1. ASSUME NEW b \in 0 .. newLen - 1, NEW n \in Chain(next', newBuckets[b])
          PROVE  key'[n] % newLen = b
      <4>1. n \in Chain(newNext, newBuckets[b]) /\ n \in 0 .. i - 1
        BY <2>2, <1>10
      <4>. QED
        BY <4>1, <2>1, <1>4 DEF Heap
    <3>. QED
      BY <3>1
  <2>4. \A n \in 0 .. i - 1 : key'[n] \in Keys /\ n \in Chain(next', newBuckets[key'[n] % newLen])
    BY <2>1, <1>4, <1>10 DEF Heap
  <2>5. \A m, n \in 0 .. i - 1 : key'[m] = key'[n] => m = n
    BY <2>1, <1>4 DEF Heap
  <2>. QED
    BY <2>2, <2>3, <2>4, <2>5, <1>5, <1>11 DEF Heap
<1>13. Live' = 0 .. i - 1
  <2>1. Heap(newLen, newBuckets, next', key', 0 .. i - 1)
    BY <1>5, <1>12
  <2>2. UNION {Chain(next', newBuckets[b]) : b \in 0 .. newLen - 1} = 0 .. i - 1
    BY <2>1, <1>2, <1>6, HeapLive
  <2>. QED
    BY <2>2, <1>5 DEF Live, Bucket, Index
<1>14. TableInv'
  <2>1. Free' = i .. newLen - 1
    BY <1>5, <1>8 DEF Free
  <2>2. IsFiniteSet(0 .. i - 1) /\ Cardinality(0 .. i - 1) = i
    <3>1. i - 1 \in Int /\ 0 \in Int
      BY <1>2
    <3>2. /\ IsFiniteSet(0 .. i - 1)
          /\ Cardinality(0 .. i - 1) = IF 0 > i - 1 THEN 0 ELSE (i - 1) - 0 + 1
      BY <3>1, FS_Interval
    <3>. QED
      BY <3>2, <1>2
  <2>3. Live' \cap Free' = {}
    BY <2>1, <1>2, <1>13
  <2>4. Index' \subseteq Live' \cup Free'
    BY <2>1, <1>2, <1>4, <1>5, <1>13 DEF Index
  <2>. QED
    BY <2>1, <2>2, <2>3, <2>4, <1>5, <1>8, <1>12, <1>13 DEF TableInv
<1>15. TypeOK'
  <2>1. Table(size, buckets, next, key, value)'
    BY <1>2, <1>5, <1>6 DEF Table, Links
  <2>2. /\ newLen' = 0 /\ i' = 0 /\ oldBucketIndex' = 0 /\ oldNodeIndex' = -1
        /\ pc' \in {"idle", "append"} /\ ret' = ret /\ call' = call
    BY DEF FinishResize
  <2>. QED
    BY <2>1, <2>2, <1>1, <1>2, <1>4, <1>5 DEF TypeOK
<1>16. CallInv'
  <2>1. /\ pc' = IF call.active THEN "append" ELSE "idle"
        /\ call' = call
    BY DEF FinishResize
  <2>2. call.active => FreshKey(call.key, key', Live')
    <3>1. call.active => FreshKey(call.key, newKey, 0 .. i - 1)
      BY <1>1 DEF RehashInv
    <3>. QED
      BY <3>1, <1>2, <1>4, <1>5, <1>13 DEF FreshKey
  <2>. QED
    BY <2>1, <2>2, <1>2, <1>5 DEF CallInv
<1>17. RehashInv'
  BY DEF RehashInv, FinishResize
<1>. QED
  BY <1>3, <1>4, <1>13, <1>14, <1>15, <1>16, <1>17 DEF IInv

-----------------------------------------------------------------------------
(* The Append that had to resize links its node: there is room now.         *)
LEMMA FinishAppendInv ==
  ASSUME IInv, FinishAppend
  PROVE  IInv'
<1>1. /\ TypeOK /\ TableInv /\ pc = "append" /\ call.active /\ firstFree >= 0
      /\ FreshKey(call.key, key, Live) /\ Link(call.key, call.value)
  BY DEF IInv, CallInv, FinishAppend
<1>2. call.key \in Keys /\ call.value \in Values \cup {NULL} /\ call.ret \in BOOLEAN
  BY <1>1 DEF TypeOK
<1>3. /\ TableInv' /\ Table(size, buckets, next, key, value)'
      /\ firstFree' \in -1 .. size' - 1 /\ count' \in Nat
  BY <1>1, <1>2, LinkInv
<1>4. /\ pc' = "idle" /\ call' = NoCall /\ ret' = call.ret /\ size' = size
      /\ UNCHANGED resizeVars
  BY DEF FinishAppend, Link
<1>5. TypeOK'
  <2>1. NoCall \in [active : BOOLEAN, key : Keys \cup {0}, value : Values \cup {NULL},
                    ret : BOOLEAN] /\ ~NoCall.active
    BY DEF NoCall
  <2>. QED
    BY <1>1, <1>2, <1>3, <1>4, <2>1 DEF TypeOK, resizeVars
<1>6. RehashInv' /\ CallInv'
  BY <1>4 DEF RehashInv, CallInv, NoCall
<1>. QED
  BY <1>3, <1>5, <1>6 DEF IInv

(* Append, called when no node holds the key, links a node or starts a      *)
(* resize to twice the size, which has room: count is at most size.         *)
LEMMA AppendInv ==
  ASSUME IInv, pc = "idle", NEW k \in Keys, NEW v \in Values, NEW r \in BOOLEAN,
         Matches(k) = {}, Append(k, v, r)
  PROVE  IInv'
<1>1. TypeOK /\ TableInv /\ ~call.active /\ FreshKey(k, key, Live)
  BY SearchFinds DEF IInv, CallInv
<1>2. CASE firstFree >= 0
  <2>1. Link(k, v) /\ ret' = r /\ UNCHANGED <<pc, call, resizeVars>> /\ size' = size
    BY <1>1, <1>2 DEF Append, Link, TypeOK
  <2>2. /\ TableInv' /\ Table(size, buckets, next, key, value)'
        /\ firstFree' \in -1 .. size' - 1 /\ count' \in Nat
    BY <1>1, <1>2, <2>1, LinkInv
  <2>3. TypeOK'
    BY <1>1, <2>1, <2>2 DEF TypeOK, resizeVars
  <2>4. RehashInv' /\ CallInv'
    BY <1>1, <2>1 DEF RehashInv, CallInv
  <2>. QED
    BY <2>2, <2>3, <2>4 DEF IInv
<1>3. CASE firstFree < 0
  <2>1. /\ StartResize(size * 2, buckets)
        /\ call' = [active |-> TRUE, key |-> k, value |-> v, ret |-> r]
        /\ UNCHANGED <<tableVars, ret>>
    BY <1>1, <1>3 DEF Append, TypeOK
  <2>2. size \in Nat \ {0} /\ size * 2 \in Nat \ {0}
    BY <1>1 DEF TypeOK, Table
  <2>3. SameLists /\ buckets' = buckets
    BY <2>1 DEF SameLists, tableVars
  <2>4. TableInv' /\ Live' = Live
    BY <1>1, <2>3, SameListsInv
  <2>5. Table(size, buckets, next, key, value)'
    BY <1>1, <2>1 DEF tableVars, TypeOK
  <2>6. count' < size * 2
    <3>1. IsFiniteSet(0 .. size - 1) /\ Cardinality(0 .. size - 1) = size
      <4>1. size - 1 \in Int /\ 0 \in Int
        BY <2>2
      <4>2. /\ IsFiniteSet(0 .. size - 1)
            /\ Cardinality(0 .. size - 1) = IF 0 > size - 1 THEN 0 ELSE (size - 1) - 0 + 1
        BY <4>1, FS_Interval
      <4>. QED
        BY <4>2, <2>2
    <3>2. Cardinality(Live) <= size
      BY <1>1, <3>1, TableFacts, FS_Subset
    <3>3. count' = Cardinality(Live) /\ count \in Nat /\ count' = count
      BY <1>1, <2>3 DEF TableInv, SameLists, TypeOK
    <3>. QED
      BY <3>2, <3>3, <2>2
  <2>7. call'.active => FreshKey(call'.key, key', Live')
    BY <1>1, <2>1, <2>3, <2>4 DEF SameLists
  <2>8. /\ RehashInv' /\ pc' = "rehash"
        /\ newLen' \in Nat /\ i' \in Nat
        /\ oldBucketIndex' \in 0 .. size' - 1 /\ oldNodeIndex' \in -1 .. size' - 1
        /\ Table(newLen, newBuckets, newNext, newKey, newValue)'
    BY <2>1, <2>2, <2>3, <2>4, <2>5, <2>6, <2>7, StartResizeInv
  <2>9. /\ call' \in [active : BOOLEAN, key : Keys \cup {0}, value : Values \cup {NULL},
                      ret : BOOLEAN]
        /\ call'.key \in Keys /\ call'.value \in Values
    BY <2>1
  <2>10. TypeOK'
    BY <1>1, <2>1, <2>5, <2>8, <2>9 DEF TypeOK, tableVars
  <2>11. CallInv'
    BY <2>8 DEF CallInv
  <2>. QED
    BY <2>4, <2>8, <2>10, <2>11 DEF IInv
<1>. QED
  BY <1>1, <1>2, <1>3 DEF TypeOK

(* Calls that only store a value or only return one.                        *)
LEMMA ReturnInv ==
  ASSUME IInv, NEW r \in BOOLEAN \cup Values \cup {NULL}, Return(r)
  PROVE  IInv'
<1>1. SameLists /\ UNCHANGED <<tableVars, pc, call, resizeVars>> /\ ret' = r
  BY DEF Return, SameLists, tableVars
<1>2. TableInv'
  BY <1>1, SameListsInv DEF IInv
<1>3. TypeOK'
  BY <1>1 DEF IInv, TypeOK, tableVars, resizeVars
<1>4. RehashInv' /\ CallInv'
  BY <1>1 DEF IInv, RehashInv, CallInv, tableVars, resizeVars, Todo, Bucket, Live, Index
<1>. QED
  BY <1>2, <1>3, <1>4 DEF IInv

(* Overwriting the value of a node keeps the invariant.                     *)
LEMMA StoreInv ==
  ASSUME IInv, pc = "idle", NEW n \in 0 .. size - 1, NEW v \in Values,
         Store(n, v), ret' = TRUE
  PROVE  IInv'
<1>1. SameLists /\ UNCHANGED <<pc, call, resizeVars>> /\ value' = [value EXCEPT ![n] = v]
  BY DEF Store, SameLists
<1>2. TableInv'
  BY <1>1, SameListsInv DEF IInv
<1>3. TypeOK'
  <2>1. Table(size, buckets, next, key, value)'
    BY <1>1 DEF IInv, TypeOK, Table, SameLists
  <2>. QED
    BY <2>1, <1>1 DEF IInv, TypeOK, resizeVars, SameLists
<1>4. RehashInv' /\ CallInv'
  BY <1>1 DEF IInv, RehashInv, CallInv
<1>. QED
  BY <1>2, <1>3, <1>4 DEF IInv

(* Remove, and the shrinking it may start: at most a quarter of the nodes   *)
(* hold pairs then, so half the nodes have room for them and one more.      *)
LEMMA RemoveCallInv ==
  ASSUME IInv, NEW k \in Keys, Remove(k)
  PROVE  IInv'
<1>1. TypeOK /\ TableInv /\ pc = "idle" /\ ~call.active
  BY DEF IInv, Remove, CallInv
<1>2. CASE Matches(k) = {}
  BY <1>2, ReturnInv DEF Remove
<1>3. CASE Matches(k) # {}
  <2> DEFINE n == Found(k)
  <2>1. n \in Live /\ key[n] = k /\ n \in 0 .. size - 1
    BY <1>1, <1>3, SearchFinds
  <2>2. /\ Unlinked(n) /\ ret' = TRUE /\ call' = call
        /\ IF Sparse(count - 1) THEN StartResize(size \div 2, buckets')
                                ELSE UNCHANGED <<pc, resizeVars>>
    BY <1>3, <2>1 DEF Remove, Unlinked
  <2>3. /\ TableInv' /\ Table(size, buckets, next, key, value)'
        /\ firstFree' \in -1 .. size' - 1 /\ count' \in Nat
        /\ size' = size /\ count' = count - 1
    BY <1>1, <2>1, <2>2, RemoveInv DEF Unlinked
  <2>4. CASE ~Sparse(count - 1)
    <3>1. TypeOK'
      BY <1>1, <2>2, <2>3, <2>4 DEF TypeOK, resizeVars
    <3>2. RehashInv' /\ CallInv'
      BY <1>1, <2>2, <2>4 DEF RehashInv, CallInv
    <3>. QED
      BY <2>3, <3>1, <3>2 DEF IInv
  <2>5. CASE Sparse(count - 1)
    <3>1. /\ size \in Nat \ {0} /\ MinSize \in Nat \ {0} /\ count \in Nat
          /\ count - 1 <= size \div 4 /\ size > MinSize
      BY <1>1, <2>5, SizeAssumption DEF Sparse, TypeOK, Table
    <3>2. size \div 2 \in Nat \ {0} /\ count - 1 < size \div 2
      BY <3>1
    <3>3. StartResize(size \div 2, buckets') /\ ~call'.active
      BY <1>1, <2>2, <2>5
    <3>4. /\ RehashInv' /\ pc' = "rehash"
          /\ newLen' \in Nat /\ i' \in Nat
          /\ oldBucketIndex' \in 0 .. size' - 1 /\ oldNodeIndex' \in -1 .. size' - 1
          /\ Table(newLen, newBuckets, newNext, newKey, newValue)'
      BY <2>3, <3>2, <3>3, StartResizeInv
    <3>5. TypeOK'
      BY <1>1, <2>2, <2>3, <3>4 DEF TypeOK
    <3>6. CallInv'
      BY <3>4 DEF CallInv
    <3>. QED
      BY <2>3, <3>4, <3>5, <3>6 DEF IInv
  <2>. QED
    BY <2>4, <2>5
<1>. QED
  BY <1>2, <1>3

(* ClearWithSize builds a table that satisfies the invariant.               *)
LEMMA ClearInv ==
  ASSUME IInv, NEW n \in ClearSizes, ClearWithSize(n)
  PROVE  IInv' /\ Live' = {}
<1>1. /\ n \in Nat \ {0} /\ size' = n /\ buckets' = [b \in 0 .. n - 1 |-> -1]
      /\ next' = FreshNext(n) /\ firstFree' = 0 /\ count' = 0 /\ ret' = TRUE
      /\ key' = [m \in 0 .. n - 1 |-> 0] /\ value' = [m \in 0 .. n - 1 |-> NULL]
      /\ pc = "idle" /\ UNCHANGED <<pc, call, resizeVars>>
  BY SizeAssumption DEF ClearWithSize
<1>2. /\ buckets' \in Links(n) /\ next' \in Links(n)
      /\ Heap(n, buckets', next', key', {})
      /\ Chain(next', 0) = 0 .. n - 1
      /\ \A m \in 0 .. n - 1 : m \notin Chain(next', next'[m])
  BY <1>1, EmptyTable
<1>3. Live' = {}
  <2>1. UNION {Chain(next', buckets'[b]) : b \in 0 .. n - 1} = {}
    BY <1>1, <1>2, HeapLive, SMTT(20)
  <2>. QED
    BY <2>1, <1>1 DEF Live, Bucket, Index
<1>4. TableInv'
  <2>1. Free' = 0 .. n - 1
    BY <1>1, <1>2 DEF Free
  <2>. QED
    BY <2>1, <1>1, <1>2, <1>3, FS_EmptySet DEF TableInv, Index
<1>5. TypeOK'
  <2>1. Table(size, buckets, next, key, value)'
    BY <1>1, <1>2 DEF Table, Links
  <2>2. firstFree' \in -1 .. size' - 1
    BY <1>1
  <2>. QED
    BY <2>1, <2>2, <1>1 DEF IInv, TypeOK, resizeVars
<1>6. RehashInv' /\ CallInv'
  BY <1>1 DEF IInv, RehashInv, CallInv
<1>. QED
  BY <1>3, <1>4, <1>5, <1>6 DEF IInv

(* A clone is a copy of the whole table, since every node is on a list.     *)
LEMMA CloneInv ==
  ASSUME IInv, Clone
  PROVE  /\ IInv'
         /\ UNCHANGED tableVars
<1>1. TypeOK /\ TableInv
  BY DEF IInv
<1>2. /\ \A n \in Index : n \in Live \cup Free
      /\ UNCHANGED <<size, buckets, firstFree, count, ret, pc, call, resizeVars>>
      /\ next' = [n \in Index |-> IF n \in Live \cup Free THEN next[n] ELSE 0]
      /\ key' = [n \in Index |-> IF n \in Live \cup Free THEN key[n] ELSE 0]
      /\ value' = [n \in Index |-> IF n \in Live \cup Free THEN value[n] ELSE NULL]
  BY <1>1 DEF Clone, TableInv
<1>3. next' = [n \in Index |-> next[n]] /\ key' = [n \in Index |-> key[n]]
      /\ value' = [n \in Index |-> value[n]]
  BY <1>2
<1>4. next' = next /\ key' = key /\ value' = value
  <2>1. /\ next = [n \in Index |-> next[n]] /\ key = [n \in Index |-> key[n]]
        /\ value = [n \in Index |-> value[n]]
    BY <1>1 DEF TypeOK, Table, Index
  <2>. QED
    BY <1>3, <2>1
<1>5. UNCHANGED tableVars /\ Return(ret)
  BY <1>2, <1>4 DEF tableVars, Return
<1>6. ret \in BOOLEAN \cup Values \cup {NULL}
  BY <1>1 DEF TypeOK
<1>. QED
  BY <1>5, <1>6, ReturnInv

-----------------------------------------------------------------------------
(* The invariant is inductive: one step per operation.                      *)
LEMMA NextInv ==
  ASSUME IInv, [Next]_vars
  PROVE  IInv'
<1>1. ASSUME NEW k \in Keys, NEW v \in Values, Add(k, v) PROVE IInv'
  <2>1. pc = "idle"
    BY <1>1 DEF Add
  <2>2. CASE Matches(k) # {}
    BY <2>2, <1>1, ReturnInv DEF Add
  <2>3. CASE Matches(k) = {}
    BY <2>1, <2>3, <1>1, AppendInv DEF Add
  <2>. QED
    BY <2>2, <2>3
<1>2. ASSUME NEW k \in Keys, NEW v \in Values, SetValue(k, v) PROVE IInv'
  <2>1. pc = "idle" /\ TypeOK /\ TableInv
    BY <1>2 DEF SetValue, IInv
  <2>2. CASE Matches(k) # {}
    BY <2>1, <2>2, <1>2, SearchFinds, StoreInv DEF SetValue
  <2>3. CASE Matches(k) = {}
    BY <2>1, <2>3, <1>2, AppendInv DEF SetValue
  <2>. QED
    BY <2>2, <2>3
<1>3. ASSUME NEW k \in Keys, NEW v \in Values, ReplaceValue(k, v) PROVE IInv'
  <2>1. pc = "idle" /\ TypeOK /\ TableInv
    BY <1>3 DEF ReplaceValue, IInv
  <2>2. CASE Matches(k) # {}
    BY <2>1, <2>2, <1>3, SearchFinds, StoreInv DEF ReplaceValue
  <2>3. CASE Matches(k) = {}
    BY <2>3, <1>3, ReturnInv DEF ReplaceValue
  <2>. QED
    BY <2>2, <2>3
<1>4. ASSUME NEW k \in Keys, GetValue(k) PROVE IInv'
  <2>1. TypeOK /\ TableInv
    BY DEF IInv
  <2>2. Matches(k) # {} => value[Found(k)] \in Values \cup {NULL}
    BY <2>1, SearchFinds DEF TypeOK, Table
  <2>. QED
    BY <2>2, <1>4, ReturnInv DEF GetValue
<1>5. ASSUME UNCHANGED vars PROVE IInv'
  <2>1. Return(ret) /\ ret \in BOOLEAN \cup Values \cup {NULL}
    BY <1>5 DEF vars, Return, IInv, TypeOK
  <2>. QED
    BY <2>1, ReturnInv
<1>. QED
  BY <1>1, <1>2, <1>3, <1>4, <1>5, RemoveCallInv, RehashNodeInv, RehashBucketInv,
     FinishResizeInv, FinishAppendInv, ClearInv, CloneInv DEF Next

(* The invariant holds in every state of every behaviour.                   *)
LEMMA Inductive == Spec => []IInv
<1>1. Init => IInv
  BY InitInv
<1>2. IInv /\ [Next]_vars => IInv'
  BY NextInv
<1>. QED
  BY <1>1, <1>2, PTL DEF Spec

(* Type correctness for every table: in particular no link, in the table or *)
(* in the half-built one, points outside its heap.                          *)
THEOREM TypeCorrect == Spec => []TypeOK
<1>1. IInv => TypeOK
  BY DEF IInv
<1>. QED
  BY <1>1, Inductive, PTL

(* The consequences of the invariant a caller relies on.                    *)
LEMMA Consequences ==
  ASSUME IInv
  PROVE  ListsSound /\ KeysFindable /\ CountExact /\ NoNodeLost /\ ResizeInBounds
<1>1. TypeOK /\ TableInv /\ RehashInv /\ Heap(size, buckets, next, key, Live)
  BY DEF IInv, TableInv
<1>2. ListsSound
  <2>1. \A n \in Index : n \notin Chain(next, next[n])
    BY <1>1 DEF TableInv, Heap
  <2>2. \A b, c \in Index : b # c => Bucket(b) \cap Bucket(c) = {}
    BY <1>1 DEF Heap, Bucket, Index
  <2>. QED
    BY <2>1, <2>2, <1>1 DEF ListsSound, TableInv
<1>3. KeysFindable
  BY <1>1 DEF KeysFindable, Heap, Bucket, Index
<1>4. CountExact /\ NoNodeLost
  BY <1>1 DEF CountExact, NoNodeLost, TableInv
<1>5. ResizeInBounds
  <2>1. SUFFICES ASSUME pc = "rehash" PROVE i < newLen
    BY DEF ResizeInBounds
  <2>2. /\ Cardinality(Todo) \in Nat /\ i + Cardinality(Todo) = count /\ count < newLen
        /\ i \in Nat /\ newLen \in Nat /\ count \in Nat
    BY <2>1, <1>1, FS_CardinalityType DEF RehashInv, TypeOK
  <2>. QED
    BY <2>2
<1>. QED
  BY <1>2, <1>3, <1>4, <1>5

(* Through every sequence of calls, growing and shrinking included, no list *)
(* runs in a circle and no node is on two lists.                            *)
THEOREM ListsStaySound == Spec => []ListsSound
  BY Consequences, Inductive, PTL

(* Every stored key stays where a search for it looks, and is stored once.  *)
THEOREM KeysStayFindable == Spec => []KeysFindable
  BY Consequences, Inductive, PTL

(* The arrays GetAll, GetKeys and GetValues fill have exactly enough room.  *)
THEOREM CountStaysExact == Spec => []CountExact
  BY Consequences, Inductive, PTL

(* No sequence of calls leaks a node of the heap.                           *)
THEOREM NoNodeIsLost == Spec => []NoNodeLost
  BY Consequences, Inductive, PTL

(* The unchecked writes of the rehash loop stay inside the new heap.        *)
THEOREM ResizeStaysInBounds == Spec => []ResizeInBounds
  BY Consequences, Inductive, PTL

-----------------------------------------------------------------------------
(***************************************************************************)
(* The hash table implements the abstract map of DictMap.tla, for tables   *)
(* of every size, every set of keys and values, and every sequence of      *)
(* calls.  The refinement mapping is Contents: the pairs on the buckets'   *)
(* lists or, while a resize runs, the pairs copied so far together with    *)
(* the pairs still to be copied.                                           *)
(***************************************************************************)
(* A search tells the caller whether the map has the key and, when it has,  *)
(* finds the map's one pair with that key.                                  *)
LEMMA SearchMap ==
  ASSUME TypeOK, TableInv, pc = "idle", NEW k \in Keys
  PROVE  /\ Matches(k) = {} => Map!Absent(k)
         /\ Matches(k) # {} => /\ ~Map!Absent(k)
                               /\ Map!PairOf(k) = {<<k, value[Found(k)]>>}
<1>1. Contents = {<<key[n], value[n]>> : n \in Live}
  BY DEF Contents, Pairs
<1>2. ASSUME Matches(k) = {} PROVE Map!Absent(k)
  <2>1. \A n \in Live : key[n] # k
    BY <1>2, SearchFinds DEF FreshKey
  <2>. QED
    BY <1>1, <2>1 DEF Map!Absent, Map!PairOf
<1>3. ASSUME Matches(k) # {}
      PROVE  /\ ~Map!Absent(k)
             /\ Map!PairOf(k) = {<<k, value[Found(k)]>>}
  <2> DEFINE f == Found(k)
  <2>1. f \in Live /\ key[f] = k
    BY <1>3, SearchFinds
  <2>2. \A n \in Live : key[n] = k => n = f
    BY <2>1 DEF TableInv, Heap
  <2> HIDE DEF f
  <2>3. Map!PairOf(k) = {<<k, value[f]>>}
    BY <1>1, <2>1, <2>2 DEF Map!PairOf
  <2>. QED
    BY <2>3 DEF Map!Absent, f
<1>. QED
  BY <1>2, <1>3

(* No pair of the map has a key that no live node holds.                    *)
LEMMA FreshAbsent ==
  ASSUME pc # "rehash", NEW k, FreshKey(k, key, Live)
  PROVE  Map!Absent(k)
  BY DEF FreshKey, Contents, Pairs, Map!Absent, Map!PairOf

(* Linking a node adds its pair and keeps the others.                       *)
LEMMA LinkMap ==
  ASSUME TypeOK, TableInv, firstFree >= 0, pc # "rehash", pc' # "rehash",
         NEW k \in Keys, NEW v \in Values, FreshKey(k, key, Live), Link(k, v)
  PROVE  Contents' = Contents \cup {<<k, v>>}
<1> DEFINE f == firstFree
<1>1. Live' = Live \cup {f} /\ f \notin Live /\ f \in 0 .. size - 1
  BY LinkInv, TableFacts
<1>2. key' = [key EXCEPT ![f] = k] /\ value' = [value EXCEPT ![f] = v]
  BY DEF Link
<1>3. /\ DOMAIN key = 0 .. size - 1 /\ DOMAIN value = 0 .. size - 1
      /\ Live \subseteq 0 .. size - 1
  BY TableFacts DEF TypeOK, Table
<1>4. /\ \A n \in Live : key'[n] = key[n] /\ value'[n] = value[n]
      /\ key'[f] = k /\ value'[f] = v
  BY <1>1, <1>2, <1>3
<1>5. Contents = {<<key[n], value[n]>> : n \in Live}
  BY DEF Contents, Pairs
<1>6. Contents' = {<<key'[n], value'[n]>> : n \in Live'}
  BY DEF Contents, Pairs
<1> HIDE DEF f
<1>. QED
  BY <1>1, <1>4, <1>5, <1>6

(* Overwriting the value of the node a search found replaces its pair.      *)
LEMMA StoreMap ==
  ASSUME TypeOK, TableInv, pc = "idle", NEW k \in Keys, NEW v,
         Matches(k) # {}, Store(Found(k), v)
  PROVE  Contents' = (Contents \ Map!PairOf(k)) \cup {<<k, v>>}
<1> DEFINE f == Found(k)
<1>1. f \in Live /\ key[f] = k /\ f \in 0 .. size - 1
  BY SearchFinds
<1>2. \A n \in Live : key[n] = k => n = f
  BY <1>1 DEF TableInv, Heap
<1>3. Map!PairOf(k) = {<<k, value[f]>>}
  BY SearchMap
<1>4. Live' = Live /\ key' = key /\ value' = [value EXCEPT ![f] = v] /\ pc' = "idle"
  BY DEF Store, Live, Bucket, Index
<1>5. DOMAIN value = 0 .. size - 1
  BY DEF TypeOK, Table
<1>6. value'[f] = v /\ \A n \in Live : n # f => value'[n] = value[n]
  BY <1>1, <1>4, <1>5, TableFacts
<1>7. Contents = {<<key[n], value[n]>> : n \in Live}
  BY DEF Contents, Pairs
<1>8. Contents' = {<<key[n], value'[n]>> : n \in Live}
  BY <1>4 DEF Contents, Pairs
<1> HIDE DEF f
<1>. QED
  BY <1>1, <1>2, <1>3, <1>6, <1>7, <1>8

(* Unlinking the node a search found takes its pair out of the table.       *)
LEMMA UnlinkMap ==
  ASSUME TypeOK, TableInv, pc = "idle", NEW k \in Keys,
         Matches(k) # {}, Unlinked(Found(k))
  PROVE  Pairs(key', value', Live') = Contents \ Map!PairOf(k)
<1> DEFINE f == Found(k)
<1>1. f \in Live /\ key[f] = k /\ f \in 0 .. size - 1
  BY SearchFinds
<1>2. \A n \in Live : key[n] = k => n = f
  BY <1>1 DEF TableInv, Heap
<1>3. Map!PairOf(k) = {<<k, value[f]>>}
  BY SearchMap
<1>4. Live' = Live \ {f}
  BY <1>1, RemoveInv
<1>5. \A n \in Live \ {f} : key'[n] = key[n] /\ value'[n] = value[n]
  BY DEF Unlinked, TypeOK, Table
<1>6. Contents = {<<key[n], value[n]>> : n \in Live}
  BY DEF Contents, Pairs
<1> HIDE DEF f
<1>. QED
  BY <1>1, <1>2, <1>3, <1>4, <1>5, <1>6 DEF Pairs

(* A resize starts with all of the table's pairs still to be copied.        *)
LEMMA StartResizeMap ==
  ASSUME pc' = "rehash", Todo' = Live', i' = 0
  PROVE  Contents' = Pairs(key', value', Live')
<1>1. 0 .. i' - 1 = {}
  OBVIOUS
<1>. QED
  BY <1>1 DEF Contents, Pairs

(* Starting a resize leaves the map alone: the table keeps every pair.      *)
LEMMA StartResizeSame ==
  ASSUME TypeOK, TableInv, pc # "rehash", UNCHANGED tableVars,
         NEW len, StartResize(len, buckets)
  PROVE  Contents' = Contents
<1>1. buckets' = buckets /\ size' = size /\ key' = key /\ value' = value /\ Live' = Live
  BY DEF tableVars, Live, Bucket, Index
<1>2. StartResize(len, buckets') /\ size' \in Nat \ {0}
  BY <1>1, TableFacts
<1>3. Todo' = Live' /\ i' = 0 /\ pc' = "rehash"
  BY <1>2, StartTodo
<1>4. Contents' = Pairs(key', value', Live')
  BY <1>3, StartResizeMap
<1>5. Contents = Pairs(key, value, Live)
  BY DEF Contents
<1>. QED
  BY <1>1, <1>4, <1>5

(* Copying a node moves its pair from the old heap to the new one.          *)
LEMMA RehashNodeMap ==
  ASSUME IInv, RehashNode
  PROVE  Contents' = Contents /\ ret' = ret
<1> DEFINE on == oldNodeIndex
<1>1. /\ on \in Todo /\ on \in 0 .. size - 1 /\ Todo' = Todo \ {on}
      /\ Todo \subseteq 0 .. size - 1 /\ i \in 0 .. newLen - 1
  BY RehashNodeInv
<1>2. /\ pc = "rehash" /\ pc' = "rehash" /\ key' = key /\ i' = i + 1 /\ ret' = ret
      /\ value' = [value EXCEPT ![on] = NULL]
      /\ newKey' = [newKey EXCEPT ![i] = key[on]]
      /\ newValue' = [newValue EXCEPT ![i] = value[on]]
  BY DEF RehashNode
<1>3. /\ DOMAIN newKey = 0 .. newLen - 1 /\ DOMAIN newValue = 0 .. newLen - 1
      /\ DOMAIN value = 0 .. size - 1 /\ i \in Nat /\ newLen \in Nat
  BY <1>2 DEF IInv, TypeOK, Table
<1>4. \A n \in Todo' : value'[n] = value[n]
  BY <1>1, <1>2, <1>3
<1>5. /\ newKey'[i] = key[on] /\ newValue'[i] = value[on]
      /\ \A j \in 0 .. i - 1 : newKey'[j] = newKey[j] /\ newValue'[j] = newValue[j]
  BY <1>1, <1>2, <1>3
<1>6. 0 .. i' - 1 = (0 .. i - 1) \cup {i}
  BY <1>2, <1>3
<1> DEFINE J == 0 .. i - 1
<1>7. Contents = {<<newKey[j], newValue[j]>> : j \in J} \cup {<<key[n], value[n]>> : n \in Todo}
  BY <1>2 DEF Contents, Pairs
<1>8. Contents' = {<<newKey'[j], newValue'[j]>> : j \in J \cup {i}}
                    \cup {<<key[n], value'[n]>> : n \in Todo'}
  BY <1>2, <1>6 DEF Contents, Pairs
<1>9. {<<newKey'[j], newValue'[j]>> : j \in J \cup {i}}
        = {<<newKey[j], newValue[j]>> : j \in J} \cup {<<key[on], value[on]>>}
  <2>1. \A j \in J : newKey'[j] = newKey[j] /\ newValue'[j] = newValue[j]
    BY <1>5
  <2> HIDE DEF J, on
  <2>. QED
    BY <2>1, <1>5
<1>10. {<<key[n], value[n]>> : n \in Todo}
         = {<<key[n], value'[n]>> : n \in Todo'} \cup {<<key[on], value[on]>>}
  <2> HIDE DEF on
  <2>. QED
    BY <1>1, <1>4
<1> HIDE DEF J, on
<1>. QED
  BY <1>2, <1>7, <1>8, <1>9, <1>10

(* Going on to the next bucket, and putting the new heap in the old one's   *)
(* place, changes no pair.                                                  *)
LEMMA RehashBucketMap ==
  ASSUME IInv, RehashBucket
  PROVE  Contents' = Contents /\ ret' = ret
<1>1. Todo' = Todo
  BY RehashBucketInv
<1>2. /\ pc' = pc /\ ret' = ret /\ key' = key /\ value' = value /\ i' = i
      /\ newKey' = newKey /\ newValue' = newValue /\ pc = "rehash"
  BY DEF RehashBucket, tableVars
<1>. QED
  BY <1>1, <1>2 DEF Contents

(* When the new heap takes the old one's place every pair has been copied.  *)
LEMMA FinishResizeMap ==
  ASSUME IInv, FinishResize
  PROVE  Contents' = Contents /\ ret' = ret
<1>1. Todo = {} /\ Live' = 0 .. i - 1 /\ i < newLen
  BY FinishResizeInv
<1>2. /\ key' = [n \in 0 .. newLen - 1 |-> IF n < i THEN newKey[n] ELSE 0]
      /\ value' = [n \in 0 .. newLen - 1 |-> IF n < i THEN newValue[n] ELSE NULL]
      /\ pc = "rehash" /\ pc' # "rehash" /\ ret' = ret
  BY DEF FinishResize
<1>3. i \in Nat /\ newLen \in Nat
  BY DEF IInv, TypeOK
<1>4. \A j \in 0 .. i - 1 : key'[j] = newKey[j] /\ value'[j] = newValue[j]
  BY <1>1, <1>2, <1>3
<1>5. Contents = Pairs(newKey, newValue, 0 .. i - 1)
  BY <1>1, <1>2 DEF Contents, Pairs
<1>6. Contents' = Pairs(key', value', 0 .. i - 1)
  BY <1>1, <1>2 DEF Contents
<1>. QED
  BY <1>2, <1>4, <1>5, <1>6 DEF Pairs

-----------------------------------------------------------------------------
(* An Append that finds room is the map's Add, or its SetValue, of a key it *)
(* does not have; one that has to resize leaves the map and the result to   *)
(* its last step.                                                           *)
LEMMA AppendMap ==
  ASSUME IInv, pc = "idle", NEW k \in Keys, NEW v \in Values, NEW r,
         Matches(k) = {}, Append(k, v, r)
  PROVE  /\ pc' = "idle" => Contents' = Contents \cup {<<k, v>>} /\ ret' = r
         /\ pc' # "idle" => Contents' = Contents /\ ret' = ret
<1>1. TypeOK /\ TableInv /\ FreshKey(k, key, Live)
  BY SearchFinds DEF IInv
<1>2. CASE firstFree >= 0
  <2>1. Link(k, v) /\ ret' = r /\ pc' = pc
    BY <1>1, <1>2 DEF Append, TypeOK
  <2>. QED
    BY <1>1, <1>2, <2>1, LinkMap
<1>3. CASE firstFree < 0
  <2>1. StartResize(size * 2, buckets) /\ UNCHANGED tableVars /\ ret' = ret
    BY <1>1, <1>3 DEF Append, TypeOK
  <2>2. pc' = "rehash"
    BY <2>1 DEF StartResize
  <2>. QED
    BY <1>1, <2>1, <2>2, StartResizeSame
<1>. QED
  BY <1>1, <1>2, <1>3 DEF TypeOK

(* A call that only returns leaves the map alone.                           *)
LEMMA ReturnMap ==
  ASSUME NEW r, Return(r)
  PROVE  Contents' = Contents /\ ret' = r
  BY DEF Return, tableVars, resizeVars, Contents, Live, Todo, Bucket, Index

(* Remove is the map's Remove, also when it goes on to shrink the table.    *)
LEMMA RemoveMap ==
  ASSUME IInv, NEW k \in Keys, Remove(k)
  PROVE  Map!Remove(k)
<1>1. TypeOK /\ TableInv /\ pc = "idle"
  BY DEF IInv, Remove
<1>2. CASE Matches(k) = {}
  <2>1. Map!PairOf(k) = {} /\ Map!Absent(k)
    BY <1>1, <1>2, SearchMap DEF Map!Absent
  <2>2. Contents' = Contents /\ ret' = FALSE
    BY <1>2, ReturnMap DEF Remove
  <2>. QED
    BY <2>1, <2>2 DEF Map!Remove
<1>3. CASE Matches(k) # {}
  <2> DEFINE n == Found(k)
  <2>1. n \in Live /\ key[n] = k
    BY <1>1, <1>3, SearchFinds
  <2>2. /\ Unlinked(n) /\ ret' = TRUE
        /\ IF Sparse(count - 1) THEN StartResize(size \div 2, buckets')
                                ELSE UNCHANGED <<pc, resizeVars>>
    BY <1>3, <2>1 DEF Remove, Unlinked
  <2>3. Pairs(key', value', Live') = Contents \ Map!PairOf(k)
    BY <1>1, <1>3, <2>2, UnlinkMap
  <2>4. Contents' = Pairs(key', value', Live')
    <3>1. CASE Sparse(count - 1)
      <4>1. size' \in Nat \ {0}
        BY <1>1, <2>2, TableFacts DEF Unlinked
      <4>2. Todo' = Live' /\ i' = 0 /\ pc' = "rehash"
        BY <4>1, <2>2, <3>1, StartTodo
      <4>. QED
        BY <4>2, StartResizeMap
    <3>2. CASE ~Sparse(count - 1)
      BY <1>1, <2>2, <3>2 DEF Contents
    <3>. QED
      BY <3>1, <3>2
  <2>5. ~Map!Absent(k)
    BY <1>1, <1>3, SearchMap
  <2>. QED
    BY <2>2, <2>3, <2>4, <2>5 DEF Map!Remove
<1>. QED
  BY <1>2, <1>3

(* Every call that returns at this step is the map's operation of the same  *)
(* name, with the same arguments and the same result.                       *)
LEMMA CallsAgree ==
  ASSUME IInv
  PROVE  CallAgrees
<1>1. TypeOK /\ TableInv
  BY DEF IInv
<1>2. ASSUME NEW k \in Keys, NEW v \in Values, pc' = "idle", Add(k, v)
      PROVE  Map!Add(k, v)
  <2>1. pc = "idle"
    BY <1>2 DEF Add
  <2>2. CASE Matches(k) # {}
    BY <1>1, <1>2, <2>1, <2>2, SearchMap, ReturnMap DEF Add, Map!Add
  <2>3. CASE Matches(k) = {}
    BY <1>1, <1>2, <2>1, <2>3, SearchMap, AppendMap DEF Add, Map!Add
  <2>. QED
    BY <2>2, <2>3
<1>3. ASSUME NEW k \in Keys, NEW v \in Values, pc' = "idle", SetValue(k, v)
      PROVE  Map!SetValue(k, v)
  <2>1. pc = "idle"
    BY <1>3 DEF SetValue
  <2>2. CASE Matches(k) # {}
    <3>1. Contents' = (Contents \ Map!PairOf(k)) \cup {<<k, v>>} /\ ret' = TRUE
      BY <1>1, <1>3, <2>1, <2>2, StoreMap DEF SetValue
    <3>2. ~Map!Absent(k)
      BY <1>1, <2>1, <2>2, SearchMap
    <3>. QED
      BY <3>1, <3>2 DEF Map!SetValue
  <2>3. CASE Matches(k) = {}
    <3>1. Contents' = Contents \cup {<<k, v>>} /\ ret' = FALSE
      BY <1>3, <2>1, <2>3, AppendMap DEF SetValue
    <3>2. Map!Absent(k) /\ Map!PairOf(k) = {}
      BY <1>1, <2>1, <2>3, SearchMap DEF Map!Absent
    <3>. QED
      BY <3>1, <3>2 DEF Map!SetValue
  <2>. QED
    BY <2>2, <2>3
<1>4. ASSUME NEW k \in Keys, NEW v \in Values, ReplaceValue(k, v)
      PROVE  Map!ReplaceValue(k, v)
  <2>1. pc = "idle"
    BY <1>4 DEF ReplaceValue
  <2>2. CASE Matches(k) # {}
    <3>1. Contents' = (Contents \ Map!PairOf(k)) \cup {<<k, v>>} /\ ret' = TRUE
      BY <1>1, <1>4, <2>1, <2>2, StoreMap DEF ReplaceValue
    <3>2. ~Map!Absent(k)
      BY <1>1, <2>1, <2>2, SearchMap
    <3>. QED
      BY <3>1, <3>2 DEF Map!ReplaceValue
  <2>3. CASE Matches(k) = {}
    <3>1. Contents' = Contents /\ ret' = FALSE
      BY <1>4, <2>3, ReturnMap DEF ReplaceValue
    <3>2. Map!Absent(k)
      BY <1>1, <2>1, <2>3, SearchMap
    <3>. QED
      BY <3>1, <3>2 DEF Map!ReplaceValue
  <2>. QED
    BY <2>2, <2>3
<1>5. ASSUME NEW k \in Keys, GetValue(k) PROVE Map!GetValue(k)
  <2>1. pc = "idle"
    BY <1>5 DEF GetValue
  <2>2. CASE Matches(k) # {}
    <3>1. Contents' = Contents /\ ret' = value[Found(k)]
      BY <1>5, <2>2, ReturnMap DEF GetValue
    <3>2. <<k, value[Found(k)]>> \in Map!PairOf(k)
      BY <1>1, <2>1, <2>2, SearchMap
    <3>. QED
      BY <3>1, <3>2 DEF Map!GetValue
  <2>3. CASE Matches(k) = {}
    BY <1>1, <1>5, <2>1, <2>3, SearchMap, ReturnMap DEF GetValue, Map!GetValue
  <2>. QED
    BY <2>2, <2>3
<1>6. ASSUME NEW n \in ClearSizes, ClearWithSize(n) PROVE Map!Clear
  <2>1. Live' = {} /\ pc' = "idle" /\ ret' = TRUE
    BY <1>6, ClearInv DEF ClearWithSize
  <2>2. Contents' = {}
    BY <2>1 DEF Contents, Pairs
  <2>. QED
    BY <2>1, <2>2 DEF Map!Clear
<1>7. ASSUME Clone PROVE UNCHANGED Contents
  <2>1. Return(ret)
    BY <1>7, CloneInv DEF Clone, Return
  <2>. QED
    BY <2>1, ReturnMap
<1>8. ASSUME FinishAppend
      PROVE  IF call.ret THEN Map!Add(call.key, call.value)
             ELSE Map!SetValue(call.key, call.value)
  <2>1. /\ pc = "append" /\ pc' = "idle" /\ Link(call.key, call.value)
        /\ ret' = call.ret /\ call.active /\ firstFree >= 0
        /\ FreshKey(call.key, key, Live)
    BY <1>8 DEF FinishAppend, IInv, CallInv
  <2>2. call.key \in Keys /\ call.value \in Values /\ call.ret \in BOOLEAN
    BY <1>1, <2>1 DEF TypeOK
  <2>3. Contents' = Contents \cup {<<call.key, call.value>>}
    BY <1>1, <2>1, <2>2, LinkMap
  <2>4. Map!Absent(call.key) /\ Map!PairOf(call.key) = {}
    BY <2>1, FreshAbsent DEF Map!Absent
  <2>5. CASE call.ret
    BY <2>1, <2>2, <2>3, <2>4, <2>5 DEF Map!Add
  <2>6. CASE ~call.ret
    <3>1. ret' = FALSE
      BY <2>1, <2>2, <2>6
    <3>2. Contents' = (Contents \ Map!PairOf(call.key)) \cup {<<call.key, call.value>>}
      BY <2>3, <2>4
    <3>3. Map!SetValue(call.key, call.value)
      BY <2>4, <3>1, <3>2 DEF Map!SetValue
    <3>. QED
      BY <2>6, <3>3
  <2>. QED
    BY <2>5, <2>6
<1>. QED
  BY <1>2, <1>3, <1>4, <1>5, <1>6, <1>7, <1>8, RemoveMap DEF CallAgrees

(* Every step of the table is a step of the map, or leaves it unchanged.    *)
LEMMA StepMap ==
  ASSUME IInv, [Next]_vars
  PROVE  [Map!Next]_(Map!vars)
<1>1. CallAgrees
  BY CallsAgree
<1>2. ASSUME NEW k \in Keys, NEW v \in Values, Add(k, v) \/ SetValue(k, v) \/ ReplaceValue(k, v)
      PROVE  Map!Next \/ UNCHANGED Map!vars
  <2>1. CASE pc' = "idle" \/ ReplaceValue(k, v)
    BY <1>1, <1>2, <2>1 DEF CallAgrees, Map!Next
  <2>2. CASE pc' # "idle" /\ Matches(k) = {} /\ (Add(k, v) \/ SetValue(k, v))
    BY <2>2, AppendMap DEF Add, SetValue, Map!vars
  <2>3. CASE pc' # "idle" /\ Matches(k) # {} /\ (Add(k, v) \/ SetValue(k, v))
    BY <2>3 DEF Add, SetValue, Return, Store
  <2>. QED
    BY <1>2, <2>1, <2>2, <2>3
<1>3. ASSUME NEW k \in Keys, Remove(k) \/ GetValue(k) PROVE Map!Next
  BY <1>1, <1>3 DEF CallAgrees, Map!Next
<1>4. ASSUME RehashNode \/ RehashBucket \/ FinishResize PROVE UNCHANGED Map!vars
  BY <1>4, RehashNodeMap, RehashBucketMap, FinishResizeMap DEF Map!vars
<1>5. ASSUME FinishAppend PROVE Map!Next
  <2>1. call.active
    BY <1>5 DEF FinishAppend, IInv, CallInv
  <2>2. call.key \in Keys /\ call.value \in Values
    BY <2>1 DEF IInv, TypeOK
  <2>. QED
    BY <1>1, <1>5, <2>2 DEF CallAgrees, Map!Next
<1>6. ASSUME NEW n \in ClearSizes, ClearWithSize(n) PROVE Map!Next
  BY <1>1, <1>6 DEF CallAgrees, Map!Next
<1>7. ASSUME Clone PROVE UNCHANGED Map!vars
  BY <1>1, <1>7 DEF CallAgrees, Map!vars, Clone
<1>8. ASSUME UNCHANGED vars PROVE UNCHANGED Map!vars
  <2>1. Return(ret)
    BY <1>8 DEF vars, Return
  <2>. QED
    BY <2>1, ReturnMap DEF Map!vars
<1>. QED
  BY <1>2, <1>3, <1>4, <1>5, <1>6, <1>7, <1>8 DEF Next

(* The table Int32Dict_Create makes is the empty map.                       *)
LEMMA InitMap == Init => Map!Init
<1> SUFFICES ASSUME Init PROVE Map!Init
  OBVIOUS
<1>1. /\ size \in Nat \ {0} /\ buckets = [b \in 0 .. size - 1 |-> -1]
      /\ next = FreshNext(size) /\ pc = "idle" /\ ret = TRUE
  BY SizeAssumption DEF Init
<1>2. /\ buckets \in Links(size) /\ next \in Links(size)
      /\ Heap(size, buckets, next, key, {})
  BY <1>1, EmptyTable
<1>3. Live = {}
  BY <1>1, <1>2, HeapLive DEF Live, Bucket, Index
<1>. QED
  BY <1>1, <1>3 DEF Map!Init, Contents, Pairs

(* The hash table implements the map, call for call: no sequence of calls,  *)
(* with whatever growing and shrinking they start, loses, duplicates or     *)
(* changes a pair, or returns what the map would not return.                *)
THEOREM TableImplementsMap == Spec => ImplementsMap
<1>1. Init => Map!Init
  BY InitMap
<1>2. IInv /\ [Next]_vars => [Map!Next]_(Map!vars)
  BY StepMap
<1>3. IInv => CallAgrees
  BY CallsAgree
<1>. QED
  BY <1>1, <1>2, <1>3, Inductive, PTL DEF Spec, ImplementsMap, Map!Spec
=============================================================================
