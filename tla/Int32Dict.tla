----------------------------- MODULE Int32Dict -----------------------------
(***************************************************************************)
(* smilelib's chained hash table (src/dict/int32dict.c, int32dict.h and    *)
(* the search macro of dict/shared.h).  All nodes live in one array, the   *)
(* heap; a bucket holds the index of its first node, nodes are linked by   *)
(* their next index, unused nodes are linked into a free list, and -1 ends *)
(* every list.  Heap and buckets have the same size, always a power of     *)
(* two, so that "key & mask" is "key % size" (for negative keys too: the   *)
(* code masks the two's complement).                                       *)
(*                                                                         *)
(* The node array is modelled as three functions next, key and value over  *)
(* 0 .. size-1.  Every operation is one action except a resize, whose      *)
(* rehash loop is modelled one iteration at a time: it is the only place   *)
(* where the table is inconsistent for a while, and the only place where   *)
(* the code writes to an index it does not compare with the array's size.  *)
(***************************************************************************)
EXTENDS Integers, FiniteSets

CONSTANTS Keys,        \* the Int32 keys a client uses
          Values,      \* the pointers a client stores
          NULL,        \* the null pointer
          MinSize,     \* 16 in the code: the table never shrinks below it
          ClearSizes   \* the sizes ClearWithSize may be asked for, after it
                       \* has clamped and rounded them to a power of two

ASSUME KeysAssumption   == Keys \subseteq Int
ASSUME SizeAssumption   == /\ MinSize \in Nat \ {0}
                           /\ ClearSizes \subseteq Nat \ {0}
                           /\ MinSize \in ClearSizes
ASSUME ValuesAssumption == NULL \notin BOOLEAN

VARIABLES size, buckets, next, key, value, firstFree, count,
          ret,    \* the result of the last call that returned
          pc,     \* "idle", or where a call that resizes stands
          call,   \* the Append waiting for its resize
          newLen, newBuckets, newNext, newKey, newValue,
          i,      \* nodes copied into the new heap so far
          oldBucketIndex, oldNodeIndex

tableVars  == <<size, buckets, next, key, value, firstFree, count>>
resizeVars == <<newLen, newBuckets, newNext, newKey, newValue, i,
                oldBucketIndex, oldNodeIndex>>
vars == <<tableVars, ret, pc, call, resizeVars>>

NoCall == [active |-> FALSE, key |-> 0, value |-> NULL, ret |-> FALSE]

-----------------------------------------------------------------------------
(* Lists.  The nodes a loop "for (n = start; n >= 0; n = next[n])" visits:  *)
(* the least set that holds start and is closed under next.                 *)
Closed(nx, start, S) ==
  /\ start >= 0 => start \in S
  /\ \A n \in S : nx[n] >= 0 => nx[n] \in S

Chain(nx, start) ==
  {n \in DOMAIN nx : \A S \in SUBSET DOMAIN nx : Closed(nx, start, S) => n \in S}

Index        == 0 .. size - 1
Bucket(b)    == Chain(next, buckets[b])
Live         == UNION {Bucket(b) : b \in Index}
Free         == Chain(next, firstFree)

(* SMILE_DICT_SEARCH: the first node of the key's bucket that holds the key *)
Matches(k) == {n \in Bucket(k % size) : key[n] = k}
Found(k)   == CHOOSE n \in Matches(k) : Matches(k) \subseteq Chain(next, n)

-----------------------------------------------------------------------------
(* A table of n free nodes, linked in order.                               *)
FreshNext(n) == [j \in 0 .. n - 1 |-> IF j = n - 1 THEN -1 ELSE j + 1]

Init ==
  /\ size = MinSize
  /\ buckets = [b \in 0 .. MinSize - 1 |-> -1]
  /\ next = FreshNext(MinSize)
  /\ key = [n \in 0 .. MinSize - 1 |-> 0]
  /\ value = [n \in 0 .. MinSize - 1 |-> NULL]
  /\ firstFree = 0 /\ count = 0
  /\ ret = TRUE /\ pc = "idle" /\ call = NoCall
  /\ newLen = 0 /\ i = 0 /\ oldBucketIndex = 0 /\ oldNodeIndex = -1
  /\ newBuckets = <<>> /\ newNext = <<>> /\ newKey = <<>> /\ newValue = <<>>

(* Mutant of Link: the node is not taken off the free list.                 *)
LinkKeepsFree(k, v) ==
  LET n == firstFree
      b == k % size
  IN /\ firstFree' = firstFree
     /\ next' = [next EXCEPT ![n] = buckets[b]]
     /\ key' = [key EXCEPT ![n] = k]
     /\ value' = [value EXCEPT ![n] = v]
     /\ buckets' = [buckets EXCEPT ![b] = n]
     /\ count' = count + 1
     /\ UNCHANGED size

(* Take the first free node and push it on the front of its bucket.         *)
Link(k, v) ==
  LET n == firstFree
      b == k % size
  IN /\ firstFree' = next[n]
     /\ next' = [next EXCEPT ![n] = buckets[b]]
     /\ key' = [key EXCEPT ![n] = k]
     /\ value' = [value EXCEPT ![n] = v]
     /\ buckets' = [buckets EXCEPT ![b] = n]
     /\ count' = count + 1
     /\ UNCHANGED size

(* The start of a resize: fresh buckets, a zeroed heap, the first old node. *)
StartResize(len, oldBuckets) ==
  /\ newLen' = len
  /\ newBuckets' = [b \in 0 .. len - 1 |-> -1]
  /\ newNext' = [n \in 0 .. len - 1 |-> 0]
  /\ newKey' = [n \in 0 .. len - 1 |-> 0]
  /\ newValue' = [n \in 0 .. len - 1 |-> NULL]
  /\ i' = 0
  /\ oldBucketIndex' = 0
  /\ oldNodeIndex' = oldBuckets[0]
  /\ pc' = "rehash"

Append(k, v, r) ==
  \/ /\ firstFree >= 0
     /\ Link(k, v)
     /\ ret' = r
     /\ UNCHANGED <<pc, call, resizeVars>>
  \/ /\ firstFree < 0
     /\ StartResize(size * 2, buckets)
     /\ call' = [active |-> TRUE, key |-> k, value |-> v, ret |-> r]
     /\ UNCHANGED <<tableVars, ret>>

Return(r) ==
  ret' = r /\ UNCHANGED <<tableVars, pc, call, resizeVars>>

Store(n, v) ==
  /\ value' = [value EXCEPT ![n] = v]
  /\ UNCHANGED <<size, buckets, next, key, firstFree, count, pc, call, resizeVars>>

Add(k, v) ==
  /\ pc = "idle"
  /\ IF Matches(k) # {} THEN Return(FALSE) ELSE Append(k, v, TRUE)

SetValue(k, v) ==
  /\ pc = "idle"
  /\ IF Matches(k) # {} THEN Store(Found(k), v) /\ ret' = TRUE
                        ELSE Append(k, v, FALSE)

ReplaceValue(k, v) ==
  /\ pc = "idle"
  /\ IF Matches(k) # {} THEN Store(Found(k), v) /\ ret' = TRUE
                        ELSE Return(FALSE)

(* ContainsKey and TryGetValue tell the same two cases apart.               *)
GetValue(k) ==
  /\ pc = "idle"
  /\ Return(IF Matches(k) # {} THEN value[Found(k)] ELSE NULL)

(* Mutant of Unlink: the freed node does not lead to the free list.         *)
UnlinkDropsFree(n, b) ==
  /\ buckets' = [buckets EXCEPT ![b] = IF @ = n THEN next[n] ELSE @]
  /\ next' = [m \in DOMAIN next |->
                IF m = n THEN -1 ELSE IF next[m] = n THEN next[n] ELSE next[m]]

(* Take n out of its bucket's list, by redirecting the bucket or the node   *)
(* that precedes n, and put it on the front of the free list.               *)
Unlink(n, b) ==
  IF buckets[b] = n
    THEN /\ buckets' = [buckets EXCEPT ![b] = next[n]]
         /\ next' = [next EXCEPT ![n] = firstFree]
    ELSE /\ buckets' = buckets
         /\ next' = [m \in DOMAIN next |->
                       IF m = n THEN firstFree
                       ELSE IF m \in Bucket(b) /\ next[m] = n THEN next[n]
                       ELSE next[m]]

(* Mutant of Sparse: the table shrinks when it is half full.                *)
SparseAtHalf(c) == c <= size \div 2 /\ size > MinSize

(* The test that makes Remove shrink the table, and its limit.              *)
Sparse(c) == c <= size \div 4 /\ size > MinSize

Remove(k) ==
  /\ pc = "idle"
  /\ \/ Matches(k) = {} /\ Return(FALSE)
     \/ /\ Matches(k) # {}
        /\ LET n == Found(k)
           IN /\ Unlink(n, k % size)
              /\ key' = [key EXCEPT ![n] = 0]
              /\ value' = [value EXCEPT ![n] = NULL]
              /\ firstFree' = n
              /\ count' = count - 1
              /\ UNCHANGED <<size, call>>
              /\ ret' = TRUE
              /\ IF Sparse(count - 1)
                   THEN StartResize(size \div 2, buckets')
                   ELSE UNCHANGED <<pc, resizeVars>>

(* Mutant of RehashNode: the old mask chooses the bucket in a larger table. *)
RehashNodeOldMask ==
  /\ pc = "rehash" /\ oldNodeIndex >= 0
  /\ LET b == key[oldNodeIndex] % (IF size < newLen THEN size ELSE newLen)
     IN /\ newNext' = [newNext EXCEPT ![i] = newBuckets[b]]
        /\ newKey' = [newKey EXCEPT ![i] = key[oldNodeIndex]]
        /\ newValue' = [newValue EXCEPT ![i] = value[oldNodeIndex]]
        /\ newBuckets' = [newBuckets EXCEPT ![b] = i]
  /\ i' = i + 1
  /\ value' = [value EXCEPT ![oldNodeIndex] = NULL]
  /\ oldNodeIndex' = next[oldNodeIndex]
  /\ UNCHANGED <<size, buckets, next, key, firstFree, count, ret, pc, call,
                 newLen, oldBucketIndex>>

(* Mutant of RehashNode: the old value is cleared before it is copied.      *)
RehashNodeClearsFirst ==
  /\ pc = "rehash" /\ oldNodeIndex >= 0
  /\ LET b == key[oldNodeIndex] % newLen
     IN /\ newNext' = [newNext EXCEPT ![i] = newBuckets[b]]
        /\ newKey' = [newKey EXCEPT ![i] = key[oldNodeIndex]]
        /\ newBuckets' = [newBuckets EXCEPT ![b] = i]
  /\ i' = i + 1
  /\ value' = [value EXCEPT ![oldNodeIndex] = NULL]
  /\ oldNodeIndex' = next[oldNodeIndex]
  /\ UNCHANGED <<size, buckets, next, key, firstFree, count, ret, pc, call,
                 newLen, newValue, oldBucketIndex>>

(* One iteration of the inner loop: copy the node, push it on its new       *)
(* bucket, and clear the old node's value.                                  *)
RehashNode ==
  /\ pc = "rehash" /\ oldNodeIndex >= 0
  /\ LET b == key[oldNodeIndex] % newLen
     IN /\ newNext' = [newNext EXCEPT ![i] = newBuckets[b]]
        /\ newKey' = [newKey EXCEPT ![i] = key[oldNodeIndex]]
        /\ newValue' = [newValue EXCEPT ![i] = value[oldNodeIndex]]
        /\ newBuckets' = [newBuckets EXCEPT ![b] = i]
  /\ i' = i + 1
  /\ value' = [value EXCEPT ![oldNodeIndex] = NULL]
  /\ oldNodeIndex' = next[oldNodeIndex]
  /\ UNCHANGED <<size, buckets, next, key, firstFree, count, ret, pc, call,
                 newLen, oldBucketIndex>>

(* Mutant of RehashBucket: the loop does not go past an empty bucket.       *)
RehashBucketStuck ==
  /\ pc = "rehash" /\ oldNodeIndex < 0 /\ oldBucketIndex < size - 1
  /\ oldBucketIndex' = IF buckets[oldBucketIndex + 1] >= 0 THEN oldBucketIndex + 1
                       ELSE oldBucketIndex
  /\ oldNodeIndex' = buckets[oldBucketIndex + 1]
  /\ UNCHANGED <<tableVars, ret, pc, call, newLen, newBuckets, newNext,
                 newKey, newValue, i>>

(* The outer loop goes on to the next bucket.                               *)
RehashBucket ==
  /\ pc = "rehash" /\ oldNodeIndex < 0 /\ oldBucketIndex < size - 1
  /\ oldBucketIndex' = oldBucketIndex + 1
  /\ oldNodeIndex' = buckets[oldBucketIndex + 1]
  /\ UNCHANGED <<tableVars, ret, pc, call, newLen, newBuckets, newNext,
                 newKey, newValue, i>>

(* The new arrays become the table; what is left of the heap becomes the    *)
(* free list, in order.                                                     *)
FinishResize ==
  /\ pc = "rehash" /\ oldNodeIndex < 0 /\ oldBucketIndex = size - 1
  /\ size' = newLen
  /\ buckets' = newBuckets
  /\ next' = [n \in 0 .. newLen - 1 |->
                IF n < i THEN newNext[n] ELSE FreshNext(newLen)[n]]
  /\ key' = [n \in 0 .. newLen - 1 |-> IF n < i THEN newKey[n] ELSE 0]
  /\ value' = [n \in 0 .. newLen - 1 |-> IF n < i THEN newValue[n] ELSE NULL]
  /\ firstFree' = IF i < newLen THEN i ELSE -1
  /\ newLen' = 0 /\ i' = 0 /\ oldBucketIndex' = 0 /\ oldNodeIndex' = -1
  /\ newBuckets' = <<>> /\ newNext' = <<>> /\ newKey' = <<>> /\ newValue' = <<>>
  /\ pc' = IF call.active THEN "append" ELSE "idle"
  /\ UNCHANGED <<count, ret, call>>

(* Append goes on after its resize.                                        *)
FinishAppend ==
  /\ pc = "append"
  /\ Link(call.key, call.value)
  /\ ret' = call.ret
  /\ pc' = "idle" /\ call' = NoCall
  /\ UNCHANGED resizeVars

(* Mutant of ClearWithSize: the count is not reset.                         *)
ClearWithSizeKeepsCount(n) ==
  /\ pc = "idle"
  /\ size' = n
  /\ buckets' = [b \in 0 .. n - 1 |-> -1]
  /\ next' = FreshNext(n)
  /\ key' = [m \in 0 .. n - 1 |-> 0]
  /\ value' = [m \in 0 .. n - 1 |-> NULL]
  /\ firstFree' = 0
  /\ ret' = TRUE
  /\ UNCHANGED <<count, pc, call, resizeVars>>

ClearWithSize(n) ==
  /\ pc = "idle"
  /\ size' = n
  /\ buckets' = [b \in 0 .. n - 1 |-> -1]
  /\ next' = FreshNext(n)
  /\ key' = [m \in 0 .. n - 1 |-> 0]
  /\ value' = [m \in 0 .. n - 1 |-> NULL]
  /\ firstFree' = 0 /\ count' = 0
  /\ ret' = TRUE
  /\ UNCHANGED <<pc, call, resizeVars>>

(* The client goes on with a clone.  Clone copies the bucket array, then    *)
(* the nodes it meets on the buckets' lists and on the free list, into      *)
(* zeroed memory: a node on no list would not be copied.                    *)
Clone ==
  /\ pc = "idle"
  /\ next' = [n \in Index |-> IF n \in Live \cup Free THEN next[n] ELSE 0]
  /\ key' = [n \in Index |-> IF n \in Live \cup Free THEN key[n] ELSE 0]
  /\ value' = [n \in Index |-> IF n \in Live \cup Free THEN value[n] ELSE NULL]
  /\ UNCHANGED <<size, buckets, firstFree, count, ret, pc, call, resizeVars>>

Next ==
  \/ \E k \in Keys, v \in Values :
       Add(k, v) \/ SetValue(k, v) \/ ReplaceValue(k, v)
  \/ \E k \in Keys : Remove(k) \/ GetValue(k)
  \/ RehashNode \/ RehashBucket \/ FinishResize \/ FinishAppend
  \/ \E n \in ClearSizes : ClearWithSize(n)
  \/ Clone

Spec     == Init /\ [][Next]_vars
(* A call runs to its end: nothing else runs while it resizes.              *)
FairSpec == Spec /\ WF_vars(RehashNode \/ RehashBucket \/ FinishResize \/ FinishAppend)
-----------------------------------------------------------------------------
(* Type correctness.  The indices of a table point into its own heap.       *)
Table(n, bk, nx, ky, vl) ==
  /\ n \in Nat \ {0}
  /\ bk \in [0 .. n - 1 -> -1 .. n - 1]
  /\ nx \in [0 .. n - 1 -> -1 .. n - 1]
  /\ ky \in [0 .. n - 1 -> Keys \cup {0}]
  /\ vl \in [0 .. n - 1 -> Values \cup {NULL}]

TypeOK ==
  /\ Table(size, buckets, next, key, value)
  /\ firstFree \in -1 .. size - 1
  /\ count \in Nat
  /\ ret \in BOOLEAN \cup Values \cup {NULL}
  /\ pc \in {"idle", "rehash", "append"}
  /\ call \in [active : BOOLEAN, key : Keys \cup {0}, value : Values \cup {NULL},
               ret : BOOLEAN]
  /\ call.active => call.key \in Keys /\ call.value \in Values
  /\ newLen \in Nat /\ i \in Nat
  /\ pc = "rehash" => /\ Table(newLen, newBuckets, newNext, newKey, newValue)
                      /\ oldBucketIndex \in 0 .. size - 1
                      /\ oldNodeIndex \in -1 .. size - 1

(* No list of the table runs in a circle, and no node is on two lists: two  *)
(* buckets, or a bucket and the free list.  A node handed out twice would   *)
(* overwrite a stored pair; a circle would make every search of that bucket *)
(* run for ever.  Link, Unlink and the resize move nodes between lists.     *)
ListsSound ==
  /\ \A n \in Index : n \notin Chain(next, next[n])
  /\ \A b, c \in Index : b # c => Bucket(b) \cap Bucket(c) = {}
  /\ Live \cap Free = {}

(* Every live node is in the bucket a search for its key looks in, and no   *)
(* key is stored twice: also right after a resize, which changes the mask.  *)
KeysFindable ==
  /\ \A b \in Index : \A n \in Bucket(b) : key[n] % size = b /\ key[n] \in Keys
  /\ \A m, n \in Live : key[m] = key[n] => m = n

(* count is the number of nodes on the buckets' lists.  GetAll, GetKeys and *)
(* GetValues allocate count entries and fill one per node they visit.       *)
CountExact == IsFiniteSet(Live) /\ count = Cardinality(Live)

(* No node is ever on no list: the heap would fill up although pairs were   *)
(* removed, and Clone would skip the node.                                  *)
NoNodeLost == Index \subseteq Live \cup Free

(* The rehash loop and the statements after it write newHeap[i] without a   *)
(* test of i: the callers must guarantee room for one more node than there  *)
(* are pairs left, in a table twice the size and in one half the size.      *)
ResizeInBounds == pc = "rehash" => i < newLen

(* The old nodes the rehash loop still has to visit.                        *)
Todo == Chain(next, oldNodeIndex)
          \cup UNION {Bucket(b) : b \in oldBucketIndex + 1 .. size - 1}

Pairs(ky, vl, S) == {<<ky[n], vl[n]>> : n \in S}

(* The pairs a client has stored: during a resize they are spread over the  *)
(* new heap and what is left of the old one, whose values are cleared.      *)
Contents ==
  IF pc = "rehash"
    THEN Pairs(newKey, newValue, 0 .. i - 1) \cup Pairs(key, value, Todo)
    ELSE Pairs(key, value, Live)

Map == INSTANCE DictMap WITH pairs <- Contents

(* Each call does what the map's operation of the same name does with the   *)
(* same arguments: when it returns at once, or, for an Append that had to   *)
(* make room, at its last step.                                             *)
CallAgrees ==
  /\ \A k \in Keys, v \in Values :
       /\ pc' = "idle" /\ Add(k, v) => Map!Add(k, v)
       /\ pc' = "idle" /\ SetValue(k, v) => Map!SetValue(k, v)
       /\ ReplaceValue(k, v) => Map!ReplaceValue(k, v)
  /\ \A k \in Keys : /\ Remove(k) => Map!Remove(k)
                     /\ GetValue(k) => Map!GetValue(k)
  /\ \A n \in ClearSizes : ClearWithSize(n) => Map!Clear
  /\ Clone => UNCHANGED Contents
  /\ FinishAppend => IF call.ret THEN Map!Add(call.key, call.value)
                     ELSE Map!SetValue(call.key, call.value)

(* The hash table implements the abstract map: every call returns what the  *)
(* map returns, and no call, resize included, loses, duplicates or changes  *)
(* another pair.  And it is the operation that was called: a search that    *)
(* takes one key for another answers the wrong caller although the map it   *)
(* leaves is a possible one.                                                *)
ImplementsMap == Map!Spec /\ [][CallAgrees]_vars

(* Every call that has to resize the table returns.                         *)
ResizeEnds == pc # "idle" ~> pc = "idle"
=============================================================================
