------------------------ MODULE CompiledTablesProofs ------------------------
(***************************************************************************)
(* Proofs about the compiler's tables, for tables of every size and every  *)
(* sequence of entries.                                                    *)
(***************************************************************************)
EXTENDS CompiledTables, TLAPS

(* The inductive invariant.  Every index handed out is one of a slot of the *)
(* table; a slot holds what was put there or, outside the locals, lost it   *)
(* when the table grew; and the strings' dictionary knows exactly the       *)
(* strings handed out, each by its own index.                               *)
TypeOK ==
  /\ kind \in Kinds /\ num \in Nat
  /\ slots \in Seq(Nat) /\ num <= Len(slots)
  /\ issued \in Seq(Nat) /\ Len(issued) = num
  /\ before \in 0 .. num
  /\ kind = "sourceLocations" => num > 0

Kept ==
  \A m \in 1 .. num :
    slots[m] = issued[m] \/ (kind # "locals" /\ m <= before /\ slots[m] = 0)

LookupInv ==
  kind = "strings" =>
    /\ \A m \in 1 .. num : issued[m] \in DOMAIN lookup /\ lookup[issued[m]] = m - 1
    /\ \A e \in DOMAIN lookup : \E m \in 1 .. num : e = issued[m]

IInv == TypeOK /\ Kept /\ LookupInv

-----------------------------------------------------------------------------
(* A fresh table is a sequence of empty slots.                              *)
LEMMA ZerosSeq ==
  ASSUME NEW n \in Nat
  PROVE  Zeros(n) \in Seq(Nat) /\ Len(Zeros(n)) = n
  BY DEF Zeros

(* The table has a slot for one more entry once there is room, and what is  *)
(* in it is what was there before or, in a table other than the locals'     *)
(* that has just grown, nothing: the locals' MemCpy copies every byte.      *)
LEMMA RoomKeeps ==
  ASSUME TypeOK
  PROVE  /\ Room \in Seq(Nat) /\ num + 1 <= Len(Room)
         /\ \A m \in 1 .. num :
              Room[m] = slots[m] \/ (num >= Max /\ kind # "locals" /\ Room[m] = 0)
<1> DEFINE L == Len(slots)
<1>1. num \in Nat /\ L \in Nat /\ num <= L /\ slots \in Seq(Nat)
  BY DEF TypeOK
<1>2. CASE num < L
  <2>1. Room = slots
    BY <1>1, <1>2 DEF Room, Max
  <2>. QED
    BY <1>1, <1>2, <2>1
<1>3. CASE num >= L
  <2> DEFINE N == NewMax(L)
  <2>1. N \in Nat /\ num + 1 <= N
    <3>1. \A a, b \in Nat : a <= b =>
            /\ (IF b * 2 < 8 THEN 8 ELSE b * 2) \in Nat
            /\ a + 1 <= (IF b * 2 < 8 THEN 8 ELSE b * 2)
      OBVIOUS
    <3> HIDE DEF L
    <3>. QED
      BY <3>1, <1>1 DEF NewMax
  <2>2. Room = [m \in 1 .. N |->
                  IF m <= num /\ m * EntrySize(kind) <= Copied(kind, num) THEN slots[m] ELSE 0]
    BY <1>3 DEF Room, Grown, Max
  <2>3. \A m \in 1 .. num : m \in 1 .. L /\ slots[m] \in Nat
    BY <1>1
  <2> HIDE DEF N, L
  <2>4. \A m \in 1 .. N : Room[m] \in Nat
    BY <2>1, <2>2, <2>3, <1>1
  <2>5. Room \in Seq(Nat) /\ Len(Room) = N
    BY <2>1, <2>2, <2>4
  <2>6. ASSUME kind = "locals", NEW m \in 1 .. num PROVE Room[m] = slots[m]
    <3>1. EntrySize(kind) = 4 /\ Copied(kind, num) = num * 4
      BY <2>6 DEF EntrySize, Copied
    <3>2. m \in 1 .. N /\ m <= num /\ m * 4 <= num * 4
      BY <2>1, <2>6, <1>1
    <3>. QED
      BY <2>2, <3>1, <3>2
  <2>7. \A m \in 1 .. num : Room[m] = slots[m] \/ Room[m] = 0
    BY <2>1, <2>2, <1>1
  <2>8. num >= Max
    BY <1>3 DEF L, Max
  <2>. QED
    BY <2>1, <2>5, <2>6, <2>7, <2>8
<1>. QED
  BY <1>1, <1>2, <1>3

(* A new entry keeps every index that was handed out since the table last  *)
(* grew, and those of locals from before.                                   *)
LEMMA InsertKeeps ==
  ASSUME TypeOK, Kept, NEW e \in Nat, Insert(e)
  PROVE  /\ TypeOK' /\ Kept'
         /\ num' = num + 1 /\ kind' = kind /\ issued'[num + 1] = e
         /\ \A m \in 1 .. num : issued'[m] = issued[m]
<1>1. /\ slots' = [Room EXCEPT ![num + 1] = e] /\ num' = num + 1
      /\ issued' = Append(issued, e) /\ kind' = kind
      /\ before' = IF num >= Max THEN num ELSE before
  BY DEF Insert
<1>2. /\ Room \in Seq(Nat) /\ num + 1 <= Len(Room)
      /\ \A m \in 1 .. num :
              Room[m] = slots[m] \/ (num >= Max /\ kind # "locals" /\ Room[m] = 0)
  BY RoomKeeps
<1>3. num \in Nat /\ issued \in Seq(Nat) /\ Len(issued) = num /\ before \in 0 .. num
  BY DEF TypeOK
<1>4. slots' \in Seq(Nat) /\ num' <= Len(slots')
  BY <1>1, <1>2, <1>3
<1>5. /\ issued' \in Seq(Nat) /\ Len(issued') = num' /\ issued'[num + 1] = e
      /\ \A m \in 1 .. num : issued'[m] = issued[m]
  BY <1>1, <1>3
<1>6. before' \in 0 .. num' /\ before <= before' /\ (num >= Max => before' = num)
  BY <1>1, <1>3
<1>7. TypeOK'
  BY <1>1, <1>3, <1>4, <1>5, <1>6 DEF TypeOK
<1>8. ASSUME NEW m \in 1 .. num'
      PROVE  slots'[m] = issued'[m] \/ (kind' # "locals" /\ m <= before' /\ slots'[m] = 0)
  <2>1. CASE m = num + 1
    BY <2>1, <1>1, <1>2, <1>3, <1>5
  <2>2. CASE m \in 1 .. num
    <3>1. slots[m] = issued[m] \/ (kind # "locals" /\ m <= before /\ slots[m] = 0)
      BY <2>2 DEF Kept
    <3>2. slots'[m] = Room[m] /\ issued'[m] = issued[m]
      BY <2>2, <1>1, <1>2, <1>3, <1>5
    <3>3. CASE Room[m] = slots[m]
      <4>1. m <= before => m <= before'
        BY <1>3, <1>6, <2>2
      <4>. QED
        BY <1>1, <3>1, <3>2, <3>3, <4>1
    <3>4. CASE num >= Max /\ kind # "locals" /\ Room[m] = 0
      BY <1>1, <1>3, <1>6, <2>2, <3>2, <3>4
    <3>. QED
      BY <1>2, <2>2, <3>3, <3>4
  <2>. QED
    BY <2>1, <2>2, <1>1, <1>3
<1>9. Kept'
  BY <1>8 DEF Kept
<1>. QED
  BY <1>1, <1>5, <1>7, <1>9

(* What is offered to the tables is an entry.                               *)
LEMMA OfferedEntry ==
  ASSUME TypeOK, NEW e \in Offered
  PROVE  e \in Nat
<1>1. /\ num \in Nat /\ issued \in Seq(Nat) /\ Len(issued) = num
      /\ kind = "sourceLocations" => num > 0
  BY DEF TypeOK
<1>2. \A m \in 1 .. num : issued[m] \in Nat
  BY <1>1
<1>. QED
  BY <1>1, <1>2 DEF Offered

(* The tables the compiler starts with.                                     *)
LEMMA InitInv == Init => IInv
<1> SUFFICES ASSUME Init PROVE IInv
  OBVIOUS
<1>1. kind \in Kinds /\ num \in {0, 1} /\ (kind = "sourceLocations" => num = 1)
  BY DEF Init
<1>2. InitialMax(kind) \in Nat /\ num <= InitialMax(kind)
  BY DEF Init, InitialMax
<1>3. TypeOK
  BY <1>1, <1>2, ZerosSeq DEF Init, TypeOK
<1>4. Kept
  <2>1. num <= InitialMax(kind) /\ issued = Zeros(num) /\ slots = Zeros(InitialMax(kind))
    BY <1>2 DEF Init
  <2>2. \A m \in 1 .. num : m \in 1 .. InitialMax(kind)
    BY <1>1, <1>2
  <2>. QED
    BY <2>1, <2>2 DEF Kept, Zeros
<1>5. LookupInv
  BY DEF Init, LookupInv
<1>. QED
  BY <1>3, <1>4, <1>5 DEF IInv

(* A new string gets an index of its own, and the dictionary learns it.     *)
LEMMA AddStringInv ==
  ASSUME IInv, NEW e \in Nat, AddString(e)
  PROVE  IInv'
<1>1. CASE e \in DOMAIN lookup
  <2>1. UNCHANGED vars
    BY <1>1 DEF AddString
  <2>. QED
    BY <2>1 DEF vars, IInv, TypeOK, Kept, LookupInv
<1>2. CASE e \notin DOMAIN lookup
  <2>1. /\ kind = "strings" /\ Insert(e)
        /\ lookup' = [x \in DOMAIN lookup \cup {e} |-> IF x = e THEN num ELSE lookup[x]]
    BY <1>2 DEF AddString
  <2>2. /\ TypeOK' /\ Kept'
        /\ num' = num + 1 /\ kind' = kind /\ issued'[num + 1] = e
        /\ \A m \in 1 .. num : issued'[m] = issued[m]
    BY <2>1, InsertKeeps DEF IInv
  <2>3. /\ num \in Nat
        /\ \A m \in 1 .. num : issued[m] \in DOMAIN lookup /\ lookup[issued[m]] = m - 1
        /\ \A x \in DOMAIN lookup : \E m \in 1 .. num : x = issued[m]
    BY <2>1 DEF IInv, TypeOK, LookupInv
  <2>4. ASSUME NEW m \in 1 .. num'
        PROVE  issued'[m] \in DOMAIN lookup' /\ lookup'[issued'[m]] = m - 1
    <3>1. CASE m = num + 1
      BY <3>1, <2>1, <2>2, <2>3
    <3>2. CASE m \in 1 .. num
      <4>1. issued'[m] = issued[m] /\ issued[m] \in DOMAIN lookup /\ lookup[issued[m]] = m - 1
        BY <3>2, <2>2, <2>3
      <4>2. issued[m] # e
        BY <1>2, <4>1
      <4>. QED
        BY <4>1, <4>2, <2>1
    <3>. QED
      BY <3>1, <3>2, <2>2, <2>3
  <2>5. ASSUME NEW x \in DOMAIN lookup' PROVE \E m \in 1 .. num' : x = issued'[m]
    <3>1. CASE x = e
      <4>1. num + 1 \in 1 .. num'
        BY <2>2, <2>3
      <4>. QED
        BY <2>2, <3>1, <4>1
    <3>2. CASE x \in DOMAIN lookup
      <4>1. PICK m \in 1 .. num : x = issued[m]
        BY <2>3, <3>2
      <4>2. m \in 1 .. num' /\ x = issued'[m]
        BY <2>2, <2>3, <4>1
      <4>. QED
        BY <4>2
    <3>. QED
      BY <3>1, <3>2, <2>1
  <2>6. LookupInv'
    BY <2>4, <2>5 DEF LookupInv
  <2>. QED
    BY <2>2, <2>6 DEF IInv
<1>. QED
  BY <1>1, <1>2

(* The invariant is inductive.                                              *)
LEMMA NextInv ==
  ASSUME IInv, [Next]_vars
  PROVE  IInv'
<1>1. ASSUME UNCHANGED vars PROVE IInv'
  BY <1>1 DEF vars, IInv, TypeOK, Kept, LookupInv
<1>2. ASSUME NEW e \in Nat, Insert(e), kind # "strings" PROVE IInv'
  BY <1>2, InsertKeeps DEF IInv, LookupInv
<1>3. \A e \in Offered : e \in Nat
  BY OfferedEntry DEF IInv
<1>4. ASSUME NEW e \in Nat, AddString(e) PROVE IInv'
  BY <1>4, AddStringInv
<1>. QED
  BY <1>1, <1>2, <1>3, <1>4
  DEF Next, Finished, AddObject, AddUserFunctionInfo, AddTillContinuationInfo, AddLocal,
      AddNewSourceLocation

(* However many entries are added and however often a table grows: every   *)
(* slot of the seven tables holds the entry its index was handed out for,   *)
(* or nothing if the table, not the locals', has grown since (MemCpy copies *)
(* as many bytes as there are entries); and a string that is added again    *)
(* gets the index of its slot (Compiler_AddString).                         *)
THEOREM IndexesStay == Spec => []IndexesKept
<1>1. Init => IInv
  BY InitInv
<1>2. IInv /\ [Next]_vars => IInv'
  BY NextInv
<1>3. IInv => IndexesKept
  BY DEF IInv, Kept, LookupInv, IndexesKept
<1>. QED
  BY <1>1, <1>2, <1>3, PTL DEF Spec
=============================================================================
