--------------------------- MODULE CompiledTables ---------------------------
(***************************************************************************)
(* The tables the compiler numbers things in (eval/compiler.c): strings,   *)
(* objects, user functions, till loops (one table for the program and one  *)
(* for each function), source locations, and the local variables of a      *)
(* function.  Byte code refers to an entry by its index, so an index that  *)
(* was handed out has to go on meaning the same entry when a table grows.  *)
(*                                                                         *)
(* Entries are numbers; 0 is a slot without the entry that belongs there.  *)
(* MaxEntries bounds the number of entries.                                *)
(***************************************************************************)
EXTENDS Integers, Sequences

CONSTANTS Kinds, MaxEntries

AllKinds == {"strings", "objects", "userFunctions", "tillInfos", "functionTillInfos",
             "sourceLocations", "locals"}

ASSUME KindsAssumption == Kinds \subseteq AllKinds /\ MaxEntries \in Nat

VARIABLES
  kind, slots, num,
  lookup,   \* stringLookup
  issued,   \* history: the entry that each index was handed out for
  before    \* history: how many entries there were when the table last grew

vars == <<kind, slots, num, issued, lookup, before>>

(* How large a table is at first, and the bytes of one entry (64 bit).      *)
InitialMax(k) == CASE k \in {"strings", "userFunctions", "locals"} -> 16
                   [] k = "sourceLocations" -> 256
                   [] OTHER -> 0
EntrySize(k) == CASE k = "locals" -> 4 [] k = "sourceLocations" -> 24 [] OTHER -> 8

Zeros(n) == [m \in 1 .. n |-> 0]
Max == Len(slots)

(* The zeroth source location is there from the start, and means none.      *)
Init ==
  /\ kind \in Kinds
  /\ num = IF kind = "sourceLocations" THEN 1 ELSE 0
  /\ issued = Zeros(num)
  /\ slots = Zeros(InitialMax(kind))
  /\ lookup = <<>>
  /\ before = 0

NewMax(max) == IF max * 2 < 8 THEN 8 ELSE max * 2

(* As a bug would have it: the number of entries for that of bytes.         *)
CopiedAsBytes(k, n) == n

(* The length given to MemCpy when a table grows.                           *)
Copied(k, n) == IF k = "locals" THEN n * EntrySize(k) ELSE n

(* A larger table, with what of the old one was copied.                     *)
Grown ==
  [m \in 1 .. NewMax(Max) |->
     IF m <= num /\ m * EntrySize(kind) <= Copied(kind, num) THEN slots[m] ELSE 0]

Room == IF num >= Max THEN Grown ELSE slots

(* What all the Add functions do with an entry that is new.                 *)
Insert(e) ==
  /\ num < MaxEntries
  /\ slots' = [Room EXCEPT ![num + 1] = e]
  /\ num' = num + 1
  /\ issued' = Append(issued, e)
  /\ before' = IF num >= Max THEN num ELSE before
  /\ UNCHANGED kind

AddObject(e) == kind = "objects" /\ Insert(e) /\ UNCHANGED lookup

AddUserFunctionInfo(e) == kind = "userFunctions" /\ Insert(e) /\ UNCHANGED lookup

(* One entry in the program's table and one in the function's.              *)
AddTillContinuationInfo(e) ==
  kind \in {"tillInfos", "functionTillInfos"} /\ Insert(e) /\ UNCHANGED lookup

AddLocal(e) == kind = "locals" /\ Insert(e) /\ UNCHANGED lookup

(* A string that is there already keeps its index.                          *)
AddString(e) ==
  /\ kind = "strings"
  /\ IF e \in DOMAIN lookup THEN UNCHANGED vars
     ELSE /\ Insert(e)
          /\ lookup' = [x \in DOMAIN lookup \cup {e} |-> IF x = e THEN num ELSE lookup[x]]

(* Of the source locations only the last one is compared.                   *)
AddNewSourceLocation(e) ==
  /\ kind = "sourceLocations"
  /\ IF slots[num] = e THEN UNCHANGED vars ELSE Insert(e) /\ UNCHANGED lookup

(* What may be added next: something new, or where that makes a difference  *)
(* the first or the last entry once more.                                   *)
Offered ==
  {num + 1} \cup (CASE kind = "strings" /\ num > 0 -> {issued[1], issued[num]}
                    [] kind = "sourceLocations"    -> {issued[num]}
                    [] OTHER                       -> {})

(* There is nothing more to compile than the bound allows.                  *)
Finished == num = MaxEntries /\ UNCHANGED vars

Next ==
  \/ Finished
  \/ \E e \in Offered :
       \/ AddObject(e) \/ AddUserFunctionInfo(e) \/ AddTillContinuationInfo(e)
       \/ AddLocal(e) \/ AddString(e) \/ AddNewSourceLocation(e)

Spec == Init /\ [][Next]_vars

-----------------------------------------------------------------------------
(* An index is that of the slot that holds the entry it was handed out for, *)
(* in each of the seven tables, as long as the table has not grown since,   *)
(* and for a local however often it grows (CompilerFunction_AddLocal).  The *)
(* other tables lose entries when they grow, MemCpy being given their       *)
(* number for that of bytes (compiler.c:374): what byte code then finds in  *)
(* a slot is nothing, or the front of a source location, but never another  *)
(* entry.  A string has one index, that of the slot it was put into         *)
(* (Compiler_AddString).                                                    *)
IndexesKept ==
  /\ \A m \in 1 .. num :
       \/ slots[m] = issued[m]
       \/ kind # "locals" /\ m <= before /\ slots[m] = 0
  /\ kind = "strings" =>
       \A m \in 1 .. num : issued[m] \in DOMAIN lookup /\ lookup[issued[m]] = m - 1
=============================================================================
