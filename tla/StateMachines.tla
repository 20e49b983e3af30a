--------------------------- MODULE StateMachines ----------------------------
(***************************************************************************)
(* Methods that call a function of the program again and again: each, map, *)
(* where, any?, all?, count, first, index-of, of lists and of ranges, and  *)
(* sort and sort! of lists (smilelist_class.c, smilelist.c,                *)
(* smileinteger16range_base.generated.c).                                  *)
(*                                                                         *)
(* Such a method does not call the function itself.  It pushes a closure   *)
(* whose code is two instructions (eval.c: Op_StateMachStart, _Body), and  *)
(* these run a C function that looks at the last answer, pushes the        *)
(* function and its arguments, and returns; the machine makes the call.    *)
(* Between two runs of that C function the program is in control: it may   *)
(* assign to the very cells the method is walking over, and it may never   *)
(* come back.                                                              *)
(*                                                                         *)
(* A behaviour is one call of one method.  The argument is a list of the   *)
(* cells 1 .. n, linked in this order, or a range.  The cells that only    *)
(* the method holds until it returns are a sequence of their contents.     *)
(***************************************************************************)
EXTENDS Integers, Sequences, FiniteSets

CONSTANTS
  MaxLoop,     \* bound on the length of lists that are looped over
  MaxSort,     \* bound on the length of lists that are sorted
  MaxAssigns,  \* bound on the assignments the program makes meanwhile
  Keys,        \* what the cells of a list that is sorted by content hold
  Half,        \* half the number of values that a range's numbers have, 2^15 in the code
  ByteValues   \* how many values a Byte has, 256 in the code

ASSUME BoundsAssumption == MaxLoop \in Nat /\ MaxSort \in Nat /\ MaxAssigns \in Nat
ASSUME WidthAssumption == Half \in Nat \ {0} /\ ByteValues \in Nat \ {0, 1}
ASSUME KeysAssumption == Keys \subseteq Int

VARIABLES
  a, d,     \* the two fields of every cell
  call,     \* what was called, and on what
  pc,       \* where the method is, "user" while the function runs
  stack,    \* of the method's closure
  info,     \* closure->state
  seen,     \* the calls of the function that came back, in order
  assigns   \* how many assignments the program has made

vars == <<a, d, call, pc, stack, info, seen, assigns>>

(* Values on the stack, and what is in them.                                *)
Fn == <<"fn">>
None == <<"null">>
Num(x) == <<"int", x>>
Bool(b) == <<"bool", b>>
List(s) == <<"list", s>>

Null == 0
Searches == {"any", "all", "count", "first", "index-of"}
Loops == {"each", "map", "where"} \cup Searches
Sorts == {"sort", "sort!"}
Numbers == -Half .. Half - 1

(* LIST_REST: the null object has itself as its rest.                       *)
Rest(c) == IF c = Null THEN Null ELSE d[c]

(* The cells from c on, as long as there are any, up to k of them.          *)
Ahead(c, k) ==
  LET at[i \in 0 .. k] == IF i = 0 THEN c ELSE Rest(at[i - 1]) IN at
Cells(c) == {Ahead(c, Len(d))[i] : i \in 0 .. Len(d)} \ {Null}

IsRange == call.of = "range"
-----------------------------------------------------------------------------
(* Op_StateMachStart and Op_StateMachBody call the function that lies under *)
(* the arguments, or return the value on top to the caller.                 *)
CallUser(st, args, i) ==
  /\ stack' = st \o <<Fn>> \o args
  /\ info' = i
  /\ pc' = "user"
  /\ UNCHANGED <<a, d, call, seen, assigns>>

Return(st, v, i) ==
  /\ stack' = Append(st, v)
  /\ info' = i
  /\ pc' = "returned"
  /\ UNCHANGED <<a, d, call, seen, assigns>>

Popped == SubSeq(stack, 1, Len(stack) - 1)
Answer == stack[Len(stack)]
Truth == Answer[2]   \* toBool, of an answer that is a Boolean

(* How many arguments the function gets: a second one is the index.         *)
Argc ==
  CASE call.method \in Sorts -> 2
    [] IsRange -> IF call.arity <= 2 THEN call.arity ELSE 2
    [] ~IsRange /\ call.method \in Searches -> 1
    [] OTHER -> IF call.arity <= 1 THEN 1 ELSE 2

-----------------------------------------------------------------------------
(* Walking over the argument.                                               *)

(* As a bug would have it: along the links there were at the beginning.     *)
ListAdvanceEarly(i) == [i EXCEPT !.at = call.d[@], !.index = @ + 1]

(* The list: the register is a cell.                                        *)
ListAdvance(i) == [i EXCEPT !.at = Rest(@), !.index = @ + 1]

(* The range: the register is a number that may wrap, and whether to go on   *)
(* is found by looking from the end backwards, in wider arithmetic.         *)
Up(r) == r.end >= r.start
Wrap(x) == ((x + Half) % (2 * Half)) - Half

(* As a bug would have it: the sum is compared, after it has wrapped.       *)
RangeAdvanceBySum(i) ==
  LET r == call.range
      next == Wrap(i.at + r.step)
  IN [i EXCEPT !.at = IF (IF Up(r) THEN next <= r.end ELSE next >= r.end) THEN next ELSE @,
               !.done = ~(IF Up(r) THEN next <= r.end ELSE next >= r.end),
               !.index = @ + 1]

RangeAdvance(i) ==
  LET r == call.range
      fits == IF Up(r) THEN r.end - r.step >= i.at ELSE r.end - r.step <= i.at
  IN [i EXCEPT !.at = IF fits THEN Wrap(@ + r.step) ELSE @, !.done = ~fits, !.index = @ + 1]

RangeEmpty(r) == IF Up(r) THEN r.step <= 0 ELSE r.step >= 0

More(i) == IF IsRange THEN ~i.done ELSE i.at # Null
Item(i) == IF IsRange THEN i.at ELSE a[i.at]
Advance(i) == IF IsRange THEN RangeAdvance(i) ELSE ListAdvance(i)
Args(i) == SubSeq(<<Num(Item(i)), Num(i.index)>>, 1, Argc)

(* The start function asks for the first item; the body function adds what  *)
(* the program has answered, which makes it i, moves on and asks for the    *)
(* next.                                                                    *)
NextCall(st, i, over) == IF More(i) THEN CallUser(st, Args(i), i) ELSE Return(st, over, i)

Iterate(i, over) ==
  \/ pc = "start" /\ NextCall(stack, i, over)
  \/ pc = "body" /\ NextCall(Popped, Advance(i), over)

AnsweredYes == pc = "body" /\ Truth
AnsweredNo == pc = "body" /\ ~Truth

(* As a bug would have it: the answers stay on the stack.                   *)
EachWithoutPop ==
  /\ call.method = "each" /\ pc \in {"start", "body"}
  /\ IF More(info) THEN CallUser(stack, Args(info), Advance(info))
                   ELSE Return(Popped, <<"argument">>, info)

(* One function is both the start and the body of each.  It starts with a   *)
(* value to pop, and it moves on before it asks.                            *)
Each ==
  /\ call.method = "each" /\ pc \in {"start", "body"}
  /\ IF More(info) THEN CallUser(Popped, Args(info), Advance(info))
                   ELSE Return(Popped, <<"argument">>, info)

Map ==
  LET i == IF pc = "body" THEN [info EXCEPT !.result = Append(@, Answer)] ELSE info
  IN call.method = "map" /\ Iterate(i, List(i.result))

Where ==
  LET i == IF AnsweredYes THEN [info EXCEPT !.result = Append(@, Num(Item(info)))] ELSE info
  IN call.method = "where" /\ Iterate(i, List(i.result))

Count ==
  LET i == IF AnsweredYes THEN [info EXCEPT !.count = @ + 1] ELSE info
  IN call.method = "count" /\ Iterate(i, Num(i.count))

(* any? stops at the first true, all? at the first false.                   *)
AnyAll ==
  LET complement == call.method = "all"
      decided == IF complement THEN AnsweredNo ELSE AnsweredYes
  IN /\ call.method \in {"any", "all"} /\ ~IsRange
     /\ \/ decided /\ Return(Popped, Bool(~complement), info)
        \/ ~decided /\ Iterate(info, Bool(complement))

Find ==
  /\ call.method \in {"first", "index-of"} /\ ~IsRange
  /\ \/ /\ AnsweredYes
        /\ Return(Popped, Num(IF call.method = "first" THEN Item(info) ELSE info.index), info)
     \/ ~AnsweredYes /\ Iterate(info, None)

RangeFind ==
  /\ call.method \in {"first", "index-of", "any"} /\ IsRange
  /\ \/ /\ AnsweredYes
        /\ Return(Popped, CASE call.method = "first" -> Num(info.at)
                            [] call.method = "index-of" -> Num(info.index)
                            [] call.method = "any" -> Bool(TRUE), info)
     \/ ~AnsweredYes /\ Iterate(info, IF call.method = "any" THEN Bool(FALSE) ELSE None)

RangeAll ==
  /\ call.method = "all" /\ IsRange
  /\ \/ AnsweredNo /\ Return(Popped, Bool(FALSE), info)
     \/ ~AnsweredNo /\ Iterate(info, Bool(TRUE))

-----------------------------------------------------------------------------
(* sort: the argument is cloned, one cell per turn, with a second pointer   *)
(* two cells a turn ahead to notice a list that never ends.                 *)
NoSort == [list |-> Null, p |-> Null, q |-> Null, tail |-> Null,
           stepSize |-> 1, psize |-> 0, qsize |-> 0, numMerges |-> 0]

StartClone ==
  /\ pc = "called"
  /\ IF call.head = Null
     THEN pc' = "start" /\ info' = NoSort
     ELSE /\ pc' = "clone"
          /\ info' = [tortoise |-> Rest(call.head), hare |-> Rest(Rest(call.head)),
                      copy |-> <<a[call.head]>>]
  /\ UNCHANGED <<a, d, call, stack, seen, assigns>>

CloneCell ==
  /\ pc = "clone" /\ info.tortoise # info.hare /\ info.tortoise # Null
  /\ info' = [tortoise |-> Rest(info.tortoise), hare |-> Rest(Rest(info.hare)),
              copy |-> Append(info.copy, a[info.tortoise])]
  /\ UNCHANGED <<a, d, call, pc, stack, seen, assigns>>

(* As a bug would have it: the list is checked and then sorted itself.      *)
FinishCloneInPlace ==
  /\ pc = "clone" /\ (info.tortoise = info.hare \/ info.tortoise = Null)
  /\ IF info.tortoise # Null
     THEN pc' = "thrown" /\ UNCHANGED <<a, d, info>>
     ELSE pc' = "start" /\ info' = [NoSort EXCEPT !.list = call.head] /\ UNCHANGED <<a, d>>
  /\ UNCHANGED <<call, stack, seen, assigns>>

FinishClone ==
  LET n == Len(a)
      m == Len(info.copy)
  IN /\ pc = "clone" /\ (info.tortoise = info.hare \/ info.tortoise = Null)
     /\ IF info.tortoise # Null
        THEN pc' = "thrown" /\ UNCHANGED <<a, d, info>>
        ELSE /\ a' = a \o info.copy
             /\ d' = d \o [i \in 1 .. m |-> IF i < m THEN n + i + 1 ELSE Null]
             /\ info' = [NoSort EXCEPT !.list = n + 1]
             /\ pc' = "start"
     /\ UNCHANGED <<call, stack, seen, assigns>>

-----------------------------------------------------------------------------
(* The merge sort, turned inside out: it stops wherever it needs two items  *)
(* compared and goes on from there with the answer.                         *)
Sorting == call.method \in Sorts
SortStep(i, to) == info' = i /\ pc' = to /\ UNCHANGED <<a, call, stack, seen, assigns>>

Initial ==
  /\ pc = "start" /\ Sorting
  /\ IF info.list = Null THEN Return(stack, <<"cell", Null>>, info)
                         ELSE SortStep(info, "outer") /\ UNCHANGED d

OuterLoop ==
  /\ pc = "outer"
  /\ SortStep([info EXCEPT !.p = info.list, !.list = Null, !.tail = Null, !.numMerges = 0], "step")
  /\ UNCHANGED d

(* q goes stepSize cells ahead of p, or as far as there are any.            *)
StepLoop ==
  LET ahead == Ahead(info.p, info.stepSize)
      psize == Cardinality({i \in 0 .. info.stepSize - 1 : ahead[i] # Null})
  IN /\ pc = "step" /\ info.p # Null
     /\ SortStep([info EXCEPT !.numMerges = (@ + 1) % ByteValues, !.q = ahead[info.stepSize],
                              !.psize = psize, !.qsize = info.stepSize], "merge")
     /\ UNCHANGED d

(* As a bug would have it: the step stays as it is.                         *)
AfterStepLoopSame ==
  /\ pc = "step" /\ info.p = Null
  /\ d' = [d EXCEPT ![info.tail] = Null]
  /\ IF info.numMerges <= 1
     THEN /\ stack' = Append(stack, <<"cell", info.list>>) /\ pc' = "returned"
          /\ UNCHANGED <<a, call, info, seen, assigns>>
     ELSE SortStep(info, "outer")

AfterStepLoop ==
  /\ pc = "step" /\ info.p = Null
  /\ d' = [d EXCEPT ![info.tail] = Null]
  /\ IF info.numMerges <= 1
     THEN /\ stack' = Append(stack, <<"cell", info.list>>) /\ pc' = "returned"
          /\ UNCHANGED <<a, call, info, seen, assigns>>
     ELSE SortStep([info EXCEPT !.stepSize = 2 * @], "outer")

(* GOT_NEXT_LOWEST                                                          *)
Take(side) ==
  LET e == IF side = "p" THEN info.p ELSE info.q
      i == IF side = "p" THEN [info EXCEPT !.p = Rest(@), !.psize = @ - 1]
                         ELSE [info EXCEPT !.q = Rest(@), !.qsize = @ - 1]
  IN /\ d' = IF info.tail = Null THEN d ELSE [d EXCEPT ![info.tail] = e]
     /\ info' = [i EXCEPT !.tail = e, !.list = IF info.tail = Null THEN e ELSE @]
     /\ pc' = "merge"

PEnded == info.psize = 0
QEnded == info.qsize = 0 \/ info.q = Null

MergeLoop ==
  /\ pc = "merge"
  /\ \/ PEnded /\ QEnded /\ SortStep([info EXCEPT !.p = info.q], "step") /\ UNCHANGED d
     \/ PEnded /\ ~QEnded /\ Take("q") /\ UNCHANGED <<a, call, stack, seen, assigns>>
     \/ ~PEnded /\ QEnded /\ Take("p") /\ UNCHANGED <<a, call, stack, seen, assigns>>
     \/ ~PEnded /\ ~QEnded /\ CallUser(stack, <<Num(a[info.p]), Num(a[info.q])>>, info)

(* As a bug would have it: equal items are taken from the second list.      *)
AfterCompareUnstable ==
  /\ pc = "body" /\ Sorting
  /\ stack' = Popped
  /\ IF Answer = None THEN pc' = "thrown" /\ UNCHANGED <<d, info>>
                      ELSE Take(IF Answer[2] < 0 THEN "p" ELSE "q")
  /\ UNCHANGED <<a, call, seen, assigns>>

(* An answer that is not an integer is an error.                            *)
AfterCompare ==
  /\ pc = "body" /\ Sorting
  /\ stack' = Popped
  /\ IF Answer = None THEN pc' = "thrown" /\ UNCHANGED <<d, info>>
                         ELSE Take(IF Answer[2] <= 0 THEN "p" ELSE "q")
  /\ UNCHANGED <<a, call, seen, assigns>>

-----------------------------------------------------------------------------
(* The program.                                                             *)
Sign(x) == IF x < 0 THEN -1 ELSE IF x > 0 THEN 1 ELSE 0
Given == SubSeq(stack, Len(stack) - Argc + 1, Len(stack))

Answers ==
  CASE call.method = "each" -> {None}
    [] call.method \in Loops \ {"each"} -> {Bool(TRUE), Bool(FALSE)}
    [] Sorting /\ call.order = "keys" -> {Num(Sign(Given[1][2] - Given[2][2]))}
    [] OTHER -> {Num(-1), Num(0), Num(1), None}

(* The function returns.  What it was given, what it has answered, and what *)
(* the cell holds by then, are remembered.                                  *)
UserReturns(r) ==
  /\ pc = "user" /\ r \in Answers
  /\ stack' = Append(SubSeq(stack, 1, Len(stack) - Argc - 1), r)
  /\ pc' = "body"
  /\ seen' = IF Sorting THEN seen
             ELSE Append(seen, [given |-> Given, answer |-> r,
                                kept |-> IF call.method = "each" THEN None ELSE Num(Item(info))])
  /\ UNCHANGED <<a, d, call, info, assigns>>

(* The function assigns to a cell of the list: another content, or another  *)
(* rest, further down the list (so that the list still ends).  The cells of *)
(* a list that is being sorted in place keep their links.                   *)
MayAssign == pc = "user" /\ ~IsRange /\ assigns < MaxAssigns /\ call.order # "keys"

UserSetsA(c, k) ==
  /\ MayAssign /\ a' = [a EXCEPT ![c] = k]
  /\ assigns' = assigns + 1 /\ UNCHANGED <<d, call, pc, stack, info, seen>>

UserSetsD(c, e) ==
  /\ MayAssign /\ call.method # "sort!" /\ (e > c \/ e = Null)
  /\ d' = [d EXCEPT ![c] = e]
  /\ assigns' = assigns + 1 /\ UNCHANGED <<a, call, pc, stack, info, seen>>

(* It throws, or leaves a till loop around the call.                        *)
UserEscapes == pc = "user" /\ pc' = "escaped" /\ UNCHANGED <<a, d, call, stack, info, seen, assigns>>

Over == pc \in {"returned", "thrown", "escaped"}
Finished == Over /\ UNCHANGED vars
-----------------------------------------------------------------------------
(* The calls: SMILE_EXTERNAL_FUNCTION(Each), (Map), .. and what they put    *)
(* into the closure's state.                                                *)
Linked(n, last) == [i \in 1 .. n |-> IF i < n THEN i + 1 ELSE last]
Calls(method, of, head, arity, order, range) ==
  call = [method |-> method, of |-> of, head |-> head, arity |-> arity, order |-> order,
          range |-> range, a |-> a, d |-> d]
HeadOf(n) == IF n = 0 THEN Null ELSE 1
NoRange == [start |-> 0, end |-> 0, step |-> 0]
LoopInfo(at, done) == [at |-> at, done |-> done, index |-> 0, count |-> 0, result |-> <<>>]

InitList ==
  \E n \in 0 .. MaxLoop, method \in Loops, arity \in {1, 2} :
    /\ a = [i \in 1 .. n |-> i] /\ d = Linked(n, Null)
    /\ Calls(method, "list", HeadOf(n), arity, "none", NoRange)
    /\ info = LoopInfo(HeadOf(n), FALSE)
    /\ stack = IF method = "each" THEN <<None>> ELSE <<>>
    /\ pc = "start"

InitRange ==
  \E r \in [start : Numbers, end : Numbers, step : Numbers], method \in Loops, arity \in 0 .. 2 :
    /\ arity = 0 => method = "each"
    /\ a = <<>> /\ d = <<>>
    /\ Calls(method, "range", Null, arity, "none", r)
    /\ info = LoopInfo(r.start, RangeEmpty(r))
    /\ stack = IF method = "each" THEN <<None>> ELSE <<>>
    /\ pc = "start"

InitSort ==
  \E method \in Sorts, order \in {"keys", "any"}, n \in 0 .. MaxSort, last \in 0 .. MaxSort :
    /\ last # Null => method = "sort" /\ order = "any" /\ last <= n
    /\ order = "any" => n <= MaxLoop
    /\ IF order = "keys" THEN a \in [1 .. n -> Keys] ELSE a = [i \in 1 .. n |-> i]
    /\ d = Linked(n, last)
    /\ Calls(method, "list", HeadOf(n), 2, order, NoRange)
    /\ info = [NoSort EXCEPT !.list = HeadOf(n)]
    /\ stack = <<>>
    /\ pc = IF method = "sort" THEN "called" ELSE "start"

Init == (InitList \/ InitRange \/ InitSort) /\ seen = <<>> /\ assigns = 0

Machine ==
  \/ Each \/ Map \/ Where \/ Count \/ AnyAll \/ Find \/ RangeFind \/ RangeAll
  \/ StartClone \/ CloneCell \/ FinishClone
  \/ Initial \/ OuterLoop \/ StepLoop \/ AfterStepLoop \/ MergeLoop \/ AfterCompare

Returns == pc = "user" /\ \E r \in Answers : UserReturns(r)

User ==
  \/ Returns \/ UserEscapes
  \/ \E c \in 1 .. Len(call.a), k \in Keys : UserSetsA(c, k)
  \/ \E c \in 1 .. Len(call.a), e \in 0 .. Len(call.a) : UserSetsD(c, e)

Next == Machine \/ User \/ Finished

Spec == Init /\ [][Next]_vars
FairSpec == Spec /\ WF_vars(Machine) /\ WF_vars(Returns)
-----------------------------------------------------------------------------
(* The times the answer was true, the place of one of them among them, and  *)
(* whether the last answer has decided the search.                          *)
Yes == {i \in 1 .. Len(seen) : seen[i].answer = Bool(TRUE)}
Rank(k) == Cardinality({j \in Yes : j <= k})
Decided ==
  /\ seen # <<>>
  /\ CASE call.method \in {"any", "first", "index-of"} -> Len(seen) \in Yes
       [] call.method = "all" -> Len(seen) \notin Yes
       [] OTHER -> FALSE

(* What the method is for, by what the function has answered.               *)
Expected ==
  CASE call.method = "each" -> <<"argument">>
    [] call.method = "map" -> List([i \in 1 .. Len(seen) |-> seen[i].answer])
    [] call.method = "where" ->
         List([i \in 1 .. Cardinality(Yes) |-> seen[CHOOSE k \in Yes : Rank(k) = i].kept])
    [] call.method = "count" -> Num(Cardinality(Yes))
    [] call.method = "any" -> Bool(Yes # {})
    [] call.method = "all" -> Bool(Yes = 1 .. Len(seen))
    [] call.method = "first" -> IF Decided THEN seen[Len(seen)].kept ELSE None
    [] call.method = "index-of" -> IF Decided THEN Num(Len(seen) - 1) ELSE None

(* When a method has gone through its argument, its closure holds one value *)
(* and it is what the answers of the program add up to; where and first     *)
(* give back what a cell held when the program answered.                    *)
ResultAgrees == pc = "returned" /\ call.method \in Loops => stack = <<Expected>>

(* The items of the argument, by number.                                    *)
Abs(x) == IF x < 0 THEN -x ELSE x
SizeOf ==
  IF IsRange
  THEN IF RangeEmpty(call.range) THEN 0
       ELSE Abs(call.range.end - call.range.start) \div Abs(call.range.step) + 1
  ELSE Len(call.a)
ItemOf(k) == IF IsRange THEN call.range.start + k * call.range.step ELSE call.a[k + 1]

(* The function is given every item of the list or range, once, in order,   *)
(* with its index when it takes two arguments, up to the answer that        *)
(* decides: no number of a range is missed or met again when the arithmetic *)
(* comes near the ends of the type.                                         *)
GoesThroughAll ==
  call.method \in Loops /\ assigns = 0 =>
    /\ Len(seen) <= SizeOf
    /\ \A k \in 1 .. Len(seen) : seen[k].given = SubSeq(<<Num(ItemOf(k - 1)), Num(k - 1)>>, 1, Argc)
    /\ pc = "returned" => Decided \/ Len(seen) = SizeOf

(* A cell that the program has taken out of the list while its function ran *)
(* is not visited any more (unless the cell before it was taken out as      *)
(* well).  Not so for each, which has read the next cell before the call.   *)
RemovedNotVisited ==
  [][pc = "body" /\ pc' = "user" /\ call.of = "list" /\ call.method \in Loops \ {"each"}
       => info'.at \in Cells(call.head) \/ info.at \notin Cells(call.head)]_vars

Result == stack[Len(stack)][2]

(* A list sorted by a proper comparison is in order, and equal items are in *)
(* the order they had.  Up to this length, that is: the merges of a pass    *)
(* are counted in a Byte, and one or none means that the list is sorted.    *)
SortedStably ==
  pc = "returned" /\ Sorting /\ call.order = "keys" /\ Len(call.a) <= 2 * ByteValues - 2 =>
    LET at == Ahead(Result, Len(call.a)) IN
    \A i, j \in 0 .. Len(call.a) - 1 :
      i < j => a[at[i]] < a[at[j]] \/ (a[at[i]] = a[at[j]] /\ at[i] < at[j])

(* Whatever the comparison answers, and whatever the program assigns        *)
(* meanwhile: the result has every cell once and ends; sort has copied the  *)
(* contents there were when it was called, and no method but sort! touches  *)
(* its argument, also if it never gets to its end.                          *)
SortKeeps ==
  LET n == Len(call.a) IN
  /\ pc = "returned" /\ Sorting =>
       /\ Cells(Result) = (IF call.method = "sort" THEN n + 1 .. 2 * n ELSE 1 .. n)
       /\ Ahead(Result, n)[n] = Null
       /\ call.method = "sort" => SubSeq(a, n + 1, 2 * n) = call.a
  /\ call.method # "sort!" /\ assigns = 0 => SubSeq(a, 1, n) = call.a /\ SubSeq(d, 1, n) = call.d

(* Every method returns, provided that the function does: no answers of a   *)
(* comparison, however contradictory, keep a sort going, sort notices a     *)
(* list that never ends, and a range stops at the end of its type.          *)
Ends == <>Over
=============================================================================
