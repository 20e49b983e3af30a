-------------------------------- MODULE Eval --------------------------------
(***************************************************************************)
(* The byte-code machine (eval/eval.c, eval/closure.c), running what the   *)
(* compiler makes of one of Programs.                                      *)
(*                                                                         *)
(* A closure is the activation of a function: its variables, its part of   *)
(* the stack, and where to return to.  Closures and till continuations     *)
(* live on the collected heap, here two sequences that only grow.  Two     *)
(* external functions stand for the world: "ask" answers with either truth *)
(* value, "say" is given a value; log is the exchange so far.  MaxAsks     *)
(* bounds the number of questions.                                         *)
(*                                                                         *)
(* C does not check the stack.  An instruction that takes more operands    *)
(* than there are, or reads a variable that was never set, uses arbitrary  *)
(* memory; the machine then goes to status "corrupt" and stops.            *)
(***************************************************************************)
EXTENDS Meaning, FiniteSets

CONSTANTS Programs, MaxAsks

ASSUME MaxAsksAssumption == MaxAsks \in Nat

VARIABLES program, functions, closures, tills, globals, cur, pc, status, result, log

vars == <<program, functions, closures, tills, globals, cur, pc, status, result, log>>

(* The compiled functions of a program, by id.                              *)
Tables(p) ==
  LET fs == CompileGlobal(p)
  IN [id \in {f.id : f \in fs} |-> CHOOSE f \in fs : f.id = id]

Bool(b) == <<"bool", b>>
ToBool(v) == CASE v[1] = "null" -> FALSE
               [] v[1] = "bool" -> v[2]
               [] v[1] = "int"  -> v[2] # 0
               [] OTHER         -> TRUE

Closure(fn, parent, ret, retPc, variables) ==
  [fn |-> fn, parent |-> parent, ret |-> ret, retPc |-> retPc,
   vars |-> variables, stack |-> <<>>]

NoVariables == [x \in {} |-> Null]
Bind(f, x, v) == [y \in DOMAIN f \cup {x} |-> IF y = x THEN v ELSE f[y]]

(* Eval_Run: the function of the program, with no closure to return to.     *)
Init ==
  /\ program \in Programs
  /\ functions = Tables(program)
  /\ closures = <<Closure(Main, 0, 0, 0, NoVariables)>>
  /\ tills = <<>>
  /\ globals = [x \in {"ask", "say"} |-> <<"ext", x>>]
  /\ cur = 1 /\ pc = 0 /\ status = "run" /\ result = Null /\ log = <<>>

-----------------------------------------------------------------------------
FunctionOf(clo) == functions[closures[clo].fn]
Stack == closures[cur].stack
Instr == FunctionOf(cur).code[pc + 1]
Op    == Instr[1]
Depth == Len(Stack)
Top   == Stack[Depth]
Below(n) == SubSeq(Stack, 1, Depth - n)

(* The closure d levels up the chain of declaring closures.                 *)
Scope(d) ==
  LET up[n \in 0 .. d] == IF n = 0 THEN cur ELSE closures[up[n - 1]].parent IN up[d]

SetStack(s) == closures' = [closures EXCEPT ![cur].stack = s]
Step(n)     == pc' = pc + n
Keep        == UNCHANGED <<program, functions, cur, status, result>>
Throw       == /\ status' = "throw"
               /\ UNCHANGED <<program, functions, closures, tills, globals, cur, pc, result, log>>

(* What an instruction needs to find on the stack.                          *)
Operands ==
  CASE Op \in {"Pop1", "Not", "StX", "StpX", "StVar", "StpVar", "Bt", "Bf",
               "EndTill", "TillEsc", "Ret"} -> 1
    [] Op = "SuperEq" -> 2
    [] Op = "Call"    -> Instr[2] + 1
    [] OTHER          -> 0

Missing ==
  \/ Depth < Operands
  \/ Op = "LdVar" /\ Instr[3] \notin DOMAIN closures[Scope(Instr[2])].vars

-----------------------------------------------------------------------------
Push(v) ==
  /\ SetStack(Append(Stack, v))
  /\ Step(1) /\ Keep /\ UNCHANGED <<tills, globals, log>>

LoadConstant == \/ Op = "LdNull" /\ Push(Null)
                \/ Op = "LdVal" /\ Push(Instr[2])

(* A global that was never set is null.                                     *)
LoadGlobal ==
  Op = "LdX" /\ Push(IF Instr[2] \in DOMAIN globals THEN globals[Instr[2]] ELSE Null)

(* LdArg* and LdLoc*, of this closure or of one it is declared in.          *)
LoadVariable == Op = "LdVar" /\ Push(closures[Scope(Instr[2])].vars[Instr[3]])

(* A new function object remembers the closure that declares it.            *)
NewFn == Op = "NewFn" /\ Push(<<"fn", Instr[2], cur>>)

Pop1 ==
  /\ Op = "Pop1"
  /\ SetStack(Below(1))
  /\ Step(1) /\ Keep /\ UNCHANGED <<tills, globals, log>>

StoreGlobal ==
  /\ Op \in {"StX", "StpX"}
  /\ globals' = Bind(globals, Instr[2], Top)
  /\ SetStack(IF Op = "StpX" THEN Below(1) ELSE Stack)
  /\ Step(1) /\ Keep /\ UNCHANGED <<tills, log>>

(* StArg*, StLoc* and the forms that also pop.                              *)
StoreVariable ==
  /\ Op \in {"StVar", "StpVar"}
  /\ LET popped == [closures EXCEPT ![cur].stack = IF Op = "StpVar" THEN Below(1) ELSE Stack]
     IN closures' = [popped EXCEPT ![Scope(Instr[2])].vars = Bind(@, Instr[3], Top)]
  /\ Step(1) /\ Keep /\ UNCHANGED <<tills, globals, log>>

NullVariable ==
  /\ Op = "NullVar"
  /\ closures' = [closures EXCEPT ![cur].vars = Bind(@, Instr[2], Null)]
  /\ Step(1) /\ Keep /\ UNCHANGED <<tills, globals, log>>

(* A value of any other kind than Bool is inverted by its unboxed data: the *)
(* low byte of a number, nothing for an object.                             *)
Invert(v) == CASE v[1] = "bool" -> Bool(~v[2])
               [] v[1] = "int"  -> Bool(v[2] % 256 = 0)
               [] OTHER         -> Bool(TRUE)

Not ==
  /\ Op = "Not"
  /\ SetStack(Append(Below(1), Invert(Top)))
  /\ Step(1) /\ Keep /\ UNCHANGED <<tills, globals, log>>

SuperEq ==
  /\ Op = "SuperEq"
  /\ SetStack(Append(Below(2), Bool(Stack[Depth - 1] = Top)))
  /\ Step(1) /\ Keep /\ UNCHANGED <<tills, globals, log>>

Branch ==
  /\ Op \in {"Jmp", "Bt", "Bf"}
  /\ Step(IF Op = "Jmp" \/ ToBool(Top) = (Op = "Bt") THEN Instr[2] ELSE 1)
  /\ SetStack(IF Op = "Jmp" THEN Stack ELSE Below(1))
  /\ Keep /\ UNCHANGED <<tills, globals, log>>

-----------------------------------------------------------------------------
Callee    == Stack[Depth - Instr[2]]
Arguments == SubSeq(Stack, Depth - Instr[2] + 1, Depth)

(* SmileUserFunction_Fast*_Call.                                            *)
CallUser ==
  /\ Op = "Call" /\ Callee[1] = "fn"
  /\ LET f == functions[Callee[2]]
         args == [x \in Range(f.params) |-> Arguments[CHOOSE n \in DOMAIN f.params : f.params[n] = x]]
     IN IF Len(f.params) # Instr[2] THEN Throw
        ELSE /\ closures' = Append([closures EXCEPT ![cur].stack = Below(Instr[2] + 1)],
                                   Closure(Callee[2], Callee[3], cur, pc + 1, args))
             /\ cur' = Len(closures) + 1
             /\ pc' = 0
             /\ UNCHANGED <<program, functions, tills, globals, status, result, log>>

Asks == Cardinality({n \in DOMAIN log : log[n][1] = "asked"})
AtBound == Op = "Call" /\ Callee = <<"ext", "ask">> /\ Asks = MaxAsks

(* SmileExternalFunction_ExactCheck_Call.                                   *)
CallExternal ==
  /\ Op = "Call" /\ Callee[1] = "ext" /\ ~AtBound
  /\ IF Instr[2] # (IF Callee[2] = "say" THEN 1 ELSE 0) THEN Throw
     ELSE \E answer \in IF Callee[2] = "ask" THEN {Bool(TRUE), Bool(FALSE)} ELSE {Null} :
            /\ SetStack(Append(Below(Instr[2] + 1), answer))
            /\ log' = Append(log, IF Callee[2] = "ask" THEN <<"asked", answer>>
                                                       ELSE <<"said", Top>>)
            /\ Step(1) /\ Keep /\ UNCHANGED <<tills, globals>>

(* Anything else is not a function.                                         *)
CallOther == Op = "Call" /\ Callee[1] \notin {"fn", "ext"} /\ Throw

Ret ==
  /\ Op = "Ret"
  /\ IF closures[cur].ret = 0
       THEN /\ status' = "done" /\ result' = Top
            /\ SetStack(Below(1))
            /\ UNCHANGED <<program, functions, cur, pc>>
       ELSE /\ LET to == closures[cur].ret
                   popped == [closures EXCEPT ![cur].stack = Below(1)]
               IN closures' = [popped EXCEPT ![to].stack = Append(@, Top)]
            /\ cur' = closures[cur].ret
            /\ pc' = closures[cur].retPc
            /\ UNCHANGED <<program, functions, status, result>>
  /\ UNCHANGED <<tills, globals, log>>

-----------------------------------------------------------------------------
(* A till continuation remembers its closure and how deep the stack was.    *)
NewTill ==
  /\ Op = "NewTill"
  /\ tills' = Append(tills, [clo |-> cur, depth |-> Depth, targets |-> Instr[2], open |-> TRUE])
  /\ SetStack(Append(Stack, <<"till", Len(tills) + 1>>))
  /\ Step(1) /\ Keep /\ UNCHANGED <<globals, log>>

(* As a bug would have it: the loop stays open.                             *)
EndTillStaysOpen ==
  /\ Op = "EndTill"
  /\ SetStack(Below(1))
  /\ Step(1) /\ Keep /\ UNCHANGED <<tills, globals, log>>

EndTill ==
  /\ Op = "EndTill"
  /\ tills' = [tills EXCEPT ![Top[2]].open = FALSE]
  /\ SetStack(Below(1))
  /\ Step(1) /\ Keep /\ UNCHANGED <<globals, log>>

TillEsc ==
  /\ Op = "TillEsc"
  /\ LET t == tills[Top[2]]
         popped == [closures EXCEPT ![cur].stack = Below(1)]
     IN IF ~t.open THEN Throw
        ELSE /\ closures' = [popped EXCEPT ![t.clo].stack = SubSeq(@, 1, t.depth)]
             /\ cur' = t.clo
             /\ pc' = t.targets[Instr[2]]
             /\ UNCHANGED <<program, functions, tills, globals, status, result, log>>

(* The byte code pointer stays on the breakpoint.                           *)
Brk ==
  /\ Op = "Brk"
  /\ status' = "break"
  /\ UNCHANGED <<program, functions, closures, tills, globals, cur, pc, result, log>>

(* Eval_Continue, called by whoever was told of the breakpoint.             *)
Continue ==
  /\ status = "break"
  /\ status' = "run"
  /\ UNCHANGED <<program, functions, closures, tills, globals, cur, pc, result, log>>

Execute ==
  \/ LoadConstant \/ LoadGlobal \/ LoadVariable \/ NewFn \/ Pop1
  \/ StoreGlobal \/ StoreVariable \/ NullVariable \/ Not \/ SuperEq \/ Branch
  \/ CallUser \/ CallExternal \/ CallOther \/ Ret
  \/ NewTill \/ EndTill \/ TillEsc \/ Brk

(* One turn of the loop of Eval_RunCore.                                    *)
Run ==
  /\ status = "run"
  /\ IF ~Missing THEN Execute
     ELSE /\ status' = "corrupt"
          /\ UNCHANGED <<program, functions, closures, tills, globals, cur, pc, result, log>>

(* The program is over, or asks more than the bound allows.                 *)
Over == status \in {"done", "throw", "corrupt"} \/ (status = "run" /\ ~Missing /\ AtBound)
Stop == Over /\ UNCHANGED vars

Next == Run \/ Continue \/ Stop

Spec == Init /\ [][Next]_vars
FairSpec == Spec /\ WF_vars(Next)

-----------------------------------------------------------------------------
(* The closures that are still to be returned to, the current one included. *)
Active ==
  LET below[n \in 0 .. Len(closures)] ==
        IF n = 0 THEN {} ELSE {n} \cup below[closures[n].ret]
  IN below[cur]

(* The stack of a closure never outgrows the room that was allocated for    *)
(* it, closureInfo->tempSize, which is the compiler's maxStackDepth.        *)
StackFits ==
  \A c \in DOMAIN closures : Len(closures[c].stack) <= FunctionOf(c).tempSize

(* When a function comes to its end, its value is all that is on its stack: *)
(* nothing was left behind by a loop, a branch or an escape on the way.     *)
EndsBalanced ==
  status = "run" /\ Op = "Ret" /\ pc = Len(FunctionOf(cur).code) - 1 => Depth = 1

(* A till loop is left only from inside: the closure that an escape goes to *)
(* has not returned.                                                        *)
EscapesOnlyOutwards ==
  [][status = "run" /\ ~Missing /\ Op = "TillEsc" /\ status' = "run" => cur' \in Active]_vars

Answers ==
  LET asked == SelectSeq(log, LAMBDA x : x[1] = "asked")
  IN [n \in DOMAIN asked |-> asked[n][2]]

Plain(v) == IF v[1] \in {"fn", "lambda"} THEN <<"function">> ELSE v

(* A program that is over has asked and said what its source says, in that  *)
(* order, ended the same way and with the same value, and its functions     *)
(* have ended with nothing else on their stacks; one that stops at the      *)
(* bound of questions has more to ask in the source too.                    *)
SameAsSource ==
  /\ EndsBalanced
  /\ Over =>
       LET m == Meaning(program, Answers)
       IN /\ m.w.log = log
          /\ m.k \in (CASE status = "done"  -> {"value", "return"}
                        [] status = "throw" -> {"throw"}
                        [] status = "run"   -> {"more"}
                        [] OTHER            -> {})
          /\ status = "done" => Plain(m.v) = Plain(result)

(* A program whose loops all end by what it does itself comes to its end    *)
(* (or to the bound of questions): what the condition of a loop reads is    *)
(* what its body, or a function called from there, has written.             *)
Terminates == <>Over
=============================================================================
