--------------------------- MODULE CompiledBlock ---------------------------
(***************************************************************************)
(* The blocks the compiler builds its code from (eval/compiler/            *)
(* compiledblock.c and the inline helpers of compiler_internal.h).  A      *)
(* block is a list of instructions together with what the compiler         *)
(* believes they do to the stack: finalStackDelta, the net change, and     *)
(* maxStackDepth, the most they ever need.  The functions' stacks are      *)
(* allocated from these numbers.                                           *)
(*                                                                         *)
(* A child block is spliced into its parent at once (the code keeps it     *)
(* apart until CompiledBlock_Finish, which visits it in place).  A block   *)
(* also carries what compiling its expression left in the compiler: the    *)
(* functions it compiled, and the till loops whose flags were used from a  *)
(* nested function (wasReadDeep).                                          *)
(***************************************************************************)
EXTENDS Integers, Sequences

Empty == [code |-> <<>>, delta |-> 0, max |-> 0, escape |-> FALSE,
          functions |-> {}, deep |-> {}]

Larger(a, b) == IF a > b THEN a ELSE b

IsEmpty(block) == block.code = <<>>

(* CompiledBlock_AttachInstruction at the end: no stack accounting.         *)
Attach(block, instr) == [block EXCEPT !.code = Append(@, instr)]

Emit(block, instr, stackDelta) ==
  [block EXCEPT !.code = Append(@, instr),
                !.delta = @ + stackDelta,
                !.max = Larger(@, block.delta + stackDelta)]

(* Compiling has effects even when the code it yields is not used.          *)
Absorb(block, other) ==
  [block EXCEPT !.functions = @ \cup other.functions, !.deep = @ \cup other.deep]

(* As a bug would have it: the child's depth, but not above the parent's.   *)
AppendChildNotAbove(parent, child) ==
  IF IsEmpty(child) THEN Absorb(parent, child)
  ELSE [Absorb(parent, child) EXCEPT
          !.code = @ \o child.code,
          !.max = Larger(@, child.max),
          !.delta = @ + child.delta]

AppendChild(parent, child) ==
  IF IsEmpty(child) THEN Absorb(parent, child)
  ELSE [Absorb(parent, child) EXCEPT
          !.code = @ \o child.code,
          !.max = Larger(@, parent.delta + child.max),
          !.delta = @ + child.delta]

(* The flags of the second block are lost.                                  *)
Combine(first, second) ==
  IF IsEmpty(second) THEN Absorb(first, second)
  ELSE IF IsEmpty(first) THEN Absorb(second, first)
  ELSE [Absorb(first, second) EXCEPT
          !.code = @ \o second.code,
          !.max = Larger(@, second.max),
          !.delta = @ + second.delta]

PopIfNecessary(block, noResult) ==
  IF noResult THEN Emit(block, <<"Pop1">>, -1) ELSE block

EmitNoResult(block) ==
  IF block.escape \/ block.delta = 0 THEN block ELSE Emit(block, <<"Pop1">>, -1)

EmitRequireResult(block) ==
  IF block.escape \/ block.delta # 0 THEN block ELSE Emit(block, <<"LdNull">>, 1)

MakeStackMatchCompileFlags(block, noResult) ==
  IF noResult THEN EmitNoResult(block) ELSE EmitRequireResult(block)

-----------------------------------------------------------------------------
(* CompiledBlock_CalculateAddresses: labels take no room.                   *)
Address(code, n) == Len(SelectSeq(SubSeq(code, 1, n - 1), LAMBDA x : x[1] # "Label"))

(* Where a label is; 0 for a label that was never attached.                 *)
Target(code, label) ==
  LET at == {n \in DOMAIN code : code[n] = <<"Label", label>>}
  IN IF at = {} THEN 0 ELSE Address(code, CHOOSE n \in at : TRUE)

(* CompiledBlock_ResolveBranches: branches become relative, the targets of  *)
(* a till continuation absolute (Compiler_ResolveTillBranchTargets).        *)
Resolve(code) ==
  [n \in DOMAIN code |->
     CASE code[n][1] \in {"Jmp", "Bt", "Bf"} ->
            <<code[n][1], Target(code, code[n][2]) - Address(code, n)>>
       [] code[n][1] = "NewTill" ->
            <<"NewTill", [j \in DOMAIN code[n][2] |-> Target(code, code[n][2][j])]>>
       [] OTHER -> code[n]]

(* CompiledBlock_Finish: the byte codes, without the labels.                *)
Finish(block) == SelectSeq(Resolve(block.code), LAMBDA x : x[1] # "Label")
=============================================================================
