------------------------------ MODULE Compiler ------------------------------
(***************************************************************************)
(* The compiler from expressions to byte code (eval/compiler.c and         *)
(* eval/compiler/compile_*.c), one operator per form.                      *)
(*                                                                         *)
(* An expression is a tuple that starts with the name of its form:         *)
(*   <<"lit", value>>            <<"sym", name>>                           *)
(*   <<"set", name, e>>          <<"call", <<function, arguments ...>>>>   *)
(*   <<"if", cond, then, else>>  <<"while", pre, cond, post>>              *)
(*   <<"and", es>>  <<"or", es>>  <<"progn", es>>  <<"prog1", es>>         *)
(*   <<"not", e>>  <<"eq", e1, e2>>  <<"brk">>  <<"return", es>>           *)
(*   <<"fn", parameters, body>>  <<"scope", names, es>>                    *)
(*   <<"till", flags, body, whens>>  with whens a list of <<flag, e>>      *)
(* and a clause that is missing is the null literal, as in the code.       *)
(*                                                                         *)
(* Operands that only number things are abstracted to names: a variable is *)
(* named by its symbol and the place that declares it, a function, a till  *)
(* loop or a label by its place in the source (the path c.path) rather     *)
(* than by an index into a table.  How far a variable's function is from   *)
(* the one that uses it, the depth operand, is kept.                       *)
(***************************************************************************)
EXTENDS CompiledBlock, SequencesExt

Null   == <<"null">>
NullOb == <<"lit", Null>>

(* What a symbol stands for: the innermost declaration, if there is one.    *)
Declared(x, c) == \E n \in DOMAIN c.scope : c.scope[n].name = x
FindSymbol(x, c) ==
  c.scope[CHOOSE n \in DOMAIN c.scope :
            /\ c.scope[n].name = x
            /\ \A m \in DOMAIN c.scope : c.scope[m].name = x => m <= n]

Inner(c, n) == [c EXCEPT !.path = Append(@, n)]
Declare(c, decls) == [c EXCEPT !.scope = @ \o decls]

(* Compiler_StripNots looks for calls of the symbol "not".                  *)
RECURSIVE StripNots(_)
StripNots(e) ==
  IF e[1] = "call" /\ Len(e[2]) = 2 /\ e[2][1] = <<"sym", "not">>
    THEN LET s == StripNots(e[2][2]) IN [not |-> ~s.not, cond |-> s.cond]
    ELSE [not |-> FALSE, cond |-> e]

RECURSIVE Compile(_, _, _)

WithResult(e, c) == EmitRequireResult(Compile(e, FALSE, c))
NoResult(e, c)   == EmitNoResult(Compile(e, TRUE, c))
Matching(e, noResult, c) ==
  MakeStackMatchCompileFlags(Compile(e, noResult, c), noResult)

-----------------------------------------------------------------------------
CompileLiteral(v, noResult) ==
  IF noResult THEN Empty
  ELSE Emit(Empty, IF v = Null THEN <<"LdNull">> ELSE <<"LdVal", v>>, 1)

(* Compiler_CompileTillFlag.                                                *)
CompileTillFlag(s, c) ==
  IF c.depth = s.depth
    THEN [Emit(Empty, <<"Jmp", s.label>>, 0) EXCEPT !.escape = TRUE]
    ELSE LET b1 == Emit(Empty, <<"LdVar", c.depth - s.depth, s.id>>, 1)
             b2 == Emit(b1, <<"TillEsc", s.index>>, -1)
         IN [b2 EXCEPT !.escape = TRUE, !.deep = {s.id}]

CompileLoadGlobalVariable(x, noResult) ==
  IF noResult THEN Empty ELSE Emit(Empty, <<"LdX", x>>, 1)

(* Arguments and locals: the operands differ only in the table they number. *)
CompileLoadLocalVariable(s, noResult, c) ==
  IF noResult THEN Empty ELSE Emit(Empty, <<"LdVar", c.depth - s.depth, s.id>>, 1)

CompileLoadVariable(x, noResult, c) ==
  IF ~Declared(x, c) THEN CompileLoadGlobalVariable(x, noResult)
  ELSE LET s == FindSymbol(x, c)
       IN IF s.kind = "till" THEN CompileTillFlag(s, c)
          ELSE CompileLoadLocalVariable(s, noResult, c)

CompileStoreGlobalVariable(block, x, noResult) ==
  IF noResult THEN Emit(block, <<"StpX", x>>, -1) ELSE Emit(block, <<"StX", x>>, 0)

CompileStoreLocalVariable(block, s, noResult, c) ==
  IF noResult THEN Emit(block, <<"StpVar", c.depth - s.depth, s.id>>, -1)
  ELSE Emit(block, <<"StVar", c.depth - s.depth, s.id>>, 0)

(* As a bug would have it: a store whose value is not used is dropped.      *)
StoreVariableIfUsed(block, x, noResult, c) ==
  IF noResult THEN Emit(block, <<"Pop1">>, -1)
  ELSE IF ~Declared(x, c) THEN Emit(block, <<"StX", x>>, 0)
  ELSE Emit(block, <<"StVar", c.depth - FindSymbol(x, c).depth, FindSymbol(x, c).id>>, 0)

(* A till flag cannot be assigned to: the compiler reports it and goes on.  *)
CompileStoreVariable(block, x, noResult, c) ==
  IF ~Declared(x, c) THEN CompileStoreGlobalVariable(block, x, noResult)
  ELSE LET s == FindSymbol(x, c)
       IN IF s.kind = "till" THEN block ELSE CompileStoreLocalVariable(block, s, noResult, c)

CompileSetSymbol(x, e, noResult, c) ==
  CompileStoreVariable(AppendChild(Empty, WithResult(e, Inner(c, 1))), x, noResult, c)

(* The default form of CompileExpr: a function and its arguments.           *)
CompileCall(es, noResult, c) ==
  LET args == FoldLeftDomain(LAMBDA b, n : AppendChild(b, WithResult(es[n], Inner(c, n))),
                             Empty, es)
  IN PopIfNecessary(Emit(args, <<"Call", Len(es) - 1>>, 1 - Len(es)), noResult)

CompileOneArgument(op, e, noResult, c) ==
  LET b == AppendChild(Empty, Matching(e, noResult, Inner(c, 1)))
  IN IF noResult THEN b ELSE Emit(b, <<op>>, 0)

(* The parent counts the child before the child is made to match the flags. *)
AppendThenMatch(parent, child, noResult) ==
  IF IsEmpty(child) THEN Absorb(parent, child)
  ELSE [AppendChild(parent, child) EXCEPT
          !.code = parent.code \o MakeStackMatchCompileFlags(child, noResult).code]

CompileTwoArguments(op, e1, e2, noResult, c) ==
  LET b1 == AppendThenMatch(Empty, Compile(e1, noResult, Inner(c, 1)), noResult)
      b2 == AppendThenMatch(b1, Compile(e2, noResult, Inner(c, 2)), noResult)
  IN IF noResult THEN b2 ELSE Emit(b2, <<op>>, -1)

-----------------------------------------------------------------------------
CompileIf(e, noResult, c) ==
  LET s    == StripNots(e[2])
      cond == WithResult(s.cond, Inner(c, 1))
      t    == Matching(IF s.not THEN e[4] ELSE e[3], noResult, Inner(c, 2))
      f    == Matching(IF s.not THEN e[3] ELSE e[4], noResult, Inner(c, 3))
      else == <<c.path, "else">>
      done == <<c.path, "done">>
      Test(op) == Emit(AppendChild(Empty, cond), <<op, else>>, -1)
      OneArm(op, arm) == Emit(AppendChild(Test(op), arm), <<"Label", else>>, 0)
      then == [AppendChild(Test("Bf"), t) EXCEPT !.delta = Test("Bf").delta]
      jump == IF t.escape THEN then ELSE Emit(then, <<"Jmp", done>>, 0)
      full == AppendChild(Emit(jump, <<"Label", else>>, 0), f)
  IN CASE ~IsEmpty(t) /\ ~IsEmpty(f) ->
            IF t.escape THEN full ELSE Emit(full, <<"Label", done>>, 0)
       [] ~IsEmpty(t) /\ IsEmpty(f)  -> OneArm("Bf", t)
       [] IsEmpty(t) /\ ~IsEmpty(f)  -> OneArm("Bt", f)
       [] OTHER -> EmitNoResult(Compile(s.cond, noResult, Inner(c, 1)))

(* What CompileAnd and CompileOr share: they differ in the branch and the   *)
(* two constants.  The flags are not looked at.                             *)
CompileShortCircuit(es, isAnd, c) ==
  LET decided == <<c.path, "decided">>
      done    == <<c.path, "done">>
      Operand(b, n) ==
        LET s == StripNots(es[n])
        IN Emit(AppendChild(b, WithResult(s.cond, Inner(c, n))),
                <<IF s.not = isAnd THEN "Bt" ELSE "Bf", decided>>, -1)
      tests == FoldLeftDomain(Operand, Empty, es)
      b1 == Emit(Emit(tests, <<"LdVal", <<"bool", isAnd>>>>, 1), <<"Jmp", done>>, 0)
      b2 == Emit(Attach(b1, <<"Label", decided>>), <<"LdVal", <<"bool", ~isAnd>>>>, 1)
  IN [Attach(b2, <<"Label", done>>) EXCEPT !.delta = @ - 1]

CompileAnd(es, c) == CompileShortCircuit(es, TRUE, c)
CompileOr(es, c)  == CompileShortCircuit(es, FALSE, c)

CompileProgN(es, noResult, c) ==
  FoldLeftDomain(LAMBDA b, n :
      AppendChild(b, IF n = Len(es) THEN Matching(es[n], noResult, Inner(c, n))
                                    ELSE NoResult(es[n], Inner(c, n))),
    Empty, es)

(* As a bug would have it: the last value instead of the first.             *)
CompileProg1AsN(es, noResult, c) == CompileProgN(es, noResult, c)

CompileProg1(es, noResult, c) ==
  FoldLeftDomain(LAMBDA b, n :
      AppendChild(b, IF n = 1 THEN Matching(es[1], noResult, Inner(c, 1))
                     ELSE EmitNoResult(Compile(es[n], FALSE, Inner(c, n)))),
    Empty, es)

CompileScope(names, es, noResult, c) ==
  LET Id(n) == <<c.path, names[n]>>
      init  == FoldLeftDomain(LAMBDA b, n : Emit(b, <<"NullVar", Id(n)>>, 0), Empty, names)
      decls == [n \in DOMAIN names |->
                  [name |-> names[n], kind |-> "variable", depth |-> c.depth, id |-> Id(n)]]
  IN Combine(init, CompileProgN(es, noResult, Declare(c, decls)))

(* The code compiles the value but never appends it.                        *)
CompileReturn(es, noResult, c) ==
  LET b == IF es = <<>> THEN Emit(Empty, <<"LdNull">>, 1)
           ELSE Absorb(Empty, Compile(es[1], FALSE, Inner(c, 1)))
  IN [Emit(b, <<"Ret">>, -1) EXCEPT !.escape = TRUE]

CompileBrk(noResult) ==
  MakeStackMatchCompileFlags(Emit(Empty, <<"Brk">>, 0), noResult)

(* The body of a function, as Compiler_CompileFn and _CompileGlobal end it: *)
(* its byte codes and the stack it is given, tempSize.                      *)
Function(id, params, block) ==
  LET b == Emit(block, <<"Ret">>, -1)
  IN [id |-> id, params |-> params, code |-> Finish(b), tempSize |-> b.max]

CompileFn(params, body, c) ==
  LET d     == [c EXCEPT !.depth = @ + 1]
      decls == [n \in DOMAIN params |->
                  [name |-> params[n], kind |-> "argument", depth |-> d.depth,
                   id |-> <<c.path, params[n]>>]]
      block == AppendChild(Empty, WithResult(body, Declare(Inner(d, 1), decls)))
      f     == Function(c.path, [n \in DOMAIN params |-> decls[n].id], block)
  IN [Absorb(Emit(Empty, <<"NewFn", c.path>>, 1), block) EXCEPT
        !.functions = @ \cup {f}]

-----------------------------------------------------------------------------
(* The four kinds of while loop.                                            *)
LoopBranch(s, label) == <<IF s.not THEN "Bf" ELSE "Bt", label>>

CompileWhileWithPreAndPost(s, pre, post, noResult, c) ==
  LET again == <<c.path, "again">>
      out   == <<c.path, "out">>
      b1 == MakeStackMatchCompileFlags(
              AppendChild(Attach(Empty, <<"Label", again>>),
                          Compile(pre, noResult, Inner(c, 1))), noResult)
      b2 == Emit(AppendChild(b1, WithResult(s.cond, Inner(c, 2))), LoopBranch(s, out), -1)
      b3 == IF noResult THEN b2 ELSE Emit(b2, <<"Pop1">>, -1)
      b4 == Emit(AppendChild(b3, NoResult(post, Inner(c, 3))), <<"Jmp", again>>, 0)
  IN [Attach(b4, <<"Label", out>>) EXCEPT !.delta = IF noResult THEN @ ELSE @ + 1]

(* The Pop1 after the loop label is inserted later, without accounting for  *)
(* it where it stands: only finalStackDelta is adjusted.                    *)
CompileWhileWithPre(s, pre, noResult, c) ==
  LET again == <<c.path, "again">>
      enter == <<c.path, "enter">>
      head  == <<<<"Label", again>>>> \o (IF noResult THEN <<>> ELSE <<<<"Pop1">>>>)
                 \o <<<<"Label", enter>>>>
      b1 == [Emit(Empty, <<"Jmp", enter>>, 0) EXCEPT !.code = @ \o head]
      b2 == MakeStackMatchCompileFlags(
              AppendChild(b1, Compile(pre, noResult, Inner(c, 1))), noResult)
      b3 == [b2 EXCEPT !.delta = IF noResult THEN @ ELSE @ - 1]
      b4 == Emit(AppendChild(b3, WithResult(s.cond, Inner(c, 2))), LoopBranch(s, again), -1)
  IN [b4 EXCEPT !.delta = IF noResult THEN @ ELSE @ + 1]

CompileWhileWithPost(s, post, noResult, c) ==
  LET again == <<c.path, "again">>
      enter == <<c.path, "enter">>
      head  == <<<<"Label", again>>>> \o (IF noResult THEN <<>> ELSE <<<<"Pop1">>>>)
      b1 == IF noResult THEN Empty
            ELSE [Emit(Empty, <<"LdNull">>, 1) EXCEPT !.delta = @ - 1]
      b2 == [Emit(b1, <<"Jmp", enter>>, 0) EXCEPT !.code = @ \o head]
      b3 == MakeStackMatchCompileFlags(
              AppendChild(b2, Compile(post, noResult, Inner(c, 3))), noResult)
      b4 == Attach([b3 EXCEPT !.delta = IF noResult THEN @ ELSE @ - 1], <<"Label", enter>>)
      b5 == EmitRequireResult(AppendChild(b4, Compile(s.cond, FALSE, Inner(c, 2))))
      b6 == Emit(b5, LoopBranch(s, again), -1)
  IN [b6 EXCEPT !.delta = IF noResult THEN @ ELSE @ + 1]

CompileWhileWithNoBody(s, noResult, c) ==
  LET again == <<c.path, "again">>
      b == Emit(AppendChild(Emit(Empty, <<"Label", again>>, 0),
                            WithResult(s.cond, Inner(c, 2))), LoopBranch(s, again), -1)
  IN IF noResult THEN b ELSE Emit(b, <<"LdNull">>, 1)

CompileWhile(e, noResult, c) ==
  LET s == StripNots(e[3])
  IN CASE e[2] # NullOb /\ e[4] # NullOb ->
            CompileWhileWithPreAndPost(s, e[2], e[4], noResult, c)
       [] e[2] # NullOb /\ e[4] = NullOb -> CompileWhileWithPre(s, e[2], noResult, c)
       [] e[2] = NullOb /\ e[4] # NullOb -> CompileWhileWithPost(s, e[4], noResult, c)
       [] OTHER -> CompileWhileWithNoBody(s, noResult, c)

-----------------------------------------------------------------------------
(* Till loops.  The whens are compiled first, then the body; a flag that    *)
(* has no when goes to the null case.                                       *)
EndTillBlock(id) ==
  Emit(Emit(Empty, <<"LdVar", 0, id>>, 1), <<"EndTill", id>>, -1)

(* As a bug would have it: every flag goes to the first when.               *)
WhenLabelFirst(whens, n, flag, c) ==
  IF n >= 1 THEN <<c.path, whens[1][1]>> ELSE <<c.path, "null">>

WhenLabel(whens, n, flag, c) ==
  IF \E m \in 1 .. n : whens[m][1] = flag THEN <<c.path, flag>> ELSE <<c.path, "null">>

TillDecls(flags, whens, n, c) ==
  [m \in DOMAIN flags |->
     [name |-> flags[m], kind |-> "till", depth |-> c.depth, id |-> <<c.path, "till">>,
      index |-> m, label |-> WhenLabel(whens, n, flags[m], c)]]

CompileWhens(flags, whens, noResult, c) ==
  LET id == <<c.path, "till">>
      When(n) ==
        LET b1 == Emit(Empty, <<"Label", <<c.path, whens[n][1]>>>>, 0)
            b2 == AppendChild(b1, EndTillBlock(id))
            b3 == AppendChild(b2, Matching(whens[n][2], noResult,
                                  Declare(Inner(c, n + 1), TillDecls(flags, whens, n, c))))
        IN IF Len(whens) = Len(flags) /\ n = Len(whens) THEN b3
           ELSE Emit(b3, <<"Jmp", <<c.path, "exit">>>>, 0)
  IN FoldLeftDomain(LAMBDA b, n : AppendChild(b, When(n)), Empty, whens)

CompileNullCase(flags, whens, noResult, c) ==
  LET b == AppendChild(Attach(Empty, <<"Label", <<c.path, "null">>>>),
                       EndTillBlock(<<c.path, "till">>))
  IN IF Len(whens) >= Len(flags) THEN Empty
     ELSE IF noResult THEN b ELSE Emit(b, <<"LdNull">>, 1)

(* RemoveTillContinuation: all of the till's own instructions go.           *)
WithoutContinuation(block, id) ==
  [block EXCEPT !.code = SelectSeq(@, LAMBDA x :
     x \notin {<<"StpVar", 0, id>>, <<"LdVar", 0, id>>, <<"EndTill", id>>}
       /\ ~(x[1] = "NewTill" /\ x[3] = id))]

CompileTill(flags, body, whens, noResult, c) ==
  LET id    == <<c.path, "till">>
      loop  == <<c.path, "loop">>
      decls == TillDecls(flags, whens, Len(whens), c)
      new   == Emit(Emit(Empty, <<"NewTill", [m \in DOMAIN flags |-> decls[m].label], id>>, 1),
                    <<"StpVar", 0, id>>, -1)
      ends  == AppendChild(CompileWhens(flags, whens, noResult, c),
                           CompileNullCase(flags, whens, noResult, c))
      b1 == Emit(AppendChild(Empty, new), <<"Label", loop>>, 0)
      b2 == AppendChild(b1, NoResult(body, Declare(Inner(c, 1), decls)))
      b3 == AppendChild(Emit(b2, <<"Jmp", loop>>, 0), ends)
      b4 == Attach(b3, <<"Label", <<c.path, "exit">>>>)
  IN IF id \in b4.deep THEN b4 ELSE WithoutContinuation(b4, id)

-----------------------------------------------------------------------------
(* Compiler_CompileExpr and Compiler_CompileStandardForm.                   *)
Compile(e, noResult, c) ==
  CASE e[1] = "lit"    -> CompileLiteral(e[2], noResult)
    [] e[1] = "sym"    -> CompileLoadVariable(e[2], noResult, c)
    [] e[1] = "set"    -> CompileSetSymbol(e[2], e[3], noResult, c)
    [] e[1] = "call"   -> CompileCall(e[2], noResult, c)
    [] e[1] = "not"    -> CompileOneArgument("Not", e[2], noResult, c)
    [] e[1] = "eq"     -> CompileTwoArguments("SuperEq", e[2], e[3], noResult, c)
    [] e[1] = "if"     -> CompileIf(e, noResult, c)
    [] e[1] = "and"    -> CompileAnd(e[2], c)
    [] e[1] = "or"     -> CompileOr(e[2], c)
    [] e[1] = "progn"  -> CompileProgN(e[2], noResult, c)
    [] e[1] = "prog1"  -> CompileProg1(e[2], noResult, c)
    [] e[1] = "scope"  -> CompileScope(e[2], e[3], noResult, c)
    [] e[1] = "while"  -> CompileWhile(e, noResult, c)
    [] e[1] = "till"   -> CompileTill(e[2], e[3], e[4], noResult, c)
    [] e[1] = "fn"     -> CompileFn(e[2], e[3], c)
    [] e[1] = "return" -> CompileReturn(e[2], noResult, c)
    [] e[1] = "brk"    -> CompileBrk(noResult)

(* The id of the function of the program itself.                            *)
Main == <<0>>

(* Compiler_CompileGlobal: the set of functions a program becomes.          *)
CompileGlobal(e) ==
  LET b == EmitRequireResult(Compile(e, FALSE, [scope |-> <<>>, depth |-> 0, path |-> <<>>]))
  IN b.functions \cup {Function(Main, <<>>, b)}
=============================================================================
