---------------------------- MODULE ExprGrammar -----------------------------
(***************************************************************************)
(* What ExprParser is for: which statements the grammar derives, by itself *)
(* and without the parser, and what the parser makes of them.              *)
(***************************************************************************)
EXTENDS ExprParser

(* The grammar as a relation, for reference: nt can stand for the tokens    *)
(* from i + 1 to j, where follow are the words with which the rule around   *)
(* it goes on.  As in the parser, a word that starts a rule of a level does *)
(* nothing else there, the rule is the whole of what the level makes, and   *)
(* an item that may be missing is there.                                    *)
RECURSIVE Derives(_, _, _, _), Chain(_, _, _, _), Matches(_, _, _, _, _), Several(_, _, _, _, _)

(* The items of the rule at node end of class, from the k-th on.            *)
Matches(class, end, k, i, j) ==
  LET tree == grammar[class]
      node == SubSeq(end, 1, k)
      rep  == tree[node].rep
      next == ComputeFollowSet(tree, node, firstSets)
      rest(n) == Matches(class, end, k + 1, n, j)
  IN IF k > Len(end) THEN i = j
     ELSE IF ~IsNonterminal(node) THEN i < j /\ input[i + 1] = Name(node) /\ rest(i + 1)
     ELSE \E n \in i + 1 .. j :
               /\ IF IsList(rep) THEN Several(Name(node), rep, next, i, n)
                  ELSE Derives(Name(node), next, i, n)
               /\ rest(n)

Several(nt, rep, follow, i, j) ==
  \/ Derives(nt, follow, i, j)
  \/ \E n \in i + 1 .. j - 1 :
       LET sep == IF rep \in {"*,", "+,"} THEN 1 ELSE 0
       IN /\ sep = 1 => input[n + 1] = ","
          /\ n + sep < j
          /\ Derives(nt, follow, i, n) /\ Several(nt, rep, follow, n + sep, j)

RulesOf(class) == {p \in DOMAIN grammar[class] : grammar[class][p].accepts}

(* Operands of a level, joined by its operators and continued by its rules. *)
Chain(level, follow, i, j) ==
  LET below == Below(level)
      isOp(t) == IF level = "BINARYEXPR" THEN t \in (Unknown \ Operators) \ follow
                 ELSE IsOperator(level, t)
  IN \/ Derives(below, follow, i, j)
     \/ \E n \in i + 1 .. j - 1 :
          /\ Chain(level, follow, i, n)
          /\ IF level = "BINARYEXPR" /\ isOp(input[n + 1])
             THEN n + 1 < j /\ Several("COLONEXPR", "+,", follow, n + 1, j)
             ELSE isOp(input[n + 1]) /\ Derives(below, follow, n + 1, j)
     \/ /\ level \in Continued
        /\ \E n \in i + 1 .. j - 1, p \in RulesOf(level) :
             p[1] = <<TRUE, below>> /\ Chain(level, follow, i, n) /\ Matches(level, p, 2, n, j)

Derives(nt, follow, i, j) ==
  LET startsRule == i < j /\ <<<<FALSE, input[i + 1]>>>> \in DOMAIN grammar[nt]
      byRule == \E p \in RulesOf(nt) : ~p[1][1] /\ Matches(nt, p, 1, i, j)
      below == Derives(Below(nt), follow, i, j)
  IN CASE nt = "NAME" -> j = i + 1 /\ input[j] \in Names
       [] nt = "TERM" -> \/ j = i + 1 /\ input[j] \in Variables
                         \/ /\ j > i + 2 /\ input[i + 1] = "(" /\ input[j] = ")"
                            /\ Derives("STMT", follow, i + 1, j - 1)
       [] nt = "NOT" -> below \/ (i < j /\ input[i + 1] = "not" /\ Derives(nt, follow, i + 1, j))
       [] nt = "PREFIXEXPR" ->
            \/ below
            \/ \E n \in i + 1 .. j :
                 /\ \A m \in i + 1 .. n : input[m] \in Unknown
                 /\ input[i + 1] # "not"
                 /\ Derives("POSTFIXEXPR", follow, n, j)
       [] nt = "RANGE" -> \/ below
                          \/ \E n \in i + 1 .. j - 1 : /\ input[n + 1] = ".."
                                                       /\ Derives("PREFIXEXPR", follow, i, n)
                                                       /\ Derives("PREFIXEXPR", follow, n + 1, j)
       [] nt \in {"STMT", "POSTFIXEXPR"} -> IF startsRule THEN byRule ELSE below
       [] nt \in Binary \ {"RANGE"} ->
            IF nt \in ByKeyword /\ startsRule THEN byRule ELSE Chain(nt, follow, i, j)
       [] OTHER -> \E p \in RulesOf(nt) : Matches(nt, p, 1, i, j)

Succeeds == Parsed /\ ret.kind = "ok" /\ messages = 0

-----------------------------------------------------------------------------
(* What the parser takes for a statement is one: no token is skipped, read  *)
(* twice or taken by a rule that does not have it.                          *)
Sound == Succeeds => Derives("STMT", {}, 0, pos)

Unambiguous ==
  \A nt \in Nonterminals : \A p \in DOMAIN grammar[nt] :
    ~IsAmbiguous(Children(grammar[nt], p), firstSets)

(* A rule of which the parser makes nothing: one with a list of one or more *)
(* of a class, without a separator.                                         *)
NeverMatches ==
  \E nt \in Nonterminals : \E p \in DOMAIN grammar[nt] :
    p # <<>> /\ Last(p)[2] \notin Builtin /\ grammar[nt][p].rep = "+"

(* A statement of an unambiguous grammar is parsed, to its end, without an  *)
(* error: neither are its words taken for operators nor the other way.      *)
Complete ==
  Parsed /\ Unambiguous /\ ~NeverMatches /\ Derives("STMT", {}, 0, Len(input)) =>
    Succeeds /\ pos = Len(input)

RECURSIVE Leaves(_)
Leaves(e) == IF e.at > 0 THEN <<e.at>>
             ELSE FoldLeft(LAMBDA ls, arg : ls \o Leaves(arg), <<>>, e.args)

RECURSIVE Binds(_)
Binds(e) ==
  /\ \A i \in DOMAIN e.args : Binds(e.args[i])
  /\ e.path = <<>> /\ e.op # "list" =>
       \A i \in DOMAIN e.args :
         LET tight == Rank(e.args[i].seenAs) - Rank(e.level)
         IN IF i = 1 THEN tight >= 0 ELSE tight > 0

(* What is built has the structure of the source: every operand is at most  *)
(* once in it and in the order of the source, and operators bind as their   *)
(* levels say and to the left, the first operand of one being of its level  *)
(* or a tighter one and the others of a tighter one (Parser_ParseOrExpr to  *)
(* Parser_ParseRangeExpr).                                                  *)
Structure ==
  Succeeds =>
    /\ Binds(ret.expr)
    /\ LET ls == Leaves(ret.expr)
       IN \A i, j \in DOMAIN ls : i < j => ls[i] < ls[j]

(* Every operand that has been read is in what is built.                    *)
OperandsKept ==
  Succeeds => {n \in 1 .. pos : input[n] \in Variables} = Range(Leaves(ret.expr))
=============================================================================
