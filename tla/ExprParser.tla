----------------------------- MODULE ExprParser -----------------------------
(***************************************************************************)
(* Parsing one expression statement under a set of custom syntax rules     *)
(* (parsing/parser/parseexpr.c, parseterm.c, applysyntax.c).               *)
(*                                                                         *)
(* The parser is recursive: a frame of stack is a call that is under way.  *)
(* There are calls of a level of the expression grammar (Parser_ParseOr-   *)
(* Expr down to Parser_ParseTerm), of Parser_ApplyCustomSyntax and of      *)
(* Parser_ParseNonterminalList; ret is what the last call returned.        *)
(*                                                                         *)
(* A token is a string.  Reading a token and putting it back is looking at *)
(* it: TokenRing is about when that is so.  Tokens are on one line, and    *)
(* assignments, statement keywords, dots, lists and literals are left out: *)
(* a variable stands for every term.                                       *)
(***************************************************************************)
EXTENDS SyntaxTree

CONSTANTS
  Variables,   \* declared names
  Keywords,    \* names that are not declared
  Cases        \* what to parse: the sequence of rules declared before the
               \* statement, and a set of sequences of tokens

VARIABLES
  grammar,    \* the tree of each class
  firstSets,  \* the FIRST set of each class
  input, pos, \* the tokens and how many have been consumed
  stack, ret,
  followSet,  \* parser->customFollowSet, {} for NULL
  messages    \* errors reported and recovered from

vars == <<grammar, firstSets, input, pos, stack, ret, followSet, messages>>

Operators == {"or", "and", "not", "<", "+", "*"}
Unknown == Keywords \cup Operators
Names == Variables \cup Unknown
EOI == "eoi"

-----------------------------------------------------------------------------
(* The levels of the grammar, loosest first.  A level tries the custom      *)
(* rules of its class that start with a keyword, then the level below, then *)
(* custom rules and operators that continue what it has.                    *)
Levels == <<"STMT", "EXPR", "AND", "NOT", "CMPEXPR", "ADDEXPR", "MULEXPR", "BINARYEXPR",
            "COLONEXPR", "RANGE", "PREFIXEXPR", "POSTFIXEXPR", "TERM">>
Rank(level) == CHOOSE i \in DOMAIN Levels : Levels[i] = level
Below(level) == Levels[Rank(level) + 1]

ByKeyword == {"STMT", "EXPR", "CMPEXPR", "ADDEXPR", "MULEXPR", "BINARYEXPR", "POSTFIXEXPR"}
Continued == {"CMPEXPR", "ADDEXPR", "MULEXPR", "BINARYEXPR"}
Binary == Continued \cup {"EXPR", "AND", "COLONEXPR", "RANGE"}

(* As a bug would have it: inside a rule no name is an operator.            *)
AcceptableBinaryOutside(t) == t \in Unknown \ Operators /\ followSet = {}

(* Parser_IsAcceptableArbitraryBinaryOperator: a name that the surrounding  *)
(* rule goes on with is not an operator.                                    *)
AcceptableBinary(t) == t \in Unknown \ Operators /\ t \notin followSet

IsOperator(level, t) ==
  CASE level = "EXPR" -> t = "or"
    [] level = "AND" -> t = "and"
    [] level = "CMPEXPR" -> t = "<"
    [] level = "ADDEXPR" -> t = "+"
    [] level = "MULEXPR" -> t = "*"
    [] level = "BINARYEXPR" -> AcceptableBinary(t)
    [] level = "COLONEXPR" -> t = ":"
    [] OTHER -> t = ".."

(* How many prefix operators there are at position p.  Only the first of    *)
(* those of PREFIXEXPR must not be not.                                     *)
PrefixCount(level, p) ==
  LET run(ok) == CHOOSE n \in 0 .. Len(input) - p :
        /\ \A i \in 1 .. n : input[p + i] \in ok
        /\ p + n < Len(input) => input[p + n + 1] \notin ok
  IN CASE level = "NOT" -> run({"not"})
       [] level = "PREFIXEXPR" /\ p < Len(input) /\ input[p + 1] # "not" -> run(Unknown)
       [] OTHER -> 0

(* Parser_ValidateSpecialSyntaxClasses; the other classes have a hyphen in  *)
(* their name.                                                              *)
IsValidAlways(rule) == rule.pattern # <<>>

IsValid(rule) ==
  LET first == rule.pattern[1]
      then(nt, ops) == /\ first.nt /\ first.name = nt
                       /\ Len(rule.pattern) > 1
                       /\ ~rule.pattern[2].nt /\ rule.pattern[2].name \notin ops
      keyword == ~first.nt
  IN /\ rule.pattern # <<>>
     /\ CASE rule.class \in {"STMT", "EXPR", "PREFIXEXPR", "TERM"} -> keyword
          [] rule.class = "CMPEXPR" -> keyword \/ then("ADDEXPR", {"<"})
          [] rule.class = "ADDEXPR" -> keyword \/ then("MULEXPR", {"+"})
          [] rule.class = "MULEXPR" -> keyword \/ then("BINARYEXPR", {"*"})
          [] rule.class = "BINARYEXPR" -> keyword \/ then("COLONEXPR", {})
          [] rule.class = "POSTFIXEXPR" -> keyword \/ then("CONSEXPR", {})
          [] OTHER -> rule.class \notin {"NAME", "COLONEXPR"}

(* The trees once the rules have been added, with numbers that do not matter *)
(* here.                                                                     *)
Declared(rules) ==
  LET add(trees, rule) ==
        IF IsValid(rule)
        THEN [trees EXCEPT ![rule.class] =
                Extended(IF @ = NoTree THEN NewTree(1) ELSE @, rule, 1)]
        ELSE trees
  IN FoldLeft(add, [nt \in Nonterminals |-> NoTree], rules)

-----------------------------------------------------------------------------
(* What is built: op applied to args.  For a use of a rule, path is its     *)
(* node and args the values paired with its variables.  at is the position  *)
(* of a leaf.  As a history, level is the level that built it and seenAs    *)
(* the same, or TERM once it is in parentheses.                             *)
Built(op, args, level) == [op |-> op, path |-> <<>>, args |-> args, at |-> 0,
                             level |-> level, seenAs |-> level]
Leaf(p) == [op |-> input[p], path |-> <<>>, args |-> <<>>, at |-> p,
            level |-> "TERM", seenAs |-> "TERM"]
NullObject == Built("null", <<>>, "TERM")
Uninitialized == Built("uninitialized", <<>>, "TERM")

Ok(e) == [kind |-> "ok", expr |-> e]
Error == [kind |-> "error", expr |-> NullObject]
NotMatched == [kind |-> "unmatched", expr |-> Uninitialized]

LevelFrame(level) == [fn |-> "level", level |-> level, pc |-> "enter", expr |-> NullObject,
                      op |-> "", prefix |-> <<>>, many |-> FALSE]
ApplyFrame(class, mode) ==
  [fn |-> "apply", class |-> class, mode |-> mode, pc |-> "enter", node |-> <<>>,
   isFirst |-> TRUE, values |-> <<>>, oldFollowSet |-> {}]
ListFrame(nt, rep) == [fn |-> "list", nt |-> nt, rep |-> rep, pc |-> "enter",
                       isFirst |-> TRUE, items |-> <<>>]

Top == Last(stack)
Peek == IF pos < Len(input) THEN input[pos + 1] ELSE EOI
At(fn, pc) == stack # <<>> /\ Top.fn = fn /\ Top.pc = pc
Becomes(f) == stack' = [stack EXCEPT ![Len(stack)] = f] /\ UNCHANGED ret
Calls(f, callee) == stack' = Append([stack EXCEPT ![Len(stack)] = f], callee) /\ UNCHANGED ret
Returns(r) == stack' = Front(stack) /\ ret' = r
Consume(n) == pos' = pos + n

Init ==
  /\ \E c \in Cases : grammar = Declared(c.rules) /\ input \in c.inputs
  /\ firstSets = [nt \in Nonterminals |-> ComputeFirstSet(grammar, nt)]
  /\ pos = 0
  /\ stack = <<LevelFrame("STMT")>> /\ ret = NotMatched
  /\ followSet = {} /\ messages = 0

Rest == UNCHANGED <<grammar, firstSets, input>>
Same == Rest /\ UNCHANGED <<followSet, messages>>

-----------------------------------------------------------------------------
(* A level other than TERM and NAME begins.                                 *)
Enter ==
  /\ At("level", "enter") /\ Top.level \notin {"TERM", "NAME"}
  /\ LET n == PrefixCount(Top.level, pos)
         f == [Top EXCEPT !.prefix = SubSeq(input, pos + 1, pos + n)]
     IN /\ Consume(n)
        /\ IF Top.level \in ByKeyword
           THEN Calls([f EXCEPT !.pc = "keyword"], ApplyFrame(Top.level, "KEYWORD"))
           ELSE Calls([f EXCEPT !.pc = "below"], LevelFrame(Below(Top.level)))
  /\ Same

AfterKeyword ==
  /\ At("level", "keyword")
  /\ IF ret.kind = "unmatched"
     THEN Calls([Top EXCEPT !.pc = "below"], LevelFrame(Below(Top.level)))
     ELSE Returns(ret)
  /\ UNCHANGED pos /\ Same

(* The prefix operators are applied from the last to the first.             *)
Prefixed(e, ops, level) ==
  FoldRight(LAMBDA op, x : Built(op, <<x>>, level), ops, e)

AfterBelow ==
  /\ At("level", "below")
  /\ CASE ret.kind = "error" -> Returns(Error)
       [] ret.kind # "error" /\ Top.level \in Continued ->
            Calls([Top EXCEPT !.pc = "continued", !.expr = ret.expr], ApplyFrame(Top.level, "NONTERMINAL"))
       [] ret.kind # "error" /\ Top.level \in Binary \ Continued ->
            Becomes([Top EXCEPT !.pc = "operator", !.expr = ret.expr])
       [] OTHER -> Returns(Ok(Prefixed(ret.expr, Top.prefix, Top.level)))
  /\ UNCHANGED pos /\ Same

(* A rule that starts with what there is already has been tried: once more  *)
(* where it applied.                                                        *)
AfterContinued ==
  /\ At("level", "continued")
  /\ CASE ret.kind = "error" -> Returns(Error)
       [] ret.kind = "ok" -> Calls([Top EXCEPT !.expr = ret.expr], ApplyFrame(Top.level, "NONTERMINAL"))
       [] OTHER -> Becomes([Top EXCEPT !.pc = "operator"])
  /\ UNCHANGED pos /\ Same

Operator ==
  /\ At("level", "operator")
  /\ IF IsOperator(Top.level, Peek)
     THEN /\ Consume(1)
          /\ Calls([Top EXCEPT !.pc = "right", !.op = Peek],
                   LevelFrame(Below(Top.level)))
     ELSE /\ UNCHANGED pos
          /\ Returns(Ok(Top.expr))
  /\ Same

(* As a bug would have it: operators of a level associate to the right.     *)
WithOperandRight(f, e) ==
  IF f.op = f.expr.op /\ Len(f.expr.args) = 2
  THEN [f.expr EXCEPT !.args[2] = Built(f.op, <<f.expr.args[2], e>>, f.level)]
  ELSE Built(f.op, <<f.expr, e>>, f.level)

(* The expression with one more operand.  or and and build one list, but    *)
(* tail is not set to the end of it: what comes after the second operand is *)
(* hung on the null object.                                                 *)
WithOperand(f, e) ==
  IF f.level \in {"EXPR", "AND"} /\ f.many THEN f.expr
  ELSE Built(f.op, <<f.expr, e>>, f.level)

(* The operand on the right of an operator has been read, and for BINARYEXPR *)
(* one of several that commas separate.                                      *)
AfterRight ==
  /\ At("level", "right")
  /\ LET more == Top.level = "BINARYEXPR" /\ Peek = ","
         f == IF Top.op = ","
              THEN [Top EXCEPT !.expr.args = Append(@, ret.expr)]
              ELSE [Top EXCEPT !.expr = WithOperand(Top, ret.expr), !.many = TRUE]
     IN CASE ret.kind = "error" -> Returns(Error) /\ UNCHANGED pos
          [] ret.kind # "error" /\ more ->
               /\ Consume(1)
               /\ Calls([f EXCEPT !.op = ","], LevelFrame("COLONEXPR"))
          [] ret.kind # "error" /\ ~more /\ Top.level = "RANGE" ->
               Returns(Ok(f.expr)) /\ UNCHANGED pos
          [] ret.kind # "error" /\ ~more /\ Top.level \in Continued ->
               Calls([f EXCEPT !.pc = "continued"], ApplyFrame(Top.level, "NONTERMINAL")) /\ UNCHANGED pos
          [] OTHER -> Becomes([f EXCEPT !.pc = "operator"]) /\ UNCHANGED pos
  /\ Same

(* Parser_ParseTerm and Parser_ParseAnyName take the token they fail on.    *)
Consumed == IF pos < Len(input) THEN 1 ELSE 0
Term ==
  /\ At("level", "enter") /\ Top.level \in {"TERM", "NAME"}
  /\ Consume(Consumed)
  /\ IF Top.level = "TERM" /\ Peek = "("
     THEN Calls([Top EXCEPT !.pc = "paren"], LevelFrame("STMT"))
     ELSE Returns(IF Peek \in (IF Top.level = "TERM" THEN Variables ELSE Names)
                  THEN Ok(Leaf(pos + 1)) ELSE Error)
  /\ Same

(* Parser_ParseParentheses.  An error inside is reported; what follows up   *)
(* to the next closing parenthesis is skipped, and that is left.            *)
AfterParen ==
  /\ At("level", "paren")
  /\ LET close == {i \in pos .. Len(input) : i = Len(input) \/ input[i + 1] = ")"}
     IN CASE ret.kind = "error" ->
               /\ Consume((CHOOSE i \in close : \A j \in close : i <= j) - pos)
               /\ messages' = messages + 1
               /\ Returns(Ok(NullObject))
          [] ret.kind # "error" /\ Peek = ")" ->
               Consume(1) /\ Returns(Ok([ret.expr EXCEPT !.seenAs = "TERM"])) /\ UNCHANGED messages
          [] OTHER -> Returns(Error) /\ UNCHANGED <<pos, messages>>
  /\ Rest /\ UNCHANGED followSet

-----------------------------------------------------------------------------
(* Parser_ApplyCustomSyntax.                                                *)
Tree == grammar[Top.class]

(* To the first node: by a keyword, past the nonterminal that has been read *)
(* already, or from the root.                                               *)
ApplyEnter ==
  /\ At("apply", "enter")
  /\ LET skip == <<<<TRUE, Below(Top.class)>>>>
         word == <<<<FALSE, Peek>>>>
         walk == [Top EXCEPT !.pc = "walk"]
     IN CASE Tree # NoTree /\ Top.mode = "KEYWORD" /\ word \in DOMAIN Tree ->
               Consume(1) /\ Becomes([walk EXCEPT !.node = word, !.isFirst = FALSE])
          [] Tree # NoTree /\ Top.mode = "NONTERMINAL" /\ skip \in DOMAIN Tree ->
               Becomes([walk EXCEPT !.node = skip]) /\ UNCHANGED pos
          [] Tree # NoTree /\ Top.mode = "RECURSE" -> Becomes(walk) /\ UNCHANGED pos
          [] OTHER -> Returns(NotMatched) /\ UNCHANGED pos
  /\ Same

Ambiguous == IsAmbiguous(Children(Tree, Top.node), firstSets)
Transitions == ComputeTransitions(Tree, Top.node, firstSets)
Onward == {t \in {Peek, AnyToken} : t \in DOMAIN Transitions}
NextNode == Transitions[IF Peek \in Onward THEN Peek ELSE AnyToken]

(* Parser_Accept pairs the values with the variables of the rule.           *)
Accepted == [Built(Top.class, Top.values, Top.class) EXCEPT !.path = Top.node]

(* As a bug would have it: any node of a rule ends it.                      *)
EndsAnywhere == TRUE

(* The node has a replacement.                                              *)
Ends == Tree[Top.node].accepts

(* The rules go no further: the one that ends here, or none.                *)
Stop ==
  /\ At("apply", "walk") /\ (Ambiguous \/ Onward = {})
  /\ Returns(CASE ~Ambiguous /\ Ends -> Ok(Accepted)
               [] Top.isFirst /\ (Ambiguous \/ ~Ends) -> NotMatched
               [] OTHER -> Error)
  /\ UNCHANGED pos /\ Same

ToTerminal ==
  /\ At("apply", "walk") /\ ~Ambiguous /\ Onward # {} /\ ~IsNonterminal(NextNode)
  /\ Consume(1)
  /\ Becomes([Top EXCEPT !.node = NextNode, !.isFirst = FALSE])
  /\ Same

(* Parser_RecursivelyApplyCustomSyntax.                                     *)
Callee(nt) ==
  IF nt \in {"STMT", "EXPR", "CMPEXPR", "ADDEXPR", "MULEXPR", "BINARYEXPR", "PREFIXEXPR", "TERM", "NAME"}
  THEN LevelFrame(nt) ELSE ApplyFrame(nt, "RECURSE")

IsList(rep) == rep \in {"*", "+", "*,", "+,"}
MayBeNone(rep) == rep \in {"?", "*", "*,"}

ToNonterminal ==
  /\ At("apply", "walk") /\ ~Ambiguous /\ Onward # {} /\ IsNonterminal(NextNode)
  /\ LET rep == Tree[NextNode].rep
     IN Calls([Top EXCEPT !.node = NextNode, !.pc = "nonterminal", !.oldFollowSet = followSet],
              IF IsList(rep) THEN ListFrame(Name(NextNode), rep) ELSE Callee(Name(NextNode)))
  /\ followSet' = ComputeFollowSet(Tree, NextNode, firstSets)
  /\ UNCHANGED <<pos, messages>> /\ Rest

(* As a bug would have it: an error leaves the follow set.                  *)
FollowSetAfterKept == IF ret.kind = "error" THEN followSet ELSE Top.oldFollowSet

FollowSetAfter == Top.oldFollowSet

AfterNonterminal ==
  /\ At("apply", "nonterminal")
  /\ followSet' = FollowSetAfter
  /\ IF ret.kind = "error" \/ (ret.kind = "unmatched" /\ ~MayBeNone(Tree[Top.node].rep))
     THEN Returns(Error)
     ELSE Becomes([Top EXCEPT !.pc = "walk", !.isFirst = FALSE, !.values = Append(@, ret.expr)])
  /\ UNCHANGED <<pos, messages>> /\ Rest

-----------------------------------------------------------------------------
(* Parser_ParseNonterminalList.                                             *)
ListEnter ==
  /\ At("list", "enter")
  /\ Calls([Top EXCEPT !.pc = "item"], Callee(Top.nt))
  /\ UNCHANGED pos /\ Same

Items(f) == Built("list", f.items, "TERM")
AfterItem ==
  /\ At("list", "item")
  /\ LET separated == Top.rep \in {"*,", "+,"}
         mayEnd == ~separated \/ (Top.isFirst /\ MayBeNone(Top.rep))
         none == ret.kind = "unmatched"
         f == [Top EXCEPT !.items = Append(@, ret.expr), !.isFirst = FALSE]
     IN CASE none /\ mayEnd -> Returns([NotMatched EXCEPT !.expr = Items(Top)]) /\ UNCHANGED pos
          [] ret.kind = "error" \/ (none /\ ~mayEnd) -> Returns(Error) /\ UNCHANGED pos
          [] ret.kind = "ok" /\ separated /\ Peek # "," -> Returns(Ok(Items(f))) /\ UNCHANGED pos
          [] OTHER -> /\ Consume(IF separated THEN 1 ELSE 0)
                      /\ Becomes([f EXCEPT !.pc = "enter"])
  /\ Same

Parsed == stack = <<>>
Finished == Parsed /\ UNCHANGED vars

Next ==
  \/ Enter \/ AfterKeyword \/ AfterBelow \/ AfterContinued \/ Operator \/ AfterRight
  \/ Term \/ AfterParen
  \/ ApplyEnter \/ Stop \/ ToTerminal \/ ToNonterminal \/ AfterNonterminal
  \/ ListEnter \/ AfterItem
  \/ Finished

Spec == Init /\ [][Next]_vars
FairSpec == Spec /\ WF_vars(Next)

-----------------------------------------------------------------------------
(* The follow set is that of the nonterminal that is being read for the     *)
(* innermost rule, also after errors inside it, and there is none outside   *)
(* of rules.                                                                *)
FollowSetOfInnermost ==
  LET reading == {i \in DOMAIN stack : stack[i].fn = "apply" /\ stack[i].pc = "nonterminal"}
      innermost == stack[CHOOSE i \in reading : \A j \in reading : j <= i]
  IN followSet = IF reading = {} THEN {}
                 ELSE ComputeFollowSet(grammar[innermost.class], innermost.node, firstSets)

(* Parsing ends, whatever the rules that were allowed.                      *)
Terminates == <>Parsed
=============================================================================
