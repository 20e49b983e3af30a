---------------------------- MODULE MCExprParser ----------------------------
(***************************************************************************)
(* Statements of a few tokens under several sets of rules.                 *)
(***************************************************************************)
EXTENDS ExprGrammar

T(name) == [nt |-> FALSE, name |-> name, rep |-> "once"]
N(name) == [nt |-> TRUE, name |-> name, rep |-> "once"]
R(name, rep) == [nt |-> TRUE, name |-> name, rep |-> rep]
Rule(class, pattern) == [class |-> class, pattern |-> pattern, replaced |-> TRUE]

MCBuiltin == {"STMT", "EXPR", "CMPEXPR", "ADDEXPR", "MULEXPR", "BINARYEXPR", "PREFIXEXPR",
              "POSTFIXEXPR", "TERM", "NAME"}
MCNonterminals == MCBuiltin \cup {"A-LIST", "AN-ITEM"}

UpTo(n, tokens) == UNION {[1 .. k -> tokens] : k \in 1 .. n}
Case(rules, inputs) == [rules |-> rules, inputs |-> inputs]

Ops == {"or", "and", "<", "+", "*", "k", ":", "..", ","}
Operands(a, b) == {<<"x", a, "x", b, "x">>, <<"x", a, b, "x">>, <<"(", "x", a, "x", ")", b, "x">>}
NoRules == Case(<<>>, UpTo(4, {"x", "or", "not", "+", "k"}) \cup UpTo(4, {"x", "+", "(", ")"})
                      \cup UNION {Operands(a, b) : a, b \in Ops})

(* A rule that is a part of another.                                        *)
Partial == Case(<<Rule("EXPR", <<T("k"), N("EXPR")>>),
                  Rule("EXPR", <<T("k"), N("EXPR"), T("m"), N("EXPR")>>)>>,
                UpTo(5, {"x", "k", "m", "+"}) \cup
                {<<"k", "(", "k", "+", ")", "m", "x">>, <<"k", "(", "x", "m", "x", ")", "m", "x">>})

(* Lists of what the parser knows, with a separator.                        *)
Lists == Case(<<Rule("STMT", <<T("k"), R("EXPR", "+,")>>)>>, UpTo(5, {"x", "k", "m", ","}))

(* Lists of a class, in which a rule calls itself, and options.             *)
ItemLists == Case(<<Rule("STMT", <<T("k"), R("AN-ITEM", "*"), T("m")>>),
                Rule("STMT", <<T("m"), R("AN-ITEM", "?"), T("k")>>),
                Rule("AN-ITEM", <<T("+"), N("NAME")>>),
                Rule("AN-ITEM", <<T("("), N("A-LIST"), T(")")>>),
                Rule("A-LIST", <<N("AN-ITEM"), N("A-LIST")>>),
                Rule("A-LIST", <<N("AN-ITEM")>>)>>,
              UpTo(4, {"x", "k", "m", "+", "("}) \cup
              {<<"k", "+", "x", "+", "k", "m">>, <<"k", "(", "+", "x", "+", "x", ")", "m">>})

(* Rules that start with an operand: of these only the first is valid.      *)
Infix == Case(<<Rule("CMPEXPR", <<N("ADDEXPR"), T("k"), N("ADDEXPR")>>),
                Rule("CMPEXPR", <<N("ADDEXPR")>>),
                Rule("ADDEXPR", <<N("MULEXPR"), T("+"), N("MULEXPR")>>),
                Rule("EXPR", <<N("TERM")>>)>>,
              UpTo(5, {"x", "k", "+", "<"}))

(* Rules that cannot be told apart, and one that never matches.             *)
Hopeless == Case(<<Rule("STMT", <<T("k"), N("EXPR")>>), Rule("STMT", <<T("k"), N("NAME")>>),
                   Rule("STMT", <<T("m"), R("AN-ITEM", "+"), T("k")>>),
                   Rule("AN-ITEM", <<T("+")>>)>>,
                 UpTo(3, {"x", "k", "m", "+"}))

MCCases == {NoRules, Partial, Lists, ItemLists, Infix, Hopeless}

NoRulesOnly == {NoRules}
=============================================================================
