--------------------------- MODULE MCSyntaxTable ---------------------------
(***************************************************************************)
(* Rules of two classes, F and G, that start with tokens, with the         *)
(* built-in E and with each other, share nodes, disagree about a           *)
(* repetition, and are not valid.                                          *)
(***************************************************************************)
EXTENDS SyntaxTable

T(name) == [nt |-> FALSE, name |-> name, rep |-> "once"]
N(name, rep) == [nt |-> TRUE, name |-> name, rep |-> rep]
Rule(class, pattern) == [class |-> class, pattern |-> pattern, replaced |-> TRUE]

MCNonterminals == {"E", "F", "G"}
MCBuiltin == {"E"}

MCRules ==
  {Rule("F", <<T("a")>>),
   Rule("F", <<T("a"), N("E", "*"), T("b")>>),
   Rule("F", <<T("a"), N("E", "+"), T("b")>>),
   Rule("F", <<N("G", "once"), T("b")>>),
   Rule("G", <<T("c"), N("F", "once")>>),
   Rule("G", <<N("F", "?")>>),
   [class |-> "G", pattern |-> <<T("a")>>, replaced |-> FALSE]}

(* Nodes are numbered up from 1 as long as the program runs, so that their  *)
(* numbers come to those of symbols: here that of G, for one node.          *)
MCSymbolNumber == [nt \in MCNonterminals |-> CASE nt = "E" -> 101 [] nt = "F" -> 102 [] OTHER -> 3]
=============================================================================
