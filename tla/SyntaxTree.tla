----------------------------- MODULE SyntaxTree -----------------------------
(***************************************************************************)
(* Trees of custom syntax rules (parsing/parser/parsersyntaxtable.c) as    *)
(* values: how a rule extends the tree of its class, and the FIRST sets,   *)
(* FOLLOW sets and transitions that are read from the trees.               *)
(*                                                                         *)
(* A node is its path from the root <<>> of its class, a sequence of steps *)
(* <<isNonterminal, name>>; a tree is a function from paths to what a node *)
(* holds.  An item of a pattern is [nt, name, rep]: rep is what must agree *)
(* between rules that share a node ("once", "?", "*", "+", "+,").          *)
(* A rule is [class, pattern, replaced]; replaced is FALSE for a rule with *)
(* a null replacement.                                                     *)
(***************************************************************************)
EXTENDS Integers, Sequences, FiniteSets, SequencesExt

CONSTANTS
  Nonterminals,  \* names of classes
  Builtin,       \* those the parser knows itself: any token may start them
  MaxNodes       \* the longest pattern

ASSUME TreeAssumption ==
  /\ IsFiniteSet(Nonterminals) /\ Builtin \subseteq Nonterminals
  /\ MaxNodes \in Nat \ {0}

NoTree == [p \in {} |-> p]

(* As a bug would have it: the number in a field too narrow for it, as it   *)
(* would be in those of the repetition.                                     *)
NodeNarrow(id, rep) == [id |-> id % 4, rep |-> rep, accepts |-> FALSE]

(* A node: its unique number, its repetition, and the rule that ends in it. *)
Node(id, rep) == [id |-> id, rep |-> rep, accepts |-> FALSE]

NewTree(id) == [p \in {<<>>} |-> Node(id, "once")]

Step(item) == <<item.nt, item.name>>
Path(pattern, k) == [i \in 1 .. k |-> Step(pattern[i])]

Children(tree, p) == {q \in DOMAIN tree : Len(q) = Len(p) + 1 /\ IsPrefix(p, q)}
IsNonterminal(q) == Last(q)[1]
Name(q) == Last(q)[2]
Terminals(tree, p) == {q \in Children(tree, p) : ~IsNonterminal(q)}
NonterminalsOf(tree, p) == {q \in Children(tree, p) : IsNonterminal(q)}

-----------------------------------------------------------------------------
(* The item at which adding the rule to the tree fails, or the one after    *)
(* the last.  What comes before it has been added by then.                  *)
FailsAt(tree, pattern) ==
  LET fails(k) == \/ k > MaxNodes
                  \/ k = 1 /\ pattern[k].nt /\ pattern[k].rep \in {"?", "*"}
                  \/ /\ pattern[k].nt
                     /\ Path(pattern, k) \in DOMAIN tree
                     /\ tree[Path(pattern, k)].rep # pattern[k].rep
      bad == {k \in DOMAIN pattern : fails(k)}
  IN IF bad = {} THEN Len(pattern) + 1 ELSE CHOOSE k \in bad : \A j \in bad : k <= j

(* The nodes that adding the rule creates: ParserSyntaxClass_Extend finds   *)
(* the others.                                                              *)
Missing(tree, pattern) ==
  {Path(pattern, k) : k \in 1 .. FailsAt(tree, pattern) - 1} \ DOMAIN tree

(* The rule is valid, and its pattern is new and not empty.                 *)
IsNewRule(tree, rule) ==
  LET end == Path(rule.pattern, Len(rule.pattern))
  IN /\ rule.pattern # <<>>
     /\ FailsAt(tree, rule.pattern) = Len(rule.pattern) + 1
     /\ end \in DOMAIN tree => ~tree[end].accepts
     /\ rule.replaced

(* The tree after the rule: nodes are numbered from top to bottom.          *)
Extended(tree, rule, lastId) ==
  LET new == Missing(tree, rule.pattern)
      shallower(p) == Cardinality({q \in new : Len(q) <= Len(p)})
      end == Path(rule.pattern, Len(rule.pattern))
      node(p) == IF p \in new THEN Node(lastId + shallower(p), rule.pattern[Len(p)].rep)
                 ELSE tree[p]
  IN [p \in DOMAIN tree \cup new |->
        IF p = end /\ IsNewRule(tree, rule) THEN [node(p) EXCEPT !.accepts = TRUE]
        ELSE node(p)]

-----------------------------------------------------------------------------
(* Reading the trees.  trees gives the tree of every class, NoTree where    *)
(* there is none.  The token AnyToken stands for -1, "everything".          *)
AnyToken == "-1"

(* Classes that can stand first in nt: those the recursion marks as seen.   *)
Heads(tree) == {Name(q) : q \in NonterminalsOf(tree, <<>>)}
Leftmost(trees, nt) ==
  LET reach[n \in 0 .. Cardinality(Nonterminals)] ==
        IF n = 0 THEN {nt}
        ELSE LET before == reach[n - 1]
             IN before \cup UNION {Heads(trees[m]) : m \in before}
  IN reach[Cardinality(Nonterminals)]

ComputeFirstSet(trees, nt) ==
  LET seen == Leftmost(trees, nt)
  IN UNION {{Name(q) : q \in Terminals(trees[m], <<>>)} : m \in seen}
     \cup IF seen \cap Builtin # {} THEN {AnyToken} ELSE {}

(* The tokens that lead to the child q, given the FIRST sets.               *)
Leading(q, first) == IF IsNonterminal(q) THEN first[Name(q)] ELSE {Name(q)}

ComputeFollowSet(tree, p, first) ==
  UNION {Leading(q, first) : q \in Children(tree, p)}

IsAmbiguous(children, first) ==
  \E q, r \in children : q # r /\ Leading(q, first) \cap Leading(r, first) # {}

(* Where to go from p on each token, when it is not ambiguous.              *)
ComputeTransitions(tree, p, first) ==
  LET on(t) == CHOOSE q \in Children(tree, p) : t \in Leading(q, first)
  IN [t \in ComputeFollowSet(tree, p, first) |-> on(t)]
=============================================================================
