---------------------------- MODULE SyntaxTable ----------------------------
(***************************************************************************)
(* The syntax tables of nested parse scopes: a scope shares its parent's   *)
(* table until it adds a rule of its own (ParseScope_CreateChild,          *)
(* ParserSyntaxTable_VFork), tables share classes, and each table caches   *)
(* the sets that the parser has asked it for.                              *)
(*                                                                         *)
(* Tables and classes are numbered in the order of their creation.  A      *)
(* class is forked in name only: ParserSyntaxClass_Extend copies the roots *)
(* of a shared class and then adds the node to the original, and AddRule   *)
(* does not look at the copy.  All there is to the copy is that it must    *)
(* not fail: Int32Dict_Clone reads through the pointer to a dictionary,    *)
(* which is NULL for a class without roots of one of the two sorts.        *)
(*                                                                         *)
(* MaxScopes, MaxRules and MaxAsks bound how often scopes are opened,     *)
(* rules added and the caches asked.                                       *)
(***************************************************************************)
EXTENDS SyntaxTree

CONSTANTS Rules, SymbolNumber, MaxScopes, MaxRules, MaxAsks

ASSUME TableAssumption ==
  /\ \A r \in Rules : r.class \in Nonterminals /\ r.pattern \in Seq(Range(r.pattern))
  /\ \A r \in Rules : \A i \in DOMAIN r.pattern :
       r.pattern[i].nt => r.pattern[i].name \in Nonterminals
  /\ SymbolNumber \in [Nonterminals -> Nat]
  /\ \A a, b \in Nonterminals : SymbolNumber[a] = SymbolNumber[b] => a = b
  /\ MaxScopes \in Nat /\ MaxRules \in Nat /\ MaxAsks \in Nat

VARIABLES
  scopes,   \* the open scopes, the innermost last: their table and, as a
            \* history, the rules they added
  tables,   \* count, the class of each nonterminal (0: none), and the caches
            \* firstSets and transitions
  classes,  \* count and tree
  lastId,   \* UniqueNodeID
  crashed,  \* a NULL dictionary was cloned
  opened, tried, asked

vars == <<scopes, tables, classes, lastId, crashed, opened, tried, asked>>

NewScope(t) == [table |-> t, added |-> {}]
NewTable(classOf) ==
  [count |-> 1, class |-> classOf, firstSets |-> NoTree, transitions |-> NoTree]

(* The outermost scope, with an empty table.                                *)
Init ==
  /\ scopes = <<NewScope(1)>>
  /\ tables = <<NewTable([nt \in Nonterminals |-> 0])>>
  /\ classes = <<>>
  /\ lastId = 0 /\ crashed = FALSE
  /\ opened = 0 /\ tried = 0 /\ asked = 0

Inner == Len(scopes)
Current == scopes[Inner].table
TreesIn(t) ==
  [nt \in Nonterminals |-> LET c == tables[t].class[nt]
                           IN IF c = 0 THEN NoTree ELSE classes[c].tree]

-----------------------------------------------------------------------------
(* As a bug would have it: a child scope does not count.                    *)
BeginScopeUncounted ==
  /\ ~crashed /\ opened < MaxScopes
  /\ scopes' = Append(scopes, NewScope(Current))
  /\ opened' = opened + 1
  /\ UNCHANGED <<tables, classes, lastId, crashed, tried, asked>>

BeginScope ==
  /\ ~crashed /\ opened < MaxScopes
  /\ scopes' = Append(scopes, NewScope(Current))
  /\ tables' = [tables EXCEPT ![Current].count = @ + 1]
  /\ opened' = opened + 1
  /\ UNCHANGED <<classes, lastId, crashed, tried, asked>>

EndScope ==
  /\ ~crashed /\ Inner > 1
  /\ scopes' = SubSeq(scopes, 1, Inner - 1)
  /\ tables' = [tables EXCEPT ![Current].count = @ - 1]
  /\ UNCHANGED <<classes, lastId, crashed, opened, tried, asked>>

-----------------------------------------------------------------------------
(* As a bug would have it: the table is never forked.                       *)
ForksNever == FALSE

(* The table of the current scope, and what is left of the others, once the *)
(* current one may be changed: a fork of it when it is shared.  The scope   *)
(* that leaves the old table does not take its count along.                 *)
Forks == tables[Current].count > 1
OwnTable == IF Forks THEN Len(tables) + 1 ELSE Current

(* As a bug would have it: a fork starts without classes.                   *)
ForkedTablesEmpty ==
  IF Forks THEN Append(tables, NewTable([nt \in Nonterminals |-> 0])) ELSE tables

ForkedTables ==
  IF Forks THEN Append(tables, NewTable(tables[Current].class)) ELSE tables

ForkedClasses ==
  [c \in DOMAIN classes |->
     IF Forks /\ c \in {tables[Current].class[nt] : nt \in Nonterminals}
     THEN [classes[c] EXCEPT !.count = @ + 1] ELSE classes[c]]

(* The class of nonterminal nt in the current table, created where there is *)
(* none.                                                                    *)
IsNewClass(nt) == tables[Current].class[nt] = 0
ClassOf(nt) == IF IsNewClass(nt) THEN Len(classes) + 1 ELSE tables[Current].class[nt]
ClassesWith(nt) ==
  IF IsNewClass(nt) THEN Append(ForkedClasses, [count |-> 1, tree |-> NewTree(lastId + 1)])
  ELSE ForkedClasses

(* Forking the class fails.                                                 *)
CloneFails(cls, pattern) ==
  /\ cls.count > 1
  /\ Missing(cls.tree, pattern) # {}
  /\ Terminals(cls.tree, <<>>) = {} \/ NonterminalsOf(cls.tree, <<>>) = {}

(* The tables once the class nt is in the current one.                      *)
WithClass(nt) ==
  [ForkedTables EXCEPT ![OwnTable].class[nt] = ClassOf(nt)]

AddRule(rule) ==
  /\ ~crashed /\ tried < MaxRules
  /\ tried' = tried + 1
  /\ LET nt  == rule.class
         c   == ClassOf(nt)
         cls == ClassesWith(nt)[c]
         first == IF IsNewClass(nt) THEN lastId + 1 ELSE lastId
         ok  == IsNewRule(cls.tree, rule)
     IN IF CloneFails(cls, rule.pattern)
        THEN crashed' = TRUE /\ UNCHANGED <<scopes, tables, classes, lastId>>
        ELSE /\ tables' = WithClass(nt)
             /\ classes' = [ClassesWith(nt) EXCEPT ![c].tree = Extended(cls.tree, rule, first)]
             /\ lastId' = first + Cardinality(Missing(cls.tree, rule.pattern))
             /\ scopes' = [scopes EXCEPT
                  ![Inner].table = OwnTable,
                  ![Inner].added =
                    IF ok THEN @ \cup {<<nt, Path(rule.pattern, Len(rule.pattern))>>} ELSE @]
             /\ UNCHANGED crashed
  /\ UNCHANGED <<opened, asked>>

-----------------------------------------------------------------------------
(* The caches of the current table.  Nothing empties them.                  *)
Put(f, k, v) == [x \in DOMAIN f \cup {k} |-> IF x \in DOMAIN f THEN f[x] ELSE v]

(* GetFirstSet for the nonterminals nts, and firstSets afterwards.          *)
First(nts) ==
  [nt \in nts |-> IF SymbolNumber[nt] \in DOMAIN tables[Current].firstSets
                  THEN tables[Current].firstSets[SymbolNumber[nt]]
                  ELSE ComputeFirstSet(TreesIn(Current), nt)]
FirstSetsWith(nts) ==
  LET old == tables[Current].firstSets
      new == {nt \in nts : SymbolNumber[nt] \notin DOMAIN old}
  IN [n \in DOMAIN old \cup {SymbolNumber[nt] : nt \in new} |->
        IF n \in DOMAIN old THEN old[n]
        ELSE ComputeFirstSet(TreesIn(Current), CHOOSE nt \in new : SymbolNumber[nt] = n)]

(* The nodes the parser can be at in the current table.                     *)
Nodes == {n \in {tables[Current].class[nt] : nt \in Nonterminals}
                  \X UNION {DOMAIN classes[c].tree : c \in DOMAIN classes} :
            n[1] # 0 /\ n[2] \in DOMAIN classes[n[1]].tree}

(* GetTransitionTable of a node that has none.  An ambiguity is met with    *)
(* the FIRST sets of some of its children.                                  *)
Consult(c, p) ==
  /\ ~crashed /\ asked < MaxAsks
  /\ asked' = asked + 1
  /\ LET tree == classes[c].tree
         id   == tree[p].id
         kids == NonterminalsOf(tree, p)
         fixed == Terminals(tree, p)
         names(s) == {Name(q) : q \in s}
         clash(s) == IsAmbiguous(fixed \cup s, First(names(kids)))
     IN /\ id \notin DOMAIN tables[Current].transitions
        /\ \E s \in SUBSET kids :
             /\ IF clash(kids) THEN clash(s) /\ \E q \in s : ~clash(s \ {q})
                ELSE s = kids
             /\ tables' = [tables EXCEPT
                  ![Current].firstSets = FirstSetsWith(names(s)),
                  ![Current].transitions = Put(@, id,
                     [clear |-> ~clash(kids),
                      on |-> IF clash(kids) THEN NoTree
                             ELSE ComputeTransitions(tree, p, First(names(kids)))])]
  /\ UNCHANGED <<scopes, classes, lastId, crashed, opened, tried>>

(* GetFollowSet of a nonterminal node that the moves of the node above lead *)
(* to.  It looks in followSets, where nothing is ever put, so that the set  *)
(* is computed each time; the first is stored, in firstSets and under the   *)
(* number of the node.                                                      *)
Follow(c, q) ==
  /\ ~crashed /\ asked < MaxAsks
  /\ asked' = asked + 1
  /\ q # <<>> /\ IsNonterminal(q)
  /\ LET tree == classes[c].tree
         up   == tree[Front(q)].id
         kids == {Name(r) : r \in NonterminalsOf(tree, q)}
     IN /\ up \in DOMAIN tables[Current].transitions
        /\ q \in Range(tables[Current].transitions[up].on)
        /\ tables' = [tables EXCEPT ![Current].firstSets =
             Put(FirstSetsWith(kids), tree[q].id,
                 ComputeFollowSet(tree, q, First(kids)))]
  /\ UNCHANGED <<scopes, classes, lastId, crashed, opened, tried>>

(* No more to parse.                                                        *)
Finished == UNCHANGED vars

Next ==
  \/ BeginScope \/ EndScope
  \/ \E r \in Rules : AddRule(r)
  \/ \E n \in Nodes : Consult(n[1], n[2]) \/ Follow(n[1], n[2])
  \/ Finished

Spec == Init /\ [][Next]_vars

-----------------------------------------------------------------------------
(* The counts that decide about copying never fall short: a table counts at *)
(* least the open scopes that use it, a class exactly the tables that hold  *)
(* it.                                                                      *)
CountsCover ==
  /\ \A t \in DOMAIN tables :
       tables[t].count >= Cardinality({i \in DOMAIN scopes : scopes[i].table = t})
  /\ \A c \in DOMAIN classes :
       classes[c].count = Cardinality({t \in DOMAIN tables :
                                         \E nt \in Nonterminals : tables[t].class[nt] = c})

(* A rule never changes what classes an enclosing scope has: the table is   *)
(* forked first.                                                            *)
OuterTablesKept ==
  [][Len(scopes') = Len(scopes) =>
       \A i \in 1 .. Inner - 1 :
         /\ scopes'[i].table = scopes[i].table
         /\ tables'[scopes[i].table].class = tables[scopes[i].table].class]_vars

Visible(t) ==
  {rule \in Nonterminals \X UNION {DOMAIN classes[c].tree : c \in DOMAIN classes} :
     LET tree == TreesIn(t)[rule[1]] IN rule[2] \in DOMAIN tree /\ tree[rule[2]].accepts}

(* A scope sees the rules of the scopes around it and its own, as long as   *)
(* it is open, whatever was forked meanwhile.                               *)
RulesKept ==
  \A i \in DOMAIN scopes : \A j \in 1 .. i : scopes[j].added \subseteq Visible(scopes[i].table)

(* No nonterminal node of a table's trees has the number of a nonterminal's *)
(* symbol.  Where one has, the two share an entry of firstSets and a FOLLOW *)
(* set is taken for a FIRST set (parsersyntaxtable.c:656).                  *)
NumbersApart(t) ==
  \A nt, m \in Nonterminals : \A q \in DOMAIN TreesIn(t)[m] :
    q # <<>> /\ IsNonterminal(q) => TreesIn(t)[m][q].id # SymbolNumber[nt]

(* What a cache holds may be behind the rules of its table but is never     *)
(* wrong, as long as numbers are apart: a token in a cached FIRST set can   *)
(* start the nonterminal and one in a stored FOLLOW set can come after the  *)
(* node; a cached move leads to a child of its node that its token can      *)
(* start; and a node that was found ambiguous is.                           *)
CachesOnlyLag ==
  \A t \in DOMAIN tables : NumbersApart(t) =>
    LET trees == TreesIn(t)
        first == [nt \in Nonterminals |-> ComputeFirstSet(trees, nt)]
        sets  == tables[t].firstSets
        moves == tables[t].transitions
    IN /\ \A nt \in Nonterminals : SymbolNumber[nt] \in DOMAIN sets =>
            sets[SymbolNumber[nt]] \subseteq first[nt]
       /\ \A nt \in Nonterminals : \A p \in DOMAIN trees[nt] :
            LET id == trees[nt][p].id
            IN /\ p # <<>> /\ IsNonterminal(p) /\ id \in DOMAIN sets =>
                    sets[id] \subseteq ComputeFollowSet(trees[nt], p, first)
               /\ id \in DOMAIN moves =>
                    /\ \A x \in DOMAIN moves[id].on :
                         /\ moves[id].on[x] \in Children(trees[nt], p)
                         /\ x \in Leading(moves[id].on[x], first)
                    /\ ~moves[id].clear => IsAmbiguous(Children(trees[nt], p), first)
=============================================================================
