------------------------- MODULE SyntaxTableProofs -------------------------
(***************************************************************************)
(* Proofs about the tables of nested parse scopes, for every set of rules, *)
(* every nesting of scopes and every order in which rules are added.       *)
(***************************************************************************)
EXTENDS SyntaxTable, SequenceTheorems, FiniteSetTheorems, WellFoundedInduction, TLAPS

(* A sequence, whatever its elements are.                                   *)
IsSeq(s) == Len(s) \in Nat /\ s = [k \in 1 .. Len(s) |-> s[k]]

(* Records, whatever their fields hold.                                     *)
ScopeShape(x) == x = [table |-> x.table, added |-> x.added]
TableShape(x) == x = [count |-> x.count, class |-> x.class,
                      firstSets |-> x.firstSets, transitions |-> x.transitions]
ClassShape(x) == x = [count |-> x.count, tree |-> x.tree]
NodeShape(x) == x = [id |-> x.id, rep |-> x.rep, accepts |-> x.accepts]
TreeShape(tree) == \A p \in DOMAIN tree : NodeShape(tree[p])

-----------------------------------------------------------------------------
(* A function on the first n positive numbers is a sequence.                *)
LEMMA FunIsSeq ==
  ASSUME NEW n \in Nat, NEW s, s = [k \in 1 .. n |-> s[k]]
  PROVE  IsSeq(s) /\ Len(s) = n
<1>1. s \in Seq({s[k] : k \in 1 .. n})
  OBVIOUS
<1>2. Len(s) \in Nat /\ DOMAIN s = 1 .. Len(s)
  BY <1>1
<1>3. Len(s) = n
  BY <1>2
<1>. QED
  BY <1>3 DEF IsSeq

(* What Append and the removal of the last element do to a sequence.        *)
LEMMA SeqFacts ==
  ASSUME NEW s, IsSeq(s), NEW x
  PROVE  /\ IsSeq(Append(s, x)) /\ Len(Append(s, x)) = Len(s) + 1
         /\ Append(s, x)[Len(s) + 1] = x
         /\ \A k \in 1 .. Len(s) : Append(s, x)[k] = s[k]
         /\ Len(s) > 0 => /\ IsSeq(SubSeq(s, 1, Len(s) - 1))
                          /\ Len(SubSeq(s, 1, Len(s) - 1)) = Len(s) - 1
                          /\ \A k \in 1 .. Len(s) - 1 : SubSeq(s, 1, Len(s) - 1)[k] = s[k]
<1> DEFINE S == {s[k] : k \in 1 .. Len(s)} \cup {x}
           n == Len(s)
<1>1. s \in Seq(S) /\ n \in Nat /\ x \in S
  BY DEF IsSeq
<1>2. /\ Append(s, x) \in Seq(S) /\ Len(Append(s, x)) = n + 1
      /\ Append(s, x)[n + 1] = x /\ \A k \in 1 .. n : Append(s, x)[k] = s[k]
  BY <1>1
<1>3. ASSUME n > 0
      PROVE  /\ SubSeq(s, 1, n - 1) \in Seq(S) /\ Len(SubSeq(s, 1, n - 1)) = n - 1
             /\ \A k \in 1 .. n - 1 : SubSeq(s, 1, n - 1)[k] = s[k]
  <2> DEFINE t == SubSeq(s, 1, n - 1)
  <2>1. \A i \in 1 .. n - 1 : s[i] \in S
    OBVIOUS
  <2>2. /\ t \in Seq(S) /\ Len(t) = IF 1 <= n - 1 THEN n - 1 - 1 + 1 ELSE 0
        /\ \A i \in 1 .. n - 1 - 1 + 1 : t[i] = s[1 + i - 1]
    BY <1>1, <2>1, SubSeqProperties
  <2> HIDE DEF t, n, S
  <2>3. Len(t) = n - 1
    BY <1>1, <1>3, <2>2
  <2>4. ASSUME NEW k \in 1 .. n - 1 PROVE t[k] = s[k]
    <3>1. k \in 1 .. n - 1 - 1 + 1 /\ 1 + k - 1 = k
      BY <1>1
    <3>. QED
      BY <2>2, <3>1
  <2>. QED
    BY <2>2, <2>3, <2>4 DEF t
<1>4. ASSUME NEW q \in Seq(S) PROVE IsSeq(q)
  BY DEF IsSeq
<1>. QED
  BY <1>2, <1>3, <1>4

(* Replacing one element of a sequence.                                     *)
Replaced(s, j, x, q) == q = [s EXCEPT ![j] = x]

(* The sequence keeps its length and its other elements.                    *)
LEMMA SeqExcept ==
  ASSUME NEW s, IsSeq(s), NEW j \in 1 .. Len(s), NEW x, NEW q, Replaced(s, j, x, q)
  PROVE  /\ IsSeq(q) /\ Len(q) = Len(s) /\ q[j] = x
         /\ \A k \in 1 .. Len(s) : k # j => q[k] = s[k]
<1> DEFINE n == Len(s)
<1>1. n \in Nat /\ DOMAIN s = 1 .. n
  BY DEF IsSeq
<1>2. q = [k \in 1 .. n |-> q[k]]
  BY <1>1 DEF Replaced
<1>3. IsSeq(q) /\ Len(q) = n
  BY <1>1, <1>2, FunIsSeq
<1>. QED
  BY <1>1, <1>3 DEF Replaced

(* A table with these fields.                                               *)
Fields(count, class, firstSets, transitions) ==
  [count |-> count, class |-> class, firstSets |-> firstSets, transitions |-> transitions]

(* It has the fields it was given.                                          *)
LEMMA FieldsOf ==
  ASSUME NEW a, NEW b, NEW c, NEW d, NEW x, x = Fields(a, b, c, d)
  PROVE  /\ TableShape(x)
         /\ x.count = a /\ x.class = b /\ x.firstSets = c /\ x.transitions = d
  BY DEF Fields, TableShape

(* Assigning to one field of a table.                                       *)
LEMMA TableRecord ==
  ASSUME NEW r, TableShape(r), NEW v
  PROVE  /\ [r EXCEPT !.count = v] = Fields(v, r.class, r.firstSets, r.transitions)
         /\ [r EXCEPT !.class = v] = Fields(r.count, v, r.firstSets, r.transitions)
         /\ [r EXCEPT !.firstSets = v] = Fields(r.count, r.class, v, r.transitions)
         /\ [r EXCEPT !.transitions = v] = Fields(r.count, r.class, r.firstSets, v)
<1>1. PICK S : r \in [count : S, class : S, firstSets : S, transitions : S] /\ v \in S
  <2>1. r \in [count : {r.count, r.class, r.firstSets, r.transitions, v},
               class : {r.count, r.class, r.firstSets, r.transitions, v},
               firstSets : {r.count, r.class, r.firstSets, r.transitions, v},
               transitions : {r.count, r.class, r.firstSets, r.transitions, v}]
    BY DEF TableShape
  <2>. QED
    BY <2>1
<1>2. [r EXCEPT !.count = v] = Fields(v, r.class, r.firstSets, r.transitions)
  BY <1>1 DEF Fields
<1>3. [r EXCEPT !.class = v] = Fields(r.count, v, r.firstSets, r.transitions)
  BY <1>1 DEF Fields
<1>4. [r EXCEPT !.firstSets = v] = Fields(r.count, r.class, v, r.transitions)
  BY <1>1 DEF Fields
<1>5. [r EXCEPT !.transitions = v] = Fields(r.count, r.class, r.firstSets, v)
  BY <1>1 DEF Fields
<1>. QED
  BY <1>2, <1>3, <1>4, <1>5

(* Assigning to a field of one table of a sequence of them.                 *)
CountSet(s, j, v, q) == q = [s EXCEPT ![j].count = v]
ClassSet(s, j, v, q) == q = [s EXCEPT ![j].class = v]
FirstSetsSet(s, j, v, q) == q = [s EXCEPT ![j].firstSets = v]
TransitionsSet(s, j, v, q) == q = [s EXCEPT ![j].transitions = v]

(* It replaces that table by one with the new field.                        *)
LEMMA FieldExcept ==
  ASSUME NEW s, NEW j, TableShape(s[j]), NEW v, NEW q
  PROVE  /\ CountSet(s, j, v, q) =>
              Replaced(s, j, Fields(v, s[j].class, s[j].firstSets, s[j].transitions), q)
         /\ ClassSet(s, j, v, q) =>
              Replaced(s, j, Fields(s[j].count, v, s[j].firstSets, s[j].transitions), q)
         /\ FirstSetsSet(s, j, v, q) =>
              Replaced(s, j, Fields(s[j].count, s[j].class, v, s[j].transitions), q)
         /\ TransitionsSet(s, j, v, q) =>
              Replaced(s, j, Fields(s[j].count, s[j].class, s[j].firstSets, v), q)
<1> DEFINE r == s[j]
<1>1. /\ CountSet(s, j, v, q) => q = [s EXCEPT ![j] = [r EXCEPT !.count = v]]
      /\ ClassSet(s, j, v, q) => q = [s EXCEPT ![j] = [r EXCEPT !.class = v]]
      /\ FirstSetsSet(s, j, v, q) => q = [s EXCEPT ![j] = [r EXCEPT !.firstSets = v]]
      /\ TransitionsSet(s, j, v, q) => q = [s EXCEPT ![j] = [r EXCEPT !.transitions = v]]
  BY DEF CountSet, ClassSet, FirstSetsSet, TransitionsSet
<1>2. /\ [r EXCEPT !.count = v] = Fields(v, r.class, r.firstSets, r.transitions)
      /\ [r EXCEPT !.class = v] = Fields(r.count, v, r.firstSets, r.transitions)
      /\ [r EXCEPT !.firstSets = v] = Fields(r.count, r.class, v, r.transitions)
      /\ [r EXCEPT !.transitions = v] = Fields(r.count, r.class, r.firstSets, v)
  <2>1. TableShape(r)
    OBVIOUS
  <2> HIDE DEF r
  <2>. QED
    BY <2>1, TableRecord
<1>. QED
  BY <1>1, <1>2 DEF Replaced

-----------------------------------------------------------------------------
(* The inductive invariant.  CountsCover is part of it: it makes a table    *)
(* that is not forked one that no other open scope uses.  Nested says that  *)
(* an inner scope has the classes of the scopes around it, and AddedInv     *)
(* that the rules of a scope are in the trees of its own table.             *)
TypeOK ==
  /\ IsSeq(scopes) /\ Len(scopes) >= 1
  /\ IsSeq(tables) /\ IsSeq(classes)
  /\ \A s \in 1 .. Len(scopes) :
       ScopeShape(scopes[s]) /\ scopes[s].table \in 1 .. Len(tables)
  /\ \A t \in 1 .. Len(tables) :
       /\ TableShape(tables[t]) /\ tables[t].count \in Int
       /\ tables[t].class \in [Nonterminals -> 0 .. Len(classes)]
  /\ \A c \in 1 .. Len(classes) :
       ClassShape(classes[c]) /\ classes[c].count \in Int /\ TreeShape(classes[c].tree)

Nested ==
  \A j, s \in 1 .. Len(scopes) : \A nt \in Nonterminals :
    j <= s /\ tables[scopes[j].table].class[nt] # 0 =>
      tables[scopes[s].table].class[nt] = tables[scopes[j].table].class[nt]

HasRule(t, nt, p) ==
  LET c == tables[t].class[nt]
  IN c # 0 /\ p \in DOMAIN classes[c].tree /\ classes[c].tree[p].accepts

AddedInv ==
  \A s \in 1 .. Len(scopes) : \A rule \in scopes[s].added :
    /\ rule = <<rule[1], rule[2]>> /\ rule[1] \in Nonterminals
    /\ HasRule(scopes[s].table, rule[1], rule[2])

IInv == TypeOK /\ CountsCover /\ Nested /\ AddedInv

(* The open scopes that use a table, and the tables that hold a class.      *)
UsersOf(t) == {i \in DOMAIN scopes : scopes[i].table = t}
HoldersOf(c) == {t \in DOMAIN tables : \E nt \in Nonterminals : tables[t].class[nt] = c}

(* Domains, and that there are finitely many of everything.                 *)
LEMMA Finite ==
  ASSUME TypeOK
  PROVE  /\ DOMAIN scopes = 1 .. Len(scopes) /\ Len(scopes) \in Nat
         /\ DOMAIN tables = 1 .. Len(tables) /\ Len(tables) \in Nat
         /\ DOMAIN classes = 1 .. Len(classes) /\ Len(classes) \in Nat
         /\ Inner \in 1 .. Len(scopes) /\ Current \in 1 .. Len(tables)
         /\ \A t : IsFiniteSet(UsersOf(t)) /\ Cardinality(UsersOf(t)) \in Nat
         /\ \A c : IsFiniteSet(HoldersOf(c)) /\ Cardinality(HoldersOf(c)) \in Nat
<1>1. /\ DOMAIN scopes = 1 .. Len(scopes) /\ Len(scopes) \in Nat
      /\ DOMAIN tables = 1 .. Len(tables) /\ Len(tables) \in Nat
      /\ DOMAIN classes = 1 .. Len(classes) /\ Len(classes) \in Nat
  BY DEF TypeOK, IsSeq
<1>2. Inner \in 1 .. Len(scopes) /\ Current \in 1 .. Len(tables)
  BY <1>1 DEF TypeOK, Inner, Current
<1>3. ASSUME NEW n \in Nat, NEW S \in SUBSET (1 .. n)
      PROVE  IsFiniteSet(S) /\ Cardinality(S) \in Nat
  <2>1. IsFiniteSet(1 .. n)
    BY FS_Interval
  <2>. QED
    BY <2>1, FS_Subset, FS_CardinalityType
<1>4. ASSUME NEW t PROVE IsFiniteSet(UsersOf(t)) /\ Cardinality(UsersOf(t)) \in Nat
  BY <1>1, <1>3 DEF UsersOf
<1>5. ASSUME NEW c PROVE IsFiniteSet(HoldersOf(c)) /\ Cardinality(HoldersOf(c)) \in Nat
  BY <1>1, <1>3 DEF HoldersOf
<1>. QED
  BY <1>1, <1>2, <1>4, <1>5

(* CountsCover in these terms.                                              *)
LEMMA Counts ==
  ASSUME TypeOK
  PROVE  CountsCover <=>
           /\ \A t \in 1 .. Len(tables) : tables[t].count >= Cardinality(UsersOf(t))
           /\ \A c \in 1 .. Len(classes) : classes[c].count = Cardinality(HoldersOf(c))
  BY Finite DEF CountsCover, UsersOf, HoldersOf

(* A step that opens or closes no scope and changes neither a count nor a   *)
(* class, as the questions to the caches do not, keeps the invariant.       *)
LEMMA SameTables ==
  ASSUME IInv, UNCHANGED <<scopes, classes>>,
         IsSeq(tables'), Len(tables') = Len(tables),
         \A t \in 1 .. Len(tables) : /\ TableShape(tables'[t])
                                     /\ tables'[t].count = tables[t].count
                                     /\ tables'[t].class = tables[t].class
  PROVE  IInv'
<1>1. TypeOK /\ DOMAIN tables = 1 .. Len(tables) /\ DOMAIN tables' = 1 .. Len(tables)
  BY Finite DEF IInv, IsSeq
<1>2. TypeOK'
  BY <1>1 DEF TypeOK
<1>3. CountsCover'
  <2>1. \A t : UsersOf(t)' = UsersOf(t)
    BY DEF UsersOf
  <2>2. \A c : HoldersOf(c)' = HoldersOf(c)
    BY <1>1 DEF HoldersOf
  <2>3. /\ \A t \in 1 .. Len(tables) : tables[t].count >= Cardinality(UsersOf(t))
        /\ \A c \in 1 .. Len(classes) : classes[c].count = Cardinality(HoldersOf(c))
    BY <1>1, Counts DEF IInv
  <2>4. (/\ \A t \in 1 .. Len(tables) : tables[t].count >= Cardinality(UsersOf(t))
         /\ \A c \in 1 .. Len(classes) : classes[c].count = Cardinality(HoldersOf(c)))'
    BY <2>1, <2>2, <2>3
  <2>. QED
    BY <1>1, <2>4, Finite DEF CountsCover, UsersOf, HoldersOf
<1>4. \A s \in 1 .. Len(scopes) : scopes[s].table \in 1 .. Len(tables)
  BY <1>1 DEF TypeOK
<1>5. Nested'
  BY <1>4, SMTT(20) DEF IInv, Nested
<1>6. AddedInv'
  <2>1. ASSUME NEW s \in 1 .. Len(scopes), NEW rule \in scopes[s].added
        PROVE  (HasRule(scopes[s].table, rule[1], rule[2]))'
    <3>1. HasRule(scopes[s].table, rule[1], rule[2])
      BY DEF IInv, AddedInv
    <3>. QED
      BY <3>1, <1>4 DEF HasRule
  <2>. QED
    BY <2>1 DEF IInv, AddedInv
<1>. QED
  BY <1>2, <1>3, <1>5, <1>6 DEF IInv

(* Assigning to a cache of one table.                                       *)
LEMMA CacheSet ==
  ASSUME NEW s, IsSeq(s), \A k \in 1 .. Len(s) : TableShape(s[k]),
         NEW j \in 1 .. Len(s), NEW v, NEW q,
         FirstSetsSet(s, j, v, q) \/ TransitionsSet(s, j, v, q)
  PROVE  /\ IsSeq(q) /\ Len(q) = Len(s)
         /\ \A k \in 1 .. Len(s) : /\ TableShape(q[k]) /\ q[k].count = s[k].count
                                   /\ q[k].class = s[k].class
<1>1. PICK x : Replaced(s, j, x, q) /\ TableShape(x) /\ x.count = s[j].count /\ x.class = s[j].class
  BY FieldExcept, FieldsOf
<1>. QED
  BY <1>1, SeqExcept

(* GetTransitionTable and GetFollowSet write to the caches only.            *)
LEMMA AskClasses ==
  ASSUME IInv, NEW c, NEW p, Consult(c, p) \/ Follow(c, p)
  PROVE  /\ UNCHANGED <<scopes, classes>>
         /\ IsSeq(tables') /\ Len(tables') = Len(tables)
         /\ \A t \in 1 .. Len(tables) : /\ TableShape(tables'[t])
                                        /\ tables'[t].count = tables[t].count
                                        /\ tables'[t].class = tables[t].class
<1> DEFINE j == Current
<1>1. /\ TypeOK /\ IsSeq(tables) /\ j \in 1 .. Len(tables)
      /\ \A t \in 1 .. Len(tables) : TableShape(tables[t])
  BY Finite DEF IInv, TypeOK
<1>2. UNCHANGED <<scopes, classes>>
  BY DEF Consult, Follow
<1>3. /\ IsSeq(tables') /\ Len(tables') = Len(tables)
      /\ \A t \in 1 .. Len(tables) : /\ TableShape(tables'[t])
                                     /\ tables'[t].count = tables[t].count
                                     /\ tables'[t].class = tables[t].class
  <2>1. CASE Consult(c, p)
    <3>1. PICK f, g : tables' = [tables EXCEPT ![j].firstSets = f, ![j].transitions = g]
      BY <2>1 DEF Consult
    <3> DEFINE q == [tables EXCEPT ![j].firstSets = f]
               z == tables'
    <3>2. FirstSetsSet(tables, j, f, q) /\ TransitionsSet(q, j, g, z)
      BY <3>1 DEF FirstSetsSet, TransitionsSet
    <3> HIDE DEF j, q, z
    <3>3. /\ IsSeq(q) /\ Len(q) = Len(tables)
          /\ \A t \in 1 .. Len(tables) : /\ TableShape(q[t]) /\ q[t].count = tables[t].count
                                         /\ q[t].class = tables[t].class
      BY <3>2, <1>1, CacheSet
    <3>4. /\ IsSeq(z) /\ Len(z) = Len(q)
          /\ \A t \in 1 .. Len(q) : /\ TableShape(z[t]) /\ z[t].count = q[t].count
                                    /\ z[t].class = q[t].class
      BY <3>2, <3>3, <1>1, CacheSet
    <3>. QED
      BY <3>3, <3>4 DEF z
  <2>2. CASE Follow(c, p)
    <3>1. PICK f : tables' = [tables EXCEPT ![j].firstSets = f]
      BY <2>2 DEF Follow
    <3> DEFINE z == tables'
    <3>2. FirstSetsSet(tables, j, f, z)
      BY <3>1 DEF FirstSetsSet
    <3> HIDE DEF j, z
    <3>3. /\ IsSeq(z) /\ Len(z) = Len(tables)
          /\ \A t \in 1 .. Len(tables) : /\ TableShape(z[t]) /\ z[t].count = tables[t].count
                                         /\ z[t].class = tables[t].class
      BY <3>2, <1>1, CacheSet
    <3>. QED
      BY <3>3 DEF z
  <2>. QED
    BY <2>1, <2>2
<1>. QED
  BY <1>2, <1>3

(* So they keep the invariant.                                              *)
LEMMA AskInv ==
  ASSUME IInv, NEW c, NEW p, Consult(c, p) \/ Follow(c, p)
  PROVE  IInv'
  BY AskClasses, SameTables

(* Changing the count of one table.                                         *)
LEMMA CountChanged ==
  ASSUME NEW s, IsSeq(s), \A k \in 1 .. Len(s) : TableShape(s[k]),
         NEW j \in 1 .. Len(s), NEW v, NEW q, CountSet(s, j, v, q)
  PROVE  /\ IsSeq(q) /\ Len(q) = Len(s) /\ q[j].count = v
         /\ \A k \in 1 .. Len(s) : /\ TableShape(q[k]) /\ q[k].class = s[k].class
                                   /\ k # j => q[k] = s[k]
<1>1. PICK x : Replaced(s, j, x, q) /\ TableShape(x) /\ x.count = v /\ x.class = s[j].class
  BY FieldExcept, FieldsOf
<1>. QED
  BY <1>1, SeqExcept

(* Opening a scope: the table counts one more scope that uses it.           *)
LEMMA BeginScopeInv ==
  ASSUME IInv, BeginScope
  PROVE  IInv'
<1> DEFINE n == Len(scopes)
           r == tables[Current]
<1>1. /\ TypeOK /\ IsSeq(tables) /\ IsSeq(scopes) /\ Current \in 1 .. Len(tables)
      /\ n \in Nat /\ n >= 1 /\ Inner = n /\ r.count \in Int
      /\ DOMAIN tables = 1 .. Len(tables) /\ DOMAIN scopes = 1 .. n
      /\ \A t \in 1 .. Len(tables) : TableShape(tables[t])
  BY Finite DEF IInv, TypeOK, Inner
<1>2. /\ scopes' = Append(scopes, NewScope(Current)) /\ classes' = classes
      /\ CountSet(tables, Current, r.count + 1, tables')
  BY DEF BeginScope, CountSet
<1>3. /\ IsSeq(tables') /\ Len(tables') = Len(tables) /\ tables'[Current].count = r.count + 1
      /\ \A t \in 1 .. Len(tables) : /\ TableShape(tables'[t])
                                     /\ tables'[t].class = tables[t].class
                                     /\ t # Current => tables'[t] = tables[t]
  <2> DEFINE j == Current
             z == tables'
             v == r.count + 1
  <2>1. j \in 1 .. Len(tables) /\ CountSet(tables, j, v, z)
    BY <1>1, <1>2
  <2> HIDE DEF j, z, v
  <2>2. /\ IsSeq(z) /\ Len(z) = Len(tables) /\ z[j].count = v
        /\ \A t \in 1 .. Len(tables) : /\ TableShape(z[t]) /\ z[t].class = tables[t].class
                                       /\ t # j => z[t] = tables[t]
    BY <1>1, <2>1, CountChanged
  <2>. QED
    BY <2>2 DEF j, z, v
<1>4. /\ IsSeq(scopes') /\ Len(scopes') = n + 1 /\ scopes'[n + 1] = NewScope(Current)
      /\ \A k \in 1 .. n : scopes'[k] = scopes[k]
  BY <1>1, <1>2, SeqFacts
<1>5. /\ NewScope(Current).table = Current /\ NewScope(Current).added = {}
      /\ ScopeShape(NewScope(Current))
  BY DEF NewScope, ScopeShape
<1>6. /\ DOMAIN scopes' = 1 .. n + 1 /\ DOMAIN tables' = 1 .. Len(tables)
      /\ \A k \in 1 .. n + 1 : k = n + 1 \/ k \in 1 .. n
  BY <1>1, <1>3, <1>4 DEF IsSeq
<1>7. \A t \in 1 .. Len(tables) : tables'[t].class = tables[t].class
  BY <1>3
<1> HIDE DEF n
<1>8. TypeOK'
  <2>0. n + 1 >= 1
    BY <1>1
  <2>1. \A s \in 1 .. n + 1 : ScopeShape(scopes'[s]) /\ scopes'[s].table \in 1 .. Len(tables)
    BY <1>1, <1>4, <1>5, <1>6 DEF TypeOK, n
  <2>2. \A t \in 1 .. Len(tables) :
          /\ TableShape(tables'[t]) /\ tables'[t].count \in Int
          /\ tables'[t].class \in [Nonterminals -> 0 .. Len(classes)]
    BY <1>1, <1>3 DEF TypeOK
  <2>. QED
    BY <2>0, <2>1, <2>2, <1>1, <1>2, <1>3, <1>4 DEF TypeOK
<1>9. CountsCover'
  <2>1. /\ \A t \in 1 .. Len(tables) : tables[t].count >= Cardinality(UsersOf(t))
        /\ \A c \in 1 .. Len(classes) : classes[c].count = Cardinality(HoldersOf(c))
    BY <1>1, Counts DEF IInv
  <2>2. ASSUME NEW t \in 1 .. Len(tables), t # Current PROVE UsersOf(t)' = UsersOf(t)
    BY <2>2, <1>1, <1>4, <1>5, <1>6 DEF UsersOf
  <2>3. UsersOf(Current) \subseteq 1 .. n /\ n + 1 \notin 1 .. n
    BY <1>1 DEF UsersOf
  <2>4. \A t : t = Current => UsersOf(t)' = UsersOf(t) \cup {n + 1}
    BY <1>1, <1>4, <1>5, <1>6 DEF UsersOf
  <2>5. Cardinality(UsersOf(Current) \cup {n + 1}) = Cardinality(UsersOf(Current)) + 1
    <3>1. IsFiniteSet(UsersOf(Current)) /\ n + 1 \notin UsersOf(Current)
      BY <1>1, <2>3, Finite
    <3>. QED
      BY <3>1, FS_AddElement
  <2>6. ASSUME NEW t \in 1 .. Len(tables)
        PROVE  tables'[t].count >= Cardinality(UsersOf(t)')
    <3>1. CASE t = Current
      <4>1. tables'[t].count = r.count + 1 /\ Cardinality(UsersOf(t)') = Cardinality(UsersOf(Current)) + 1
        BY <3>1, <1>3, <2>4, <2>5
      <4>2. r.count >= Cardinality(UsersOf(Current)) /\ Cardinality(UsersOf(Current)) \in Nat
        BY <1>1, <2>1, Finite
      <4>. QED
        BY <4>1, <4>2, <1>1
    <3>2. CASE t # Current
      BY <3>2, <1>3, <2>1, <2>2
    <3>. QED
      BY <3>1, <3>2
  <2>7. \A c : HoldersOf(c)' = HoldersOf(c)
    BY <1>1, <1>6, <1>7 DEF HoldersOf
  <2>8. \A c \in 1 .. Len(classes) : classes'[c].count = Cardinality(HoldersOf(c)')
    BY <1>2, <2>1, <2>7
  <2>9. DOMAIN classes' = 1 .. Len(classes)
    BY <1>1, <1>2, Finite
  <2>. QED
    BY <1>6, <2>6, <2>8, <2>9 DEF CountsCover, UsersOf, HoldersOf
<1>10. \A s \in 1 .. n : scopes[s].table \in 1 .. Len(tables)
  BY <1>1 DEF TypeOK, n
<1>11. Nested'
  <2>1. scopes[n].table = Current /\ n \in 1 .. n
    BY <1>1 DEF Current
  <2>2. SUFFICES ASSUME NEW j \in 1 .. n + 1, NEW s \in 1 .. n + 1, NEW nt \in Nonterminals,
                        j <= s, tables'[scopes'[j].table].class[nt] # 0
                 PROVE  tables'[scopes'[s].table].class[nt] = tables'[scopes'[j].table].class[nt]
    BY <1>4 DEF Nested
  <2>3. ASSUME NEW k \in 1 .. n + 1
        PROVE  \E m \in 1 .. n : /\ scopes'[k].table = scopes[m].table
                                 /\ m = IF k = n + 1 THEN n ELSE k
    BY <2>1, <1>4, <1>5, <1>6
  <2>4. PICK jj \in 1 .. n : scopes'[j].table = scopes[jj].table /\ jj = IF j = n + 1 THEN n ELSE j
    BY <2>3
  <2>5. PICK ss \in 1 .. n : scopes'[s].table = scopes[ss].table /\ ss = IF s = n + 1 THEN n ELSE s
    BY <2>3
  <2>6. jj <= ss
    BY <2>2, <2>4, <2>5, <1>1
  <2>7. /\ tables'[scopes'[j].table].class = tables[scopes[jj].table].class
        /\ tables'[scopes'[s].table].class = tables[scopes[ss].table].class
    BY <2>4, <2>5, <1>7, <1>10
  <2>8. tables[scopes[jj].table].class[nt] # 0 =>
          tables[scopes[ss].table].class[nt] = tables[scopes[jj].table].class[nt]
    BY <2>6 DEF IInv, Nested, n
  <2>. QED
    BY <2>2, <2>7, <2>8
<1>12. AddedInv'
  <2>1. SUFFICES ASSUME NEW s \in 1 .. n + 1, NEW rule \in scopes'[s].added
                 PROVE  /\ rule = <<rule[1], rule[2]>> /\ rule[1] \in Nonterminals
                        /\ (HasRule(scopes[s].table, rule[1], rule[2]))'
    BY <1>4 DEF AddedInv
  <2>2. s \in 1 .. n /\ rule \in scopes[s].added /\ scopes'[s] = scopes[s]
    BY <2>1, <1>4, <1>5, <1>6
  <2>3. /\ rule = <<rule[1], rule[2]>> /\ rule[1] \in Nonterminals
        /\ HasRule(scopes[s].table, rule[1], rule[2])
    BY <2>2 DEF IInv, AddedInv, n
  <2>4. scopes[s].table \in 1 .. Len(tables)
    BY <2>2, <1>10
  <2>. QED
    BY <2>2, <2>3, <2>4, <1>2, <1>7 DEF HasRule
<1>. QED
  BY <1>8, <1>9, <1>11, <1>12 DEF IInv

(* Closing a scope: its table counts one scope less.                        *)
LEMMA EndScopeInv ==
  ASSUME IInv, EndScope
  PROVE  IInv'
<1> DEFINE n == Len(scopes)
           r == tables[Current]
<1>1. /\ TypeOK /\ IsSeq(tables) /\ IsSeq(scopes) /\ Current \in 1 .. Len(tables)
      /\ n \in Nat /\ n > 1 /\ Inner = n /\ r.count \in Int
      /\ DOMAIN tables = 1 .. Len(tables) /\ DOMAIN scopes = 1 .. n
      /\ \A t \in 1 .. Len(tables) : TableShape(tables[t])
  BY Finite DEF IInv, TypeOK, Inner, EndScope
<1>2. /\ scopes' = SubSeq(scopes, 1, n - 1) /\ classes' = classes
      /\ CountSet(tables, Current, r.count - 1, tables')
  BY DEF EndScope, CountSet, Inner
<1>3. /\ IsSeq(tables') /\ Len(tables') = Len(tables) /\ tables'[Current].count = r.count - 1
      /\ \A t \in 1 .. Len(tables) : /\ TableShape(tables'[t])
                                     /\ tables'[t].class = tables[t].class
                                     /\ t # Current => tables'[t] = tables[t]
  <2> DEFINE j == Current
             z == tables'
             v == r.count - 1
  <2>1. j \in 1 .. Len(tables) /\ CountSet(tables, j, v, z)
    BY <1>1, <1>2
  <2> HIDE DEF j, z, v
  <2>2. /\ IsSeq(z) /\ Len(z) = Len(tables) /\ z[j].count = v
        /\ \A t \in 1 .. Len(tables) : /\ TableShape(z[t]) /\ z[t].class = tables[t].class
                                       /\ t # j => z[t] = tables[t]
    BY <1>1, <2>1, CountChanged
  <2>. QED
    BY <2>2 DEF j, z, v
<1>4. /\ IsSeq(scopes') /\ Len(scopes') = n - 1
      /\ \A k \in 1 .. n - 1 : scopes'[k] = scopes[k]
  <2>1. n > 0 /\ Len(scopes) > 0
    BY <1>1
  <2>2. /\ IsSeq(SubSeq(scopes, 1, Len(scopes) - 1))
        /\ Len(SubSeq(scopes, 1, Len(scopes) - 1)) = Len(scopes) - 1
        /\ \A k \in 1 .. Len(scopes) - 1 : SubSeq(scopes, 1, Len(scopes) - 1)[k] = scopes[k]
    BY <1>1, <2>1, SeqFacts
  <2>. QED
    BY <1>2, <2>2
<1>5. /\ DOMAIN scopes' = 1 .. n - 1 /\ DOMAIN tables' = 1 .. Len(tables)
      /\ \A k \in 1 .. n - 1 : k \in 1 .. n
  BY <1>1, <1>3, <1>4 DEF IsSeq
<1>6. \A t \in 1 .. Len(tables) : tables'[t].class = tables[t].class
  BY <1>3
<1>7. scopes[n].table = Current /\ \A s \in 1 .. n : scopes[s].table \in 1 .. Len(tables)
  BY <1>1 DEF TypeOK, Current
<1> HIDE DEF n
<1>8. TypeOK'
  <2>1. n - 1 >= 1
    BY <1>1
  <2>2. \A s \in 1 .. n - 1 : ScopeShape(scopes'[s]) /\ scopes'[s].table \in 1 .. Len(tables)
    BY <1>1, <1>4, <1>5 DEF TypeOK, n
  <2>3. \A t \in 1 .. Len(tables) :
          /\ TableShape(tables'[t]) /\ tables'[t].count \in Int
          /\ tables'[t].class \in [Nonterminals -> 0 .. Len(classes)]
    BY <1>1, <1>3 DEF TypeOK
  <2>. QED
    BY <2>1, <2>2, <2>3, <1>1, <1>2, <1>3, <1>4 DEF TypeOK
<1>9. CountsCover'
  <2>1. /\ \A t \in 1 .. Len(tables) : tables[t].count >= Cardinality(UsersOf(t))
        /\ \A c \in 1 .. Len(classes) : classes[c].count = Cardinality(HoldersOf(c))
    BY <1>1, Counts DEF IInv
  <2>2. \A k \in 1 .. n : k = n \/ k \in 1 .. n - 1
    BY <1>1
  <2>3. ASSUME NEW t \in 1 .. Len(tables), t # Current PROVE UsersOf(t)' = UsersOf(t)
    BY <2>2, <2>3, <1>1, <1>4, <1>5, <1>7 DEF UsersOf
  <2>4. n \in UsersOf(Current) /\ n \notin 1 .. n - 1
    BY <1>1, <1>7 DEF UsersOf
  <2>5. \A t : t = Current => UsersOf(t)' = UsersOf(t) \ {n}
    BY <2>2, <2>4, <1>1, <1>4, <1>5 DEF UsersOf
  <2>6. Cardinality(UsersOf(Current) \ {n}) = Cardinality(UsersOf(Current)) - 1
    <3>1. IsFiniteSet(UsersOf(Current))
      BY <1>1, Finite
    <3>. QED
      BY <3>1, <2>4, FS_RemoveElement
  <2>7. ASSUME NEW t \in 1 .. Len(tables)
        PROVE  tables'[t].count >= Cardinality(UsersOf(t)')
    <3>1. CASE t = Current
      <4>1. tables'[t].count = r.count - 1 /\ Cardinality(UsersOf(t)') = Cardinality(UsersOf(Current)) - 1
        BY <3>1, <1>3, <2>5, <2>6
      <4>2. r.count >= Cardinality(UsersOf(Current)) /\ Cardinality(UsersOf(Current)) \in Nat
        BY <1>1, <2>1, Finite
      <4>. QED
        BY <4>1, <4>2, <1>1
    <3>2. CASE t # Current
      BY <3>2, <1>3, <2>1, <2>3
    <3>. QED
      BY <3>1, <3>2
  <2>8. \A c : HoldersOf(c)' = HoldersOf(c)
    BY <1>1, <1>5, <1>6 DEF HoldersOf
  <2>9. \A c \in 1 .. Len(classes) : classes'[c].count = Cardinality(HoldersOf(c)')
    BY <1>2, <2>1, <2>8
  <2>10. DOMAIN classes' = 1 .. Len(classes)
    BY <1>1, <1>2, Finite
  <2>. QED
    BY <1>5, <2>7, <2>9, <2>10 DEF CountsCover, UsersOf, HoldersOf
<1>10. Nested'
  <2>1. SUFFICES ASSUME NEW j \in 1 .. n - 1, NEW s \in 1 .. n - 1, NEW nt \in Nonterminals,
                        j <= s, tables'[scopes'[j].table].class[nt] # 0
                 PROVE  tables'[scopes'[s].table].class[nt] = tables'[scopes'[j].table].class[nt]
    BY <1>4 DEF Nested
  <2>2. /\ tables'[scopes'[j].table].class = tables[scopes[j].table].class
        /\ tables'[scopes'[s].table].class = tables[scopes[s].table].class
    BY <1>4, <1>5, <1>6, <1>7
  <2>3. j \in 1 .. n /\ s \in 1 .. n
    BY <1>5
  <2>. QED
    BY <2>1, <2>2, <2>3 DEF IInv, Nested, n
<1>11. AddedInv'
  <2>1. SUFFICES ASSUME NEW s \in 1 .. n - 1, NEW rule \in scopes'[s].added
                 PROVE  /\ rule = <<rule[1], rule[2]>> /\ rule[1] \in Nonterminals
                        /\ (HasRule(scopes[s].table, rule[1], rule[2]))'
    BY <1>4 DEF AddedInv
  <2>2. s \in 1 .. n /\ rule \in scopes[s].added /\ scopes'[s] = scopes[s]
    BY <2>1, <1>4, <1>5
  <2>3. /\ rule = <<rule[1], rule[2]>> /\ rule[1] \in Nonterminals
        /\ HasRule(scopes[s].table, rule[1], rule[2])
    BY <2>2 DEF IInv, AddedInv, n
  <2>4. scopes[s].table \in 1 .. Len(tables)
    BY <2>2, <1>7
  <2>. QED
    BY <2>2, <2>3, <2>4, <1>2, <1>6 DEF HasRule
<1>. QED
  BY <1>8, <1>9, <1>10, <1>11 DEF IInv

(* The outermost scope with its empty table satisfies the invariant.        *)
LEMMA InitInv ==
  ASSUME Init
  PROVE  IInv
<1> DEFINE none == [nt \in Nonterminals |-> 0]
<1>1. /\ scopes = <<NewScope(1)>> /\ tables = <<NewTable(none)>> /\ classes = <<>>
  BY DEF Init
<1>2. /\ NewScope(1).table = 1 /\ NewScope(1).added = {} /\ ScopeShape(NewScope(1))
      /\ NewTable(none).count = 1 /\ NewTable(none).class = none /\ TableShape(NewTable(none))
  BY DEF NewScope, NewTable, ScopeShape, TableShape
<1>3. /\ IsSeq(scopes) /\ Len(scopes) = 1 /\ scopes[1] = NewScope(1) /\ DOMAIN scopes = 1 .. 1
  BY <1>1 DEF IsSeq
<1>4. /\ IsSeq(tables) /\ Len(tables) = 1 /\ tables[1] = NewTable(none) /\ DOMAIN tables = 1 .. 1
  <2> HIDE DEF none
  <2>. QED
    BY <1>1 DEF IsSeq
<1>5. IsSeq(classes) /\ Len(classes) = 0 /\ DOMAIN classes = {} /\ 1 .. 0 = {}
  BY <1>1 DEF IsSeq
<1>6. 1 .. 1 = {1}
  OBVIOUS
<1>7. TypeOK
  BY <1>2, <1>3, <1>4, <1>5, <1>6 DEF TypeOK
<1>8. CountsCover
  <2>1. {i \in DOMAIN scopes : scopes[i].table = 1} = {1}
    BY <1>2, <1>3, <1>6
  <2>2. Cardinality({1}) = 1
    BY FS_Singleton
  <2>3. \A t \in DOMAIN tables :
          tables[t].count >= Cardinality({i \in DOMAIN scopes : scopes[i].table = t})
    <3>1. tables[1].count >= Cardinality({i \in DOMAIN scopes : scopes[i].table = 1})
      BY <1>2, <1>4, <2>1, <2>2
    <3>. QED
      BY <3>1, <1>4, <1>6
  <2>. QED
    BY <1>5, <2>3 DEF CountsCover
<1>9. Nested /\ AddedInv
  BY <1>2, <1>3, <1>6 DEF Nested, AddedInv
<1>. QED
  BY <1>7, <1>8, <1>9 DEF IInv

-----------------------------------------------------------------------------
(* Adding a rule to a tree keeps the nodes and the rules that it has, and   *)
(* a new rule ends in a node of it.                                         *)
LEMMA ExtendedTree ==
  ASSUME NEW tree, TreeShape(tree), NEW rule \in Rules, NEW id
  PROVE  LET new == Extended(tree, rule, id)
             end == Path(rule.pattern, Len(rule.pattern))
         IN /\ TreeShape(new) /\ DOMAIN tree \subseteq DOMAIN new
            /\ \A p \in DOMAIN tree : tree[p].accepts => new[p].accepts
            /\ IsNewRule(tree, rule) => end \in DOMAIN new /\ new[end].accepts
<1> DEFINE miss == Missing(tree, rule.pattern)
           end == Path(rule.pattern, Len(rule.pattern))
           shallower(p) == Cardinality({q \in miss : Len(q) <= Len(p)})
           node(p) == IF p \in miss THEN Node(id + shallower(p), rule.pattern[Len(p)].rep)
                      ELSE tree[p]
           ok == IsNewRule(tree, rule)
           new == Extended(tree, rule, id)
<1>1. new = [p \in DOMAIN tree \cup miss |->
               IF p = end /\ ok THEN [node(p) EXCEPT !.accepts = TRUE] ELSE node(p)]
  BY DEF Extended
<1>2. ASSUME NEW x, NodeShape(x), NEW v
      PROVE  NodeShape([x EXCEPT !.accepts = v]) /\ [x EXCEPT !.accepts = v].accepts = v
  <2>1. PICK S : x \in [id : S, rep : S, accepts : S] /\ v \in S
    <3>1. x \in [id : {x.id, x.rep, x.accepts, v}, rep : {x.id, x.rep, x.accepts, v},
                 accepts : {x.id, x.rep, x.accepts, v}]
      BY <1>2 DEF NodeShape
    <3>. QED
      BY <3>1
  <2>2. [x EXCEPT !.accepts = v] = [id |-> x.id, rep |-> x.rep, accepts |-> v]
    BY <2>1
  <2>. QED
    BY <2>2 DEF NodeShape
<1>3. ASSUME NEW p \in DOMAIN tree \cup miss
      PROVE  NodeShape(node(p)) /\ (p \in DOMAIN tree => node(p) = tree[p])
  BY DEF TreeShape, NodeShape, Node, Missing
<1>4. ok => end \in miss \cup DOMAIN tree
  <2>1. SUFFICES ASSUME ok PROVE end \in miss \cup DOMAIN tree
    OBVIOUS
  <2>2. /\ rule.pattern # <<>> /\ FailsAt(tree, rule.pattern) = Len(rule.pattern) + 1
    BY <2>1 DEF IsNewRule
  <2>3. rule.pattern \in Seq(Range(rule.pattern))
    BY TableAssumption
  <2>4. Len(rule.pattern) \in Nat /\ Len(rule.pattern) # 0
    BY <2>2, <2>3
  <2> DEFINE l == Len(rule.pattern)
  <2>5. l \in 1 .. FailsAt(tree, rule.pattern) - 1
    BY <2>2, <2>4
  <2>. QED
    BY <2>5 DEF Missing
<1> HIDE DEF miss, end, node, ok, new
<1>5. ASSUME NEW p \in DOMAIN tree \cup miss
      PROVE  /\ NodeShape(new[p]) /\ (p = end /\ ok => new[p].accepts = TRUE)
             /\ ~(p = end /\ ok) => new[p] = node(p)
  BY <1>1, <1>2, <1>3
<1>6. DOMAIN new = DOMAIN tree \cup miss
  BY <1>1
<1>7. \A p \in DOMAIN tree : tree[p].accepts => new[p].accepts
  BY <1>3, <1>5
<1>. QED
  BY <1>4, <1>5, <1>6, <1>7 DEF TreeShape, end, ok, new

(* The tables once a rule for the class nt was added: the scope's own table *)
(* is the old one or a copy of it, with that class.                         *)
TablesGrow(nt) ==
  /\ IsSeq(tables') /\ Len(tables') = IF Forks THEN Len(tables) + 1 ELSE Len(tables)
  /\ OwnTable \in 1 .. Len(tables')
  /\ \A t \in 1 .. Len(tables) : t # OwnTable => tables'[t] = tables[t]
  /\ TableShape(tables'[OwnTable])
  /\ tables'[OwnTable].count = IF Forks THEN 1 ELSE tables[Current].count
  /\ tables'[OwnTable].class = [tables[Current].class EXCEPT ![nt] = ClassOf(nt)]

(* ParserSyntaxTable_VFork and the entry of the class do that.              *)
LEMMA GrowTables ==
  ASSUME TypeOK, NEW nt \in Nonterminals, tables' = WithClass(nt)
  PROVE  TablesGrow(nt)
<1> DEFINE m == Len(tables)
           o == OwnTable
           F == ForkedTables
           v == [F[o].class EXCEPT ![nt] = ClassOf(nt)]
           z == tables'
<1>1. /\ IsSeq(tables) /\ m \in Nat /\ Current \in 1 .. m
      /\ \A t \in 1 .. m : TableShape(tables[t])
  BY Finite DEF TypeOK
<1>2. /\ IsSeq(F) /\ Len(F) = (IF Forks THEN m + 1 ELSE m) /\ o \in 1 .. Len(F)
      /\ \A t \in 1 .. m : F[t] = tables[t]
      /\ TableShape(F[o]) /\ F[o].class = tables[Current].class
      /\ F[o].count = (IF Forks THEN 1 ELSE tables[Current].count)
  <2>1. CASE Forks
    <3> DEFINE x == NewTable(tables[Current].class)
    <3>1. o = m + 1 /\ F = Append(tables, x)
      BY <2>1 DEF OwnTable, ForkedTables
    <3>2. TableShape(x) /\ x.class = tables[Current].class /\ x.count = 1
      BY DEF NewTable, TableShape
    <3> HIDE DEF x, F, o
    <3>3. /\ IsSeq(F) /\ Len(F) = m + 1 /\ F[m + 1] = x
          /\ \A t \in 1 .. m : F[t] = tables[t]
      BY <3>1, <1>1, SeqFacts
    <3>4. m + 1 \in 1 .. m + 1
      BY <1>1
    <3>. QED
      BY <2>1, <3>1, <3>2, <3>3, <3>4
  <2>2. CASE ~Forks
    <3>1. o = Current /\ F = tables
      BY <2>2 DEF OwnTable, ForkedTables
    <3>. QED
      BY <2>2, <3>1, <1>1
  <2>. QED
    BY <2>1, <2>2
<1>3. ClassSet(F, o, v, z)
  BY DEF ClassSet, WithClass
<1>4. v = [tables[Current].class EXCEPT ![nt] = ClassOf(nt)]
  BY <1>2
<1> HIDE DEF o, F, v, z
<1>5. PICK x : Replaced(F, o, x, z) /\ TableShape(x) /\ x.count = F[o].count /\ x.class = v
  BY <1>2, <1>3, FieldExcept, FieldsOf
<1>6. /\ IsSeq(z) /\ Len(z) = Len(F) /\ z[o] = x
      /\ \A k \in 1 .. Len(F) : k # o => z[k] = F[k]
  BY <1>2, <1>5, SeqExcept
<1>7. \A k \in 1 .. m : k \in 1 .. Len(F)
  BY <1>1, <1>2
<1>8. \A t \in 1 .. m : t # o => z[t] = tables[t]
  BY <1>2, <1>6, <1>7
<1>. QED
  BY <1>2, <1>4, <1>5, <1>6, <1>8 DEF TablesGrow, o, z

(* Assigning to the tree of one class of a sequence of them.                *)
TreeSet(s, j, v, q) == q = [s EXCEPT ![j].tree = v]

(* It replaces that class by one with the new tree.                         *)
LEMMA TreeChanged ==
  ASSUME NEW s, IsSeq(s), NEW j \in 1 .. Len(s), ClassShape(s[j]), NEW v, NEW q,
         TreeSet(s, j, v, q)
  PROVE  /\ IsSeq(q) /\ Len(q) = Len(s)
         /\ ClassShape(q[j]) /\ q[j].count = s[j].count /\ q[j].tree = v
         /\ \A k \in 1 .. Len(s) : k # j => q[k] = s[k]
<1> DEFINE r == s[j]
           y == [count |-> r.count, tree |-> v]
<1>1. q = [s EXCEPT ![j] = [r EXCEPT !.tree = v]]
  BY DEF TreeSet
<1>2. [r EXCEPT !.tree = v] = y
  <2>0. ClassShape(r)
    OBVIOUS
  <2> HIDE DEF r
  <2>1. PICK S : r \in [count : S, tree : S] /\ v \in S
    <3>1. r \in [count : {r.count, r.tree, v}, tree : {r.count, r.tree, v}]
      BY <2>0 DEF ClassShape
    <3>. QED
      BY <3>1
  <2>. QED
    BY <2>1
<1>3. ClassShape(y) /\ y.count = r.count /\ y.tree = v
  BY DEF ClassShape
<1>4. Replaced(s, j, y, q)
  BY <1>1, <1>2 DEF Replaced
<1> HIDE DEF y
<1>. QED
  BY <1>3, <1>4, SeqExcept

(* A tree keeps its nodes and its rules.                                    *)
Keeps(old, new) ==
  /\ DOMAIN old \subseteq DOMAIN new
  /\ \A p \in DOMAIN old : old[p].accepts => new[p].accepts

HeldByCurrent == {tables[Current].class[nt] : nt \in Nonterminals}

(* The classes once a rule for the class nt was added: the copied table     *)
(* holds its classes too, and no tree loses a rule.                         *)
ClassesGrow(nt) ==
  /\ IsSeq(classes')
  /\ Len(classes') = IF IsNewClass(nt) THEN Len(classes) + 1 ELSE Len(classes)
  /\ ClassOf(nt) \in 1 .. Len(classes')
  /\ \A d \in 1 .. Len(classes') : /\ ClassShape(classes'[d]) /\ classes'[d].count \in Int
                                   /\ TreeShape(classes'[d].tree)
  /\ \A d \in 1 .. Len(classes) :
       /\ classes'[d].count =
            classes[d].count + (IF Forks /\ d \in HeldByCurrent THEN 1 ELSE 0)
       /\ Keeps(classes[d].tree, classes'[d].tree)
  /\ IsNewClass(nt) => classes'[Len(classes) + 1].count = 1

(* The rule ends in the tree of its class.                                  *)
RuleIn(rule) ==
  LET end == Path(rule.pattern, Len(rule.pattern))
      new == classes'[ClassOf(rule.class)].tree
  IN end \in DOMAIN new /\ new[end].accepts

(* The classes of the tables, before the tree is extended.                  *)
LEMMA ForkClasses ==
  ASSUME TypeOK, NEW nt \in Nonterminals, NEW G, G = ClassesWith(nt)
  PROVE  /\ IsSeq(G) /\ Len(G) = IF IsNewClass(nt) THEN Len(classes) + 1 ELSE Len(classes)
         /\ ClassOf(nt) \in 1 .. Len(G)
         /\ \A d \in 1 .. Len(G) : /\ ClassShape(G[d]) /\ G[d].count \in Int
                                   /\ TreeShape(G[d].tree)
         /\ \A d \in 1 .. Len(classes) :
              /\ G[d].count = classes[d].count + (IF Forks /\ d \in HeldByCurrent THEN 1 ELSE 0)
              /\ G[d].tree = classes[d].tree
         /\ IsNewClass(nt) => G[Len(classes) + 1].count = 1
<1> DEFINE k == Len(classes)
           F == ForkedClasses
<1>1. /\ IsSeq(classes) /\ k \in Nat /\ DOMAIN classes = 1 .. k
      /\ \A d \in 1 .. k : /\ ClassShape(classes[d]) /\ classes[d].count \in Int
                           /\ TreeShape(classes[d].tree)
      /\ tables[Current].class \in [Nonterminals -> 0 .. k]
  BY Finite DEF TypeOK
<1>2. ASSUME NEW x, ClassShape(x), NEW v
      PROVE  [x EXCEPT !.count = v] = [count |-> v, tree |-> x.tree]
  <2>1. PICK S : x \in [count : S, tree : S] /\ v \in S
    <3>1. x \in [count : {x.count, x.tree, v}, tree : {x.count, x.tree, v}]
      BY <1>2 DEF ClassShape
    <3>. QED
      BY <3>1
  <2>. QED
    BY <2>1
<1>3. F = [d \in 1 .. k |-> IF Forks /\ d \in HeldByCurrent
                            THEN [classes[d] EXCEPT !.count = classes[d].count + 1]
                            ELSE classes[d]]
  BY <1>1 DEF ForkedClasses, HeldByCurrent
<1>4. IsSeq(F) /\ Len(F) = k
  <2>1. F = [d \in 1 .. k |-> F[d]]
    BY <1>3
  <2> HIDE DEF F
  <2>. QED
    BY <2>1, <1>1, FunIsSeq
<1> HIDE DEF F
<1>5. ASSUME NEW d \in 1 .. k
      PROVE  /\ ClassShape(F[d]) /\ F[d].tree = classes[d].tree /\ F[d].count \in Int
             /\ F[d].count = classes[d].count + (IF Forks /\ d \in HeldByCurrent THEN 1 ELSE 0)
  <2>1. CASE Forks /\ d \in HeldByCurrent
    <3>1. F[d] = [classes[d] EXCEPT !.count = classes[d].count + 1]
      BY <2>1, <1>3
    <3>2. F[d] = [count |-> classes[d].count + 1, tree |-> classes[d].tree]
      BY <3>1, <1>1, <1>2
    <3>3. /\ F[d].count = classes[d].count + 1 /\ F[d].tree = classes[d].tree
          /\ ClassShape(F[d])
      BY <3>2 DEF ClassShape
    <3>. QED
      BY <2>1, <3>3, <1>1
  <2>2. CASE ~(Forks /\ d \in HeldByCurrent)
    <3>1. F[d] = classes[d]
      BY <2>2, <1>3
    <3>. QED
      BY <2>2, <3>1, <1>1
  <2>. QED
    BY <2>1, <2>2
<1>6. CASE IsNewClass(nt)
  <2> DEFINE x == [count |-> 1, tree |-> NewTree(lastId + 1)]
  <2>1. ClassOf(nt) = k + 1 /\ G = Append(F, x)
    BY <1>6 DEF ClassOf, ClassesWith, F
  <2>2. ClassShape(x) /\ x.count = 1 /\ TreeShape(x.tree)
    BY DEF ClassShape, TreeShape, NewTree, Node, NodeShape
  <2> HIDE DEF x
  <2>3. /\ IsSeq(G) /\ Len(G) = k + 1 /\ G[k + 1] = x /\ \A d \in 1 .. k : G[d] = F[d]
    BY <2>1, <1>4, SeqFacts
  <2>4. k + 1 \in 1 .. k + 1 /\ \A d \in 1 .. k + 1 : d = k + 1 \/ d \in 1 .. k
    BY <1>1
  <2>5. \A d \in 1 .. k + 1 : ClassShape(G[d]) /\ G[d].count \in Int /\ TreeShape(G[d].tree)
    BY <2>2, <2>3, <2>4, <1>1, <1>5
  <2>. QED
    BY <1>6, <2>1, <2>2, <2>3, <2>4, <2>5, <1>5
<1>7. CASE ~IsNewClass(nt)
  <2>1. ClassOf(nt) = tables[Current].class[nt] /\ G = F /\ ClassOf(nt) # 0
    BY <1>7 DEF ClassOf, ClassesWith, IsNewClass, F
  <2>2. tables[Current].class[nt] \in 0 .. k
    BY <1>1
  <2>3. ClassOf(nt) \in 1 .. k
    BY <2>1, <2>2, <1>1
  <2>. QED
    BY <1>1, <1>4, <1>5, <1>7, <2>1, <2>3
<1>. QED
  BY <1>6, <1>7

(* AddRule does that to the classes, and the rule it accepts is in.         *)
LEMMA GrowClasses ==
  ASSUME TypeOK, NEW rule \in Rules, NEW id,
         classes' = [ClassesWith(rule.class) EXCEPT ![ClassOf(rule.class)].tree =
                       Extended(ClassesWith(rule.class)[ClassOf(rule.class)].tree, rule, id)]
  PROVE  /\ ClassesGrow(rule.class)
         /\ IsNewRule(ClassesWith(rule.class)[ClassOf(rule.class)].tree, rule) => RuleIn(rule)
<1> DEFINE nt == rule.class
           G == ClassesWith(nt)
           c == ClassOf(nt)
           new == Extended(G[c].tree, rule, id)
           z == classes'
           k == Len(classes)
<1>1. nt \in Nonterminals /\ k \in Nat
  BY TableAssumption, Finite
<1>2. /\ IsSeq(G) /\ Len(G) = (IF IsNewClass(nt) THEN k + 1 ELSE k)
      /\ c \in 1 .. Len(G)
      /\ \A d \in 1 .. Len(G) : ClassShape(G[d]) /\ G[d].count \in Int /\ TreeShape(G[d].tree)
      /\ \A d \in 1 .. k :
           /\ G[d].count = classes[d].count + (IF Forks /\ d \in HeldByCurrent THEN 1 ELSE 0)
           /\ G[d].tree = classes[d].tree
      /\ IsNewClass(nt) => G[k + 1].count = 1
  <2> HIDE DEF nt
  <2>. QED
    BY <1>1, ForkClasses
<1>3. TreeSet(G, c, new, z)
  BY DEF TreeSet
<1>4. /\ TreeShape(new) /\ Keeps(G[c].tree, new)
      /\ IsNewRule(G[c].tree, rule) =>
           /\ Path(rule.pattern, Len(rule.pattern)) \in DOMAIN new
           /\ new[Path(rule.pattern, Len(rule.pattern))].accepts
  <2> DEFINE tree == G[c].tree
  <2>1. TreeShape(tree)
    BY <1>2
  <2> HIDE DEF tree
  <2>. QED
    BY <2>1, ExtendedTree DEF Keeps, tree
<1> HIDE DEF nt, G, c, new, z
<1>5. /\ IsSeq(z) /\ Len(z) = Len(G) /\ ClassShape(z[c]) /\ z[c].count = G[c].count
      /\ z[c].tree = new /\ \A d \in 1 .. Len(G) : d # c => z[d] = G[d]
  BY <1>2, <1>3, TreeChanged
<1>6. \A d \in 1 .. Len(G) : Keeps(G[d].tree, z[d].tree) /\ z[d].count = G[d].count
  BY <1>4, <1>5 DEF Keeps
<1>7. \A d \in 1 .. Len(G) : ClassShape(z[d]) /\ z[d].count \in Int /\ TreeShape(z[d].tree)
  BY <1>2, <1>4, <1>5
<1>8. /\ \A d \in 1 .. k : d \in 1 .. Len(G)
      /\ IsNewClass(nt) => k + 1 \in 1 .. Len(G)
  BY <1>1, <1>2
<1>9. ClassesGrow(nt)
  BY <1>2, <1>5, <1>6, <1>7, <1>8 DEF ClassesGrow, c, z
<1>10. IsNewRule(G[c].tree, rule) => RuleIn(rule)
  BY <1>4, <1>5 DEF RuleIn, c, nt, z
<1>. QED
  BY <1>9, <1>10 DEF G, c, nt

(* The scopes once the rule was added: only the innermost one changes.      *)
ScopesGrow(rule) ==
  /\ IsSeq(scopes') /\ Len(scopes') = Len(scopes)
  /\ \A s \in 1 .. Len(scopes) : ScopeShape(scopes'[s]) /\ (s # Inner => scopes'[s] = scopes[s])
  /\ scopes'[Inner].table = OwnTable
  /\ \A x \in scopes'[Inner].added :
       \/ x \in scopes[Inner].added
       \/ x = <<rule.class, Path(rule.pattern, Len(rule.pattern))>> /\ RuleIn(rule)

(* Assigning to both fields of one scope of a sequence of them.             *)
ScopeSet(s, j, t, a, q) == q = [s EXCEPT ![j].table = t, ![j].added = a]

(* It replaces that scope.                                                  *)
LEMMA ScopeChanged ==
  ASSUME NEW s, IsSeq(s), NEW j \in 1 .. Len(s), ScopeShape(s[j]), NEW t, NEW a, NEW q,
         ScopeSet(s, j, t, a, q)
  PROVE  Replaced(s, j, [table |-> t, added |-> a], q)
<1> DEFINE r == s[j]
<1>1. DOMAIN s = 1 .. Len(s)
  BY DEF IsSeq
<1>2. q = [s EXCEPT ![j] = [[r EXCEPT !.table = t] EXCEPT !.added = a]]
  BY <1>1 DEF ScopeSet
<1>3. [[r EXCEPT !.table = t] EXCEPT !.added = a] = [table |-> t, added |-> a]
  <2>1. ScopeShape(r)
    OBVIOUS
  <2> HIDE DEF r
  <2>2. PICK S : r \in [table : S, added : S] /\ t \in S /\ a \in S
    <3>1. r \in [table : {r.table, r.added, t, a}, added : {r.table, r.added, t, a}]
      BY <2>1 DEF ScopeShape
    <3>. QED
      BY <3>1
  <2>3. [r EXCEPT !.table = t] \in [table : S, added : S]
    BY <2>2
  <2>4. [r EXCEPT !.table = t].table = t
    BY <2>2
  <2> DEFINE u == [r EXCEPT !.table = t]
  <2>5. u \in [table : S, added : S] /\ u.table = t
    BY <2>3, <2>4
  <2> HIDE DEF u
  <2>6. [u EXCEPT !.added = a] = [table |-> t, added |-> a]
    BY <2>2, <2>5
  <2>. QED
    BY <2>6 DEF u
<1>. QED
  BY <1>2, <1>3 DEF Replaced

(* AddRule does that to the scopes.                                         *)
LEMMA GrowScopes ==
  ASSUME TypeOK, NEW rule \in Rules, NEW ok \in BOOLEAN, ok => RuleIn(rule),
         scopes' = [scopes EXCEPT
           ![Inner].table = OwnTable,
           ![Inner].added =
             IF ok THEN @ \cup {<<rule.class, Path(rule.pattern, Len(rule.pattern))>>} ELSE @]
  PROVE  ScopesGrow(rule)
<1> DEFINE j == Inner
           p == <<rule.class, Path(rule.pattern, Len(rule.pattern))>>
           a == IF ok THEN scopes[j].added \cup {p} ELSE scopes[j].added
           o == OwnTable
           z == scopes'
           x == [table |-> o, added |-> a]
<1>1. /\ IsSeq(scopes) /\ j \in 1 .. Len(scopes) /\ DOMAIN scopes = 1 .. Len(scopes)
      /\ \A s \in 1 .. Len(scopes) : ScopeShape(scopes[s])
  BY Finite DEF TypeOK
<1>2. ScopeSet(scopes, j, o, a, z)
  <2> HIDE DEF p
  <2>1. z = [scopes EXCEPT ![j].table = o, ![j].added = IF ok THEN @ \cup {p} ELSE @]
    BY DEF p
  <2> HIDE DEF o, z
  <2>2. z = [scopes EXCEPT ![j].table = o, ![j].added = a]
    BY <2>1, <1>1
  <2>. QED
    BY <2>2 DEF ScopeSet
<1>3. ScopeShape(x) /\ x.table = o /\ x.added = a
  BY DEF ScopeShape
<1> HIDE DEF j, o, z, a
<1>4. Replaced(scopes, j, x, z)
  BY <1>1, <1>2, ScopeChanged
<1> HIDE DEF x
<1>5. /\ IsSeq(z) /\ Len(z) = Len(scopes) /\ z[j] = x
      /\ \A s \in 1 .. Len(scopes) : s # j => z[s] = scopes[s]
  BY <1>1, <1>4, SeqExcept
<1>6. \A s \in 1 .. Len(scopes) : ScopeShape(z[s])
  BY <1>1, <1>3, <1>5
<1>7. \A y \in a : y \in scopes[j].added \/ (y = p /\ RuleIn(rule))
  BY DEF a
<1>. QED
  BY <1>3, <1>5, <1>6, <1>7 DEF ScopesGrow, j, o, z

(* A table that is not forked is used by no other open scope.               *)
LEMMA AloneUnlessForks ==
  ASSUME IInv, ~Forks
  PROVE  \A s \in 1 .. Len(scopes) : scopes[s].table = Current => s = Inner
<1>1. SUFFICES ASSUME NEW s \in 1 .. Len(scopes), scopes[s].table = Current, s # Inner
               PROVE  FALSE
  OBVIOUS
<1>2. /\ TypeOK /\ Inner \in 1 .. Len(scopes) /\ Current \in 1 .. Len(tables)
      /\ DOMAIN scopes = 1 .. Len(scopes) /\ tables[Current].count \in Int
  BY Finite DEF IInv, TypeOK
<1>3. {s, Inner} \subseteq UsersOf(Current)
  BY <1>1, <1>2 DEF UsersOf, Current
<1>4. IsFiniteSet(UsersOf(Current)) /\ Cardinality(UsersOf(Current)) \in Nat
  BY <1>2, Finite
<1>5. Cardinality({s, Inner}) = 2 /\ Cardinality({s, Inner}) <= Cardinality(UsersOf(Current))
  <2>1. IsFiniteSet({Inner}) /\ Cardinality({Inner}) = 1
    BY FS_Singleton
  <2>2. s \notin {Inner} /\ {s, Inner} = {Inner} \cup {s}
    BY <1>1
  <2>3. Cardinality({Inner} \cup {s}) = Cardinality({Inner}) + 1
    BY <2>1, <2>2, FS_AddElement
  <2>. QED
    BY <2>1, <2>2, <2>3, <1>3, <1>4, FS_Subset
<1>6. tables[Current].count >= Cardinality(UsersOf(Current))
  BY <1>2, Counts DEF IInv
<1>. QED
  BY <1>2, <1>4, <1>5, <1>6 DEF Forks

(* What the scope's own table holds after the rule: the classes it held,    *)
(* and the class of the rule.  The tables of the other scopes are as before.*)
LEMMA OwnClasses ==
  ASSUME IInv, NEW nt \in Nonterminals, TablesGrow(nt)
  PROVE  /\ tables'[OwnTable].class \in [Nonterminals -> 0 .. Len(classes) + 1]
         /\ tables'[OwnTable].class[nt] = ClassOf(nt) /\ ClassOf(nt) # 0
         /\ \A x \in Nonterminals : tables[Current].class[x] # 0 =>
              tables'[OwnTable].class[x] = tables[Current].class[x]
         /\ \A x \in Nonterminals : x # nt =>
              tables'[OwnTable].class[x] = tables[Current].class[x]
         /\ \A s \in 1 .. Len(scopes) : s # Inner => scopes[s].table # OwnTable
         /\ \A s \in 1 .. Len(scopes) : s # Inner =>
              tables'[scopes[s].table] = tables[scopes[s].table]
<1> DEFINE old == tables[Current].class
           k == Len(classes)
<1>1. /\ TypeOK /\ k \in Nat /\ old \in [Nonterminals -> 0 .. k] /\ Len(tables) \in Nat
      /\ \A s \in 1 .. Len(scopes) : scopes[s].table \in 1 .. Len(tables)
  BY Finite DEF IInv, TypeOK
<1>2. tables'[OwnTable].class = [old EXCEPT ![nt] = ClassOf(nt)]
  BY DEF TablesGrow
<1>3. ClassOf(nt) \in 1 .. k + 1 /\ (old[nt] # 0 => ClassOf(nt) = old[nt])
  <2>1. old[nt] \in 0 .. k
    BY <1>1
  <2>2. CASE old[nt] = 0
    BY <2>2, <1>1 DEF ClassOf, IsNewClass
  <2>3. CASE old[nt] # 0
    BY <2>1, <2>3, <1>1 DEF ClassOf, IsNewClass
  <2>. QED
    BY <2>2, <2>3
<1>4. ASSUME NEW s \in 1 .. Len(scopes), s # Inner PROVE scopes[s].table # OwnTable
  <2>1. CASE Forks
    BY <2>1, <1>1 DEF OwnTable
  <2>2. CASE ~Forks
    BY <2>2, <1>4, AloneUnlessForks DEF OwnTable
  <2>. QED
    BY <2>1, <2>2
<1>5. \A s \in 1 .. Len(scopes) : s # Inner => tables'[scopes[s].table] = tables[scopes[s].table]
  BY <1>1, <1>4 DEF TablesGrow
<1>6. 0 .. k \subseteq 0 .. k + 1 /\ 1 .. k + 1 \subseteq 0 .. k + 1 /\ 0 \notin 1 .. k + 1
  BY <1>1
<1> HIDE DEF old, k
<1>7. /\ [old EXCEPT ![nt] = ClassOf(nt)] \in [Nonterminals -> 0 .. k + 1]
      /\ [old EXCEPT ![nt] = ClassOf(nt)][nt] = ClassOf(nt) /\ ClassOf(nt) # 0
      /\ \A x \in Nonterminals : x # nt => [old EXCEPT ![nt] = ClassOf(nt)][x] = old[x]
  BY <1>1, <1>3, <1>6
<1>8. \A x \in Nonterminals : old[x] # 0 => [old EXCEPT ![nt] = ClassOf(nt)][x] = old[x]
  BY <1>3, <1>7
<1>. QED
  BY <1>2, <1>4, <1>5, <1>7, <1>8 DEF old, k

(* The counts cover again once a rule was added.                            *)
LEMMA GrowCounts ==
  ASSUME IInv, NEW rule \in Rules, TablesGrow(rule.class), ClassesGrow(rule.class),
         ScopesGrow(rule)
  PROVE  CountsCover'
<1> DEFINE nt == rule.class
           m == Len(tables)
           k == Len(classes)
           n == Len(scopes)
           o == OwnTable
           j == Inner
<1>0. nt \in Nonterminals
  BY TableAssumption
<1>1. /\ TypeOK /\ m \in Nat /\ k \in Nat /\ n \in Nat /\ j \in 1 .. n /\ Current \in 1 .. m
      /\ DOMAIN tables = 1 .. m /\ DOMAIN scopes = 1 .. n /\ DOMAIN classes = 1 .. k
      /\ \A t \in 1 .. m : /\ tables[t].count \in Int
                           /\ tables[t].class \in [Nonterminals -> 0 .. k]
      /\ \A d \in 1 .. k : classes[d].count \in Int
      /\ \A s \in 1 .. n : scopes[s].table \in 1 .. m
      /\ scopes[j].table = Current
  BY Finite DEF IInv, TypeOK, Current
<1>2. /\ \A t \in 1 .. m : tables[t].count >= Cardinality(UsersOf(t))
      /\ \A c \in 1 .. k : classes[c].count = Cardinality(HoldersOf(c))
  BY <1>1, Counts DEF IInv
<1>3. /\ DOMAIN scopes' = 1 .. n
      /\ DOMAIN tables' = IF Forks THEN 1 .. m + 1 ELSE 1 .. m
      /\ DOMAIN classes' = IF IsNewClass(nt) THEN 1 .. k + 1 ELSE 1 .. k
  BY DEF TablesGrow, ClassesGrow, ScopesGrow, IsSeq
<1>4. /\ o = (IF Forks THEN m + 1 ELSE Current)
      /\ \A t \in 1 .. m : t # o => tables'[t] = tables[t]
      /\ tables'[o].count = IF Forks THEN 1 ELSE tables[Current].count
  BY DEF TablesGrow, OwnTable
<1>5. /\ \A s \in 1 .. n : s # j => scopes'[s] = scopes[s] /\ scopes[s].table # o
      /\ scopes'[j].table = o
  BY <1>0, OwnClasses DEF ScopesGrow
<1>6. /\ \A x \in Nonterminals : tables[Current].class[x] # 0 =>
           tables'[o].class[x] = tables[Current].class[x]
      /\ \A x \in Nonterminals : x # nt => tables'[o].class[x] = tables[Current].class[x]
      /\ tables'[o].class[nt] = ClassOf(nt)
      /\ ClassOf(nt) = IF tables[Current].class[nt] = 0 THEN k + 1 ELSE tables[Current].class[nt]
  BY <1>0, OwnClasses DEF ClassOf, IsNewClass
<1>7. /\ m + 1 \notin 1 .. m /\ 1 .. m + 1 = 1 .. m \cup {m + 1}
      /\ k + 1 \notin 0 .. k /\ k + 1 \notin 1 .. k /\ 1 .. k + 1 = 1 .. k \cup {k + 1}
      /\ 0 \notin 1 .. k /\ k + 1 # 0
  BY <1>1
<1> HIDE DEF nt, m, k, n, o, j
<1>8. ASSUME NEW t \in 1 .. m PROVE UsersOf(t)' \subseteq UsersOf(t)
  BY <1>1, <1>3, <1>4, <1>5, <1>7 DEF UsersOf
<1>9. ASSUME NEW t \in DOMAIN tables'
      PROVE  tables'[t].count >= Cardinality(UsersOf(t)')
  <2>1. CASE t \in 1 .. m
    <3>1. tables'[t].count = tables[t].count
      BY <2>1, <1>4, <1>7
    <3>2. IsFiniteSet(UsersOf(t)) /\ Cardinality(UsersOf(t)) \in Nat
      BY <1>1, Finite
    <3>3. UsersOf(t)' \subseteq UsersOf(t)
      BY <2>1, <1>8
    <3> DEFINE U == UsersOf(t)
               V == UsersOf(t)'
    <3> HIDE DEF U, V
    <3>4. Cardinality(V) \in Nat /\ Cardinality(V) <= Cardinality(U)
      <4>1. IsFiniteSet(U) /\ V \subseteq U
        BY <3>2, <3>3 DEF U, V
      <4>. QED
        BY <4>1, FS_Subset, FS_CardinalityType
    <3>5. tables[t].count \in Int /\ tables[t].count >= Cardinality(U) /\ Cardinality(U) \in Nat
      BY <2>1, <3>2, <1>1, <1>2 DEF U
    <3>6. tables[t].count >= Cardinality(V)
      BY <3>4, <3>5
    <3>. QED
      BY <3>1, <3>6 DEF V
  <2>2. CASE t \notin 1 .. m
    <3>1. Forks /\ t = m + 1 /\ t = o
      BY <2>2, <1>3, <1>4, <1>7
    <3>2. UsersOf(t)' = {j}
      BY <3>1, <1>1, <1>3, <1>5 DEF UsersOf
    <3>3. Cardinality({j}) = 1
      BY FS_Singleton
    <3>. QED
      BY <3>1, <3>2, <3>3, <1>4
  <2>. QED
    BY <2>1, <2>2
<1>10. ASSUME NEW d \in 1 .. k
       PROVE  (\E x \in Nonterminals : tables'[o].class[x] = d) <=> d \in HeldByCurrent
  <2>1. d # 0 /\ d # k + 1
    BY <1>7
  <2>2. ASSUME NEW x \in Nonterminals
        PROVE  tables'[o].class[x] = d <=> tables[Current].class[x] = d
    <3>1. CASE x = nt
      BY <3>1, <2>1, <1>6
    <3>2. CASE x # nt
      BY <3>2, <1>6
    <3>. QED
      BY <3>1, <3>2
  <2>. QED
    BY <2>2 DEF HeldByCurrent
<1>11. ASSUME NEW d \in DOMAIN classes'
       PROVE  classes'[d].count = Cardinality(HoldersOf(d)')
  <2>1. CASE d \in 1 .. k /\ Forks /\ d \in HeldByCurrent
    <3>1. HoldersOf(d)' = HoldersOf(d) \cup {m + 1}
      BY <2>1, <1>0, <1>1, <1>3, <1>4, <1>7, <1>10 DEF HoldersOf
    <3>2. IsFiniteSet(HoldersOf(d)) /\ Cardinality(HoldersOf(d)) \in Nat /\ m + 1 \notin HoldersOf(d)
      BY <1>1, <1>7, Finite DEF HoldersOf
    <3>3. Cardinality(HoldersOf(d) \cup {m + 1}) = Cardinality(HoldersOf(d)) + 1
      BY <3>2, FS_AddElement
    <3>4. classes'[d].count = classes[d].count + 1
      BY <2>1 DEF ClassesGrow, k
    <3>. QED
      BY <2>1, <3>1, <3>3, <3>4, <1>2
  <2>2. CASE d \in 1 .. k /\ ~(Forks /\ d \in HeldByCurrent)
    <3>1. HoldersOf(d)' = HoldersOf(d)
      <4>1. CASE Forks
        BY <2>2, <4>1, <1>1, <1>3, <1>4, <1>7, <1>10 DEF HoldersOf
      <4>2. CASE ~Forks
        <5>1. d \in HeldByCurrent <=> \E x \in Nonterminals : tables[Current].class[x] = d
          BY DEF HeldByCurrent
        <5>2. o = Current /\ DOMAIN tables' = 1 .. m
          BY <4>2, <1>3, <1>4
        <5>3. ASSUME NEW t \in 1 .. m
              PROVE  (\E x \in Nonterminals : tables'[t].class[x] = d) <=>
                       (\E x \in Nonterminals : tables[t].class[x] = d)
          <6>1. CASE t = o
            BY <6>1, <2>2, <5>1, <5>2, <1>10
          <6>2. CASE t # o
            BY <6>2, <1>4
          <6>. QED
            BY <6>1, <6>2
        <5>. QED
          BY <5>2, <5>3, <1>1 DEF HoldersOf
      <4>. QED
        BY <4>1, <4>2
    <3>2. classes'[d].count = classes[d].count + 0 /\ classes[d].count \in Int
      BY <2>2, <1>1 DEF ClassesGrow, k
    <3>. QED
      BY <2>2, <3>1, <3>2, <1>2
  <2>3. CASE d \notin 1 .. k
    <3>1. IsNewClass(nt) /\ d = k + 1
      BY <2>3, <1>3, <1>7
    <3>2. tables[Current].class[nt] = 0 /\ classes'[d].count = 1
      BY <3>1 DEF IsNewClass, ClassesGrow, k, nt
    <3>3. HoldersOf(d)' = {o}
      <4>1. tables'[o].class[nt] = d
        BY <3>1, <3>2, <1>6
      <4>2. ASSUME NEW t \in 1 .. m, t # o, NEW x \in Nonterminals PROVE tables'[t].class[x] # d
        <5>1. tables[t].class[x] \in 0 .. k /\ tables'[t] = tables[t]
          BY <4>2, <1>1, <1>4
        <5>. QED
          BY <5>1, <3>1, <1>7
      <4>3. o \in DOMAIN tables' /\ \A t \in DOMAIN tables' : t = o \/ t \in 1 .. m
        BY <1>1, <1>3, <1>4, <1>7
      <4>. QED
        BY <4>1, <4>2, <4>3, <1>0 DEF HoldersOf
    <3>4. Cardinality({o}) = 1
      BY FS_Singleton
    <3>. QED
      BY <3>2, <3>3, <3>4
  <2>. QED
    BY <2>1, <2>2, <2>3
<1>. QED
  BY <1>9, <1>11 DEF CountsCover, UsersOf, HoldersOf

(* Adding a rule keeps the invariant.                                       *)
LEMMA GrowInv ==
  ASSUME IInv, NEW rule \in Rules, TablesGrow(rule.class), ClassesGrow(rule.class),
         ScopesGrow(rule)
  PROVE  IInv'
<1> DEFINE nt == rule.class
           m == Len(tables)
           k == Len(classes)
           n == Len(scopes)
           o == OwnTable
           j == Inner
<1>1. nt \in Nonterminals
  BY TableAssumption
<1>2. /\ TypeOK /\ m \in Nat /\ k \in Nat /\ n \in Nat /\ j \in 1 .. n /\ Current \in 1 .. m
      /\ \A t \in 1 .. m : /\ TableShape(tables[t]) /\ tables[t].count \in Int
                           /\ tables[t].class \in [Nonterminals -> 0 .. k]
      /\ \A s \in 1 .. n : scopes[s].table \in 1 .. m
      /\ scopes[j].table = Current /\ n >= 1 /\ j = n
  BY Finite DEF IInv, TypeOK, Current, Inner
<1>3. /\ IsSeq(tables') /\ Len(tables') = (IF Forks THEN m + 1 ELSE m) /\ o \in 1 .. Len(tables')
      /\ o = (IF Forks THEN m + 1 ELSE Current)
      /\ \A t \in 1 .. m : t # o => tables'[t] = tables[t]
      /\ TableShape(tables'[o]) /\ tables'[o].count \in Int
  BY <1>2 DEF TablesGrow, OwnTable
<1>4. /\ IsSeq(classes') /\ Len(classes') = (IF IsNewClass(nt) THEN k + 1 ELSE k)
      /\ \A d \in 1 .. Len(classes') : /\ ClassShape(classes'[d]) /\ classes'[d].count \in Int
                                       /\ TreeShape(classes'[d].tree)
      /\ \A d \in 1 .. k : Keeps(classes[d].tree, classes'[d].tree)
      /\ ClassOf(nt) \in 1 .. Len(classes')
  BY DEF ClassesGrow
<1>5. /\ IsSeq(scopes') /\ Len(scopes') = n
      /\ \A s \in 1 .. n : ScopeShape(scopes'[s]) /\ (s # j => scopes'[s] = scopes[s])
      /\ scopes'[j].table = o
      /\ \A x \in scopes'[j].added :
           \/ x \in scopes[j].added
           \/ x = <<nt, Path(rule.pattern, Len(rule.pattern))>> /\ RuleIn(rule)
  BY DEF ScopesGrow
<1>6. /\ tables'[o].class \in [Nonterminals -> 0 .. k + 1]
      /\ tables'[o].class[nt] = ClassOf(nt) /\ ClassOf(nt) # 0
      /\ \A x \in Nonterminals : tables[Current].class[x] # 0 =>
           tables'[o].class[x] = tables[Current].class[x]
      /\ \A x \in Nonterminals : x # nt => tables'[o].class[x] = tables[Current].class[x]
      /\ \A s \in 1 .. n : s # j => tables'[scopes[s].table] = tables[scopes[s].table]
  BY <1>1, OwnClasses
<1>7. /\ 1 .. m \subseteq 1 .. Len(tables') /\ 0 .. k \subseteq 0 .. Len(classes')
      /\ \A t \in 1 .. Len(tables') : t = o \/ (t \in 1 .. m /\ t # o)
      /\ 1 .. Len(classes') \subseteq 0 .. Len(classes')
  <2>1. CASE Forks
    BY <2>1, <1>2, <1>3, <1>4
  <2>2. CASE ~Forks
    BY <2>2, <1>2, <1>3, <1>4
  <2>. QED
    BY <2>1, <2>2
<1> HIDE DEF nt, m, k, n, o, j
<1>8. TypeOK'
  <2>1. \A s \in 1 .. n : ScopeShape(scopes'[s]) /\ scopes'[s].table \in 1 .. Len(tables')
    BY <1>2, <1>3, <1>5, <1>7
  <2>2. tables'[o].class \in [Nonterminals -> 0 .. Len(classes')]
    <3>1. ASSUME NEW x \in Nonterminals PROVE tables'[o].class[x] \in 0 .. Len(classes')
      <4>1. CASE x = nt
        BY <4>1, <1>4, <1>6, <1>7
      <4>2. CASE x # nt
        BY <4>2, <1>2, <1>6, <1>7
      <4>. QED
        BY <4>1, <4>2
    <3>. QED
      BY <3>1, <1>6
  <2>3. ASSUME NEW t \in 1 .. Len(tables')
        PROVE  /\ TableShape(tables'[t]) /\ tables'[t].count \in Int
               /\ tables'[t].class \in [Nonterminals -> 0 .. Len(classes')]
    <3>1. CASE t = o
      BY <3>1, <2>2, <1>3
    <3>2. CASE t # o
      <4>1. t \in 1 .. m /\ tables'[t] = tables[t]
        BY <3>2, <1>3, <1>7
      <4>2. tables[t].class \in [Nonterminals -> 0 .. k] /\ 0 .. k \subseteq 0 .. Len(classes')
        BY <4>1, <1>2, <1>7
      <4>. QED
        BY <4>1, <4>2, <1>2
    <3>. QED
      BY <3>1, <3>2
  <2>. QED
    BY <2>1, <2>3, <1>2, <1>3, <1>4, <1>5 DEF TypeOK
<1>9. CountsCover'
  BY GrowCounts
<1>10. Nested'
  <2>1. SUFFICES ASSUME NEW i \in 1 .. n, NEW s \in 1 .. n, NEW x \in Nonterminals,
                        i <= s, tables'[scopes'[i].table].class[x] # 0
                 PROVE  tables'[scopes'[s].table].class[x] = tables'[scopes'[i].table].class[x]
    BY <1>5 DEF Nested
  <2>2. CASE s # j
    <3>1. i # j
      BY <2>1, <2>2, <1>2
    <3>2. /\ tables'[scopes'[i].table] = tables[scopes[i].table]
          /\ tables'[scopes'[s].table] = tables[scopes[s].table]
      BY <2>2, <3>1, <1>5, <1>6
    <3>. QED
      BY <2>1, <3>2 DEF IInv, Nested, n
  <2>3. CASE s = j /\ i # j
    <3>1. /\ tables'[scopes'[i].table] = tables[scopes[i].table]
          /\ scopes'[s].table = o
      BY <2>3, <1>5, <1>6
    <3>2. tables[Current].class[x] = tables[scopes[i].table].class[x]
      <4>1. Current = scopes[s].table
        BY <2>3, <1>2
      <4>2. tables[scopes[i].table].class[x] # 0
        BY <2>1, <3>1
      <4>. QED
        BY <2>1, <4>1, <4>2 DEF IInv, Nested, n
    <3>. QED
      BY <2>1, <3>1, <3>2, <1>6
  <2>4. CASE s = j /\ i = j
    BY <2>4
  <2>. QED
    BY <2>2, <2>3, <2>4
<1>11. AddedInv'
  <2>1. SUFFICES ASSUME NEW s \in 1 .. n, NEW x \in scopes'[s].added
                 PROVE  /\ x = <<x[1], x[2]>> /\ x[1] \in Nonterminals
                        /\ (HasRule(scopes[s].table, x[1], x[2]))'
    BY <1>5 DEF AddedInv
  <2>2. CASE x \in scopes[s].added
    <3> DEFINE c == tables[scopes[s].table].class[x[1]]
    <3>1. /\ x = <<x[1], x[2]>> /\ x[1] \in Nonterminals
          /\ c # 0 /\ x[2] \in DOMAIN classes[c].tree /\ classes[c].tree[x[2]].accepts
      BY <2>2 DEF IInv, AddedInv, HasRule, n
    <3>2. scopes[s].table \in 1 .. m
      BY <1>2
    <3>3. c \in 0 .. k
      BY <3>1, <3>2, <1>2
    <3>4. c \in 1 .. k
      <4>1. c # 0
        BY <3>1
      <4> HIDE DEF c
      <4>. QED
        BY <4>1, <3>3, <1>2
    <3>5. tables'[scopes'[s].table].class[x[1]] = c
      <4>1. CASE s = j
        BY <4>1, <3>1, <1>2, <1>5, <1>6
      <4>2. CASE s # j
        BY <4>2, <1>5, <1>6
      <4>. QED
        BY <4>1, <4>2
    <3> HIDE DEF c
    <3>6. x[2] \in DOMAIN classes'[c].tree /\ classes'[c].tree[x[2]].accepts
      BY <3>1, <3>4, <1>4 DEF Keeps
    <3>. QED
      BY <3>1, <3>5, <3>6 DEF HasRule
  <2>3. CASE x \notin scopes[s].added
    <3>1. s = j
      BY <2>1, <2>3, <1>5
    <3>2. x = <<nt, Path(rule.pattern, Len(rule.pattern))>> /\ RuleIn(rule)
      BY <2>1, <2>3, <3>1, <1>5
    <3>3. x = <<x[1], x[2]>> /\ x[1] = nt /\ x[2] = Path(rule.pattern, Len(rule.pattern))
      BY <3>2
    <3>4. /\ x[2] \in DOMAIN classes'[ClassOf(nt)].tree
          /\ classes'[ClassOf(nt)].tree[x[2]].accepts
      BY <3>2, <3>3 DEF RuleIn, nt
    <3>5. tables'[scopes'[s].table].class[x[1]] = ClassOf(nt) /\ ClassOf(nt) # 0
      BY <3>1, <3>3, <1>5, <1>6
    <3>. QED
      BY <3>3, <3>4, <3>5, <1>1 DEF HasRule
  <2>. QED
    BY <2>2, <2>3
<1>. QED
  BY <1>8, <1>9, <1>10, <1>11 DEF IInv

(* AddRule crashes and changes nothing, or does the three.                  *)
LEMMA AddRuleGrows ==
  ASSUME IInv, NEW rule \in Rules, AddRule(rule)
  PROVE  \/ UNCHANGED <<scopes, tables, classes>>
         \/ TablesGrow(rule.class) /\ ClassesGrow(rule.class) /\ ScopesGrow(rule)
<1> DEFINE nt == rule.class
           c == ClassOf(nt)
           cls == ClassesWith(nt)[c]
           first == IF IsNewClass(nt) THEN lastId + 1 ELSE lastId
           ok == IsNewRule(cls.tree, rule)
<1>1. CASE CloneFails(cls, rule.pattern)
  BY <1>1 DEF AddRule
<1>2. CASE ~CloneFails(cls, rule.pattern)
  <2>1. /\ tables' = WithClass(nt)
        /\ classes' = [ClassesWith(nt) EXCEPT ![c].tree = Extended(cls.tree, rule, first)]
        /\ scopes' = [scopes EXCEPT
             ![Inner].table = OwnTable,
             ![Inner].added = IF ok THEN @ \cup {<<nt, Path(rule.pattern, Len(rule.pattern))>>} ELSE @]
    BY <1>2 DEF AddRule
  <2>2. TypeOK /\ nt \in Nonterminals /\ ok \in BOOLEAN
    BY TableAssumption DEF IInv, IsNewRule
  <2>3. TablesGrow(nt)
    <3>1. tables' = WithClass(nt)
      BY <2>1
    <3> HIDE DEF nt
    <3>. QED
      BY <3>1, <2>2, GrowTables
  <2> HIDE DEF first
  <2>4. ClassesGrow(nt) /\ (ok => RuleIn(rule))
    BY <2>1, <2>2, GrowClasses
  <2> HIDE DEF ok
  <2>5. ScopesGrow(rule)
    BY <2>1, <2>2, <2>4, GrowScopes
  <2>. QED
    BY <2>3, <2>4, <2>5
<1>. QED
  BY <1>1, <1>2

-----------------------------------------------------------------------------
(* Every step keeps the invariant.                                          *)
LEMMA NextInv ==
  ASSUME IInv, [Next]_vars
  PROVE  IInv'
<1>1. ASSUME UNCHANGED <<scopes, tables, classes>> PROVE IInv'
  BY <1>1, SameTables DEF IInv, TypeOK
<1>2. CASE BeginScope
  BY <1>2, BeginScopeInv
<1>3. CASE EndScope
  BY <1>3, EndScopeInv
<1>4. ASSUME NEW r \in Rules, AddRule(r) PROVE IInv'
  BY <1>1, <1>4, AddRuleGrows, GrowInv
<1>5. ASSUME NEW n \in Nodes, Consult(n[1], n[2]) \/ Follow(n[1], n[2]) PROVE IInv'
  BY <1>5, AskInv
<1>6. CASE Finished \/ UNCHANGED vars
  BY <1>1, <1>6 DEF Finished, vars
<1>. QED
  BY <1>2, <1>3, <1>4, <1>5, <1>6 DEF Next

(* The counts that decide about copying never fall short, however scopes    *)
(* are opened and closed and rules added: ParseScope_CreateChild,           *)
(* ParserSyntaxTable_VFork and ParserSyntaxTable_AddRule keep the counts    *)
(* of tables and classes.                                                   *)
THEOREM TablesCounted == Spec => []CountsCover
<1>1. Init => IInv
  BY InitInv
<1>2. IInv /\ [Next]_vars => IInv'
  BY NextInv
<1>3. IInv => CountsCover
  BY DEF IInv
<1>. QED
  BY <1>1, <1>2, <1>3, PTL DEF Spec

(* The rules of a scope are seen in it and in the scopes inside it, as long *)
(* as it is open.                                                           *)
LEMMA SeenInside ==
  ASSUME IInv
  PROVE  RulesKept
<1>1. /\ TypeOK /\ Len(scopes) \in Nat /\ DOMAIN scopes = 1 .. Len(scopes)
      /\ Len(classes) \in Nat /\ DOMAIN classes = 1 .. Len(classes)
  BY Finite DEF IInv
<1>2. SUFFICES ASSUME NEW i \in 1 .. Len(scopes), NEW j \in 1 .. i, NEW rule \in scopes[j].added
               PROVE  rule \in Visible(scopes[i].table)
  BY <1>1 DEF RulesKept
<1>3. j \in 1 .. Len(scopes) /\ j <= i
  BY <1>1
<1> DEFINE c == tables[scopes[j].table].class[rule[1]]
           t == scopes[i].table
<1>4. /\ rule = <<rule[1], rule[2]>> /\ rule[1] \in Nonterminals
      /\ c # 0 /\ rule[2] \in DOMAIN classes[c].tree /\ classes[c].tree[rule[2]].accepts
  BY <1>3 DEF IInv, AddedInv, HasRule
<1>5. tables[t].class[rule[1]] = c
  BY <1>3, <1>4 DEF IInv, Nested
<1>6. t \in 1 .. Len(tables) /\ tables[t].class \in [Nonterminals -> 0 .. Len(classes)]
  BY <1>1 DEF TypeOK
<1>7. c \in 1 .. Len(classes)
  <2>1. c \in 0 .. Len(classes) /\ c # 0
    BY <1>4, <1>5, <1>6
  <2> HIDE DEF c
  <2>. QED
    BY <2>1, <1>1
<1> HIDE DEF c, t
<1>8. TreesIn(t)[rule[1]] = classes[c].tree
  BY <1>4, <1>5 DEF TreesIn
<1>9. rule \in Nonterminals \X UNION {DOMAIN classes[d].tree : d \in DOMAIN classes}
  <2>1. rule[2] \in UNION {DOMAIN classes[d].tree : d \in DOMAIN classes}
    BY <1>1, <1>4, <1>7
  <2>. QED
    BY <1>4, <2>1
<1>10. rule \in Visible(t)
  BY <1>4, <1>8, <1>9 DEF Visible
<1>. QED
  BY <1>10 DEF t

(* A scope sees the rules of the scopes around it and its own as long as it *)
(* is open, whatever tables ParserSyntaxTable_VFork forked meanwhile.       *)
THEOREM RulesStaySeen == Spec => []RulesKept
<1>1. Init => IInv
  BY InitInv
<1>2. IInv /\ [Next]_vars => IInv'
  BY NextInv
<1>3. IInv => RulesKept
  BY SeenInside
<1>. QED
  BY <1>1, <1>2, <1>3, PTL DEF Spec

(* A step that neither opens nor closes a scope leaves the classes of the   *)
(* enclosing scopes alone.                                                  *)
OuterStep ==
  Len(scopes') = Len(scopes) =>
    \A i \in 1 .. Inner - 1 :
      /\ scopes'[i].table = scopes[i].table
      /\ tables'[scopes[i].table].class = tables[scopes[i].table].class

(* Every step is one.                                                       *)
LEMMA OuterKept ==
  ASSUME IInv, [Next]_vars
  PROVE  OuterStep
<1>1. /\ TypeOK /\ Len(scopes) \in Nat /\ Inner = Len(scopes) /\ IsSeq(scopes) /\ IsSeq(tables)
      /\ \A i \in 1 .. Inner - 1 : i \in 1 .. Len(scopes) /\ i # Inner
      /\ \A i \in 1 .. Len(scopes) : scopes[i].table \in 1 .. Len(tables)
      /\ \A t \in 1 .. Len(tables) : TableShape(tables[t])
  BY Finite DEF IInv, TypeOK, Inner
<1>2. ASSUME UNCHANGED <<scopes, tables>> PROVE OuterStep
  BY <1>2 DEF OuterStep
<1>3. CASE BeginScope
  <2>1. Len(scopes') = Len(scopes) + 1
    BY <1>1, <1>3, SeqFacts DEF BeginScope
  <2>. QED
    BY <2>1, <1>1 DEF OuterStep
<1>4. CASE EndScope
  <2>1. scopes' = SubSeq(scopes, 1, Len(scopes) - 1) /\ Len(scopes) > 1
    BY <1>1, <1>4 DEF EndScope
  <2>2. Len(scopes) > 0
    BY <2>1, <1>1
  <2>3. Len(SubSeq(scopes, 1, Len(scopes) - 1)) = Len(scopes) - 1
    BY <1>1, <2>2, SeqFacts
  <2>. QED
    BY <2>1, <2>3, <1>1 DEF OuterStep
<1>5. ASSUME NEW r \in Rules, AddRule(r) PROVE OuterStep
  <2>1. CASE UNCHANGED <<scopes, tables, classes>>
    BY <2>1, <1>2
  <2>2. CASE TablesGrow(r.class) /\ ScopesGrow(r)
    <3>1. r.class \in Nonterminals
      BY TableAssumption
    <3>2. \A i \in 1 .. Len(scopes) : i # Inner =>
            scopes'[i] = scopes[i] /\ tables'[scopes[i].table] = tables[scopes[i].table]
      BY <2>2, <3>1, OwnClasses DEF ScopesGrow
    <3>. QED
      BY <3>2, <1>1 DEF OuterStep
  <2>. QED
    BY <1>5, <2>1, <2>2, AddRuleGrows
<1>6. ASSUME NEW n \in Nodes, Consult(n[1], n[2]) \/ Follow(n[1], n[2]) PROVE OuterStep
  <2>1. /\ scopes' = scopes
        /\ \A t \in 1 .. Len(tables) : tables'[t].class = tables[t].class
    BY <1>6, AskClasses
  <2>. QED
    BY <2>1, <1>1 DEF OuterStep
<1>7. CASE Finished \/ UNCHANGED vars
  BY <1>2, <1>7 DEF Finished, vars
<1>. QED
  BY <1>3, <1>4, <1>5, <1>6, <1>7 DEF Next

(* A rule never changes what classes an enclosing scope has: AddRule works  *)
(* on a table of the scope's own, which ParserSyntaxTable_VFork made.       *)
THEOREM OuterTablesStay == Spec => OuterTablesKept
<1>1. Init => IInv
  BY InitInv
<1>2. IInv /\ [Next]_vars => IInv'
  BY NextInv
<1>3. IInv /\ [Next]_vars => [OuterStep]_vars
  BY OuterKept
<1>4. Spec => [][OuterStep]_vars
  BY <1>1, <1>2, <1>3, PTL DEF Spec
<1>. QED
  BY <1>4 DEF OuterTablesKept, OuterStep

-----------------------------------------------------------------------------
(* Induction on a stretch of numbers.                                       *)
LEMMA Upwards ==
  ASSUME NEW N \in Nat, NEW G, 0 \in G, \A k \in 1 .. N : k - 1 \in G => k \in G
  PROVE  \A k \in 0 .. N : k \in G
<1> DEFINE M == (0 .. N) \ G
           T == {0 .. k : k \in M}
           R == StrictSubsetOrdering(0 .. N)
<1>1. ASSUME M # {} PROVE FALSE
  <2>1. IsWellFoundedOn(R, FiniteSubsetsOf(0 .. N))
    BY FS_StrictSubsetOrderingWellFounded
  <2>2. T \subseteq FiniteSubsetsOf(0 .. N)
    <3>1. ASSUME NEW k \in M PROVE 0 .. k \in FiniteSubsetsOf(0 .. N)
      <4>1. 0 .. k \subseteq 0 .. N
        OBVIOUS
      <4>2. IsFiniteSet(0 .. k)
        BY FS_Interval
      <4>. QED
        BY <4>1, <4>2 DEF FiniteSubsetsOf
    <3>. QED
      BY <3>1
  <2>3. T # {}
    BY <1>1
  <2>4. PICK x \in T : \A y \in T : ~ (<<y, x>> \in R)
    <3> HIDE DEF T, R
    <3>. QED
      BY <2>1, <2>2, <2>3, WFMin
  <2>5. PICK m \in M : x = 0 .. m
    OBVIOUS
  <2>6. m \in 1 .. N /\ m - 1 \in M
    <3>1. m \in 0 .. N /\ m \notin G /\ m # 0
      OBVIOUS
    <3>2. m \in 1 .. N /\ m - 1 \in 0 .. N
      BY ONLY <3>1, N \in Nat
    <3>. QED
      BY <3>1, <3>2
  <2>7. 0 .. m - 1 \subseteq 0 .. m /\ m \in 0 .. m /\ m \notin 0 .. m - 1
    BY <2>6
  <2>8. 0 .. m - 1 \in SUBSET (0 .. N) /\ 0 .. m \in SUBSET (0 .. N)
    BY <2>6
  <2>9. <<0 .. m - 1, 0 .. m>> \in R
    BY <2>7, <2>8 DEF StrictSubsetOrdering
  <2>. QED
    BY <2>4, <2>5, <2>6, <2>9
<1>. QED
  BY <1>1

-----------------------------------------------------------------------------
(* The sets that are read from trees grow with the trees.                   *)

(* The classes that can stand first, as the recursion collects them.        *)
Rounds(trees, nt, reach) ==
  /\ reach[0] = {nt}
  /\ \A n \in 1 .. Cardinality(Nonterminals) :
       reach[n] = reach[n - 1] \cup UNION {Heads(trees[m]) : m \in reach[n - 1]}

(* What a set of leftmost nonterminals is, round by round.                  *)
LEMMA LeftmostUnfolds ==
  ASSUME NEW trees, NEW nt
  PROVE  \E reach : Rounds(trees, nt, reach) /\ Leftmost(trees, nt) = reach[Cardinality(Nonterminals)]
<1> DEFINE N == Cardinality(Nonterminals)
           F(f) == [n \in 0 .. N |-> IF n = 0 THEN {nt}
                                     ELSE f[n - 1] \cup UNION {Heads(trees[m]) : m \in f[n - 1]}]
           Good(g, k) == \A n \in 0 .. k : g[n] = IF n = 0 THEN {nt}
                                     ELSE g[n - 1] \cup UNION {Heads(trees[m]) : m \in g[n - 1]}
           G == {k \in 0 .. N : \E g : DOMAIN g = 0 .. N /\ g = [n \in 0 .. N |-> g[n]] /\ Good(g, k)}
<1>1. N \in Nat
  BY TreeAssumption, FS_CardinalityType
<1>2. 0 \in G
  <2> DEFINE g == [n \in 0 .. N |-> {nt}]
  <2>1. DOMAIN g = 0 .. N /\ g = [n \in 0 .. N |-> g[n]] /\ g[0] = {nt}
    BY <1>1
  <2> HIDE DEF g
  <2>2. \A n \in 0 .. 0 : n = 0
    OBVIOUS
  <2>3. Good(g, 0)
    BY <2>1, <2>2
  <2>4. 0 \in 0 .. N
    BY <1>1
  <2> HIDE DEF N, Good
  <2>. QED
    BY <2>1, <2>3, <2>4
<1>3. ASSUME NEW k \in 1 .. N, k - 1 \in G PROVE k \in G
  <2>1. PICK g : DOMAIN g = 0 .. N /\ g = [n \in 0 .. N |-> g[n]] /\ Good(g, k - 1)
    BY <1>3
  <2> DEFINE v == g[k - 1] \cup UNION {Heads(trees[m]) : m \in g[k - 1]}
             h == [n \in 0 .. N |-> IF n = k THEN v ELSE g[n]]
  <2> HIDE DEF v
  <2>2. k \in 0 .. N /\ k - 1 \in 0 .. N /\ k - 1 # k /\ k # 0
    BY <1>1
  <2>3. DOMAIN h = 0 .. N /\ h = [n \in 0 .. N |-> h[n]] /\ h[k] = v /\ \A n \in 0 .. N : n # k => h[n] = g[n]
    BY <2>2
  <2> HIDE DEF h, N
  <2>4. ASSUME NEW n \in 0 .. k
        PROVE  h[n] = IF n = 0 THEN {nt} ELSE h[n - 1] \cup UNION {Heads(trees[m]) : m \in h[n - 1]}
    <3>1. CASE n = k
      <4>1. h[k - 1] = g[k - 1] /\ h[n] = v /\ n # 0 /\ n - 1 = k - 1
        BY <3>1, <2>2, <2>3
      <4>. QED
        BY <4>1 DEF v
    <3>2. CASE n # k
      <4>1. n \in 0 .. k - 1 /\ n \in 0 .. N /\ (n # 0 => n - 1 \in 0 .. N /\ n - 1 # k)
        BY <3>2, <2>2, <1>1
      <4>2. h[n] = g[n] /\ (n # 0 => h[n - 1] = g[n - 1])
        BY <4>1, <2>3, <3>2
      <4>. QED
        BY <4>1, <4>2, <2>1
    <3>. QED
      BY <3>1, <3>2
  <2>. QED
    BY <2>2, <2>3, <2>4
<1>4. PICK g : DOMAIN g = 0 .. N /\ g = [n \in 0 .. N |-> g[n]] /\ Good(g, N)
  <2>1. \A k \in 0 .. N : k \in G
    <3> HIDE DEF G, N
    <3>. QED
      BY <1>1, <1>2, <1>3, Upwards
  <2>2. N \in G
    <3> HIDE DEF G, N
    <3>. QED
      BY <1>1, <2>1
  <2>. QED
    BY <2>2
<1>5. g = F(g)
  <2>1. F(g) = [n \in 0 .. N |-> g[n]]
    BY <1>4
  <2>. QED
    BY <1>4, <2>1
<1>6. Leftmost(trees, nt) = (CHOOSE f : f = F(f))[N]
  BY DEF Leftmost
<1> DEFINE r == CHOOSE f : f = F(f)
<1>7. r = F(r)
  <2> HIDE DEF F
  <2>. QED
    BY <1>5
<1>8. \A n \in 0 .. N : r[n] = IF n = 0 THEN {nt}
                               ELSE r[n - 1] \cup UNION {Heads(trees[m]) : m \in r[n - 1]}
  <2> HIDE DEF r
  <2>. QED
    BY <1>7
<1> HIDE DEF r
<1>9. Rounds(trees, nt, r)
  <2>1. 0 \in 0 .. N /\ \A n \in 1 .. N : n \in 0 .. N /\ n # 0
    BY <1>1
  <2>. QED
    BY <1>8, <2>1 DEF Rounds
<1>. QED
  BY <1>6, <1>9 DEF r

(* The nodes of a tree are sequences of steps, and a nonterminal in it is   *)
(* one of the classes.                                                      *)
NamesOK(tree) ==
  \A q \in DOMAIN tree : Len(q) \in Nat /\ (Len(q) > 0 /\ IsNonterminal(q) => Name(q) \in Nonterminals)

(* A tree that has grown has the children it had.                           *)
LEMMA ChildrenGrow ==
  ASSUME NEW tree, NEW more, DOMAIN tree \subseteq DOMAIN more, NEW p
  PROVE  /\ Children(tree, p) \subseteq Children(more, p)
         /\ Terminals(tree, p) \subseteq Terminals(more, p)
         /\ NonterminalsOf(tree, p) \subseteq NonterminalsOf(more, p)
         /\ Heads(tree) \subseteq Heads(more)
<1>1. \A r : Children(tree, r) \subseteq Children(more, r)
  BY DEF Children
<1>. QED
  BY <1>1 DEF Terminals, NonterminalsOf, Heads

(* Nonterminals in a tree are nonterminals of the grammar.                  *)
LEMMA NamesIn ==
  ASSUME NEW tree, NamesOK(tree), NEW p \in DOMAIN tree
  PROVE  \A q \in NonterminalsOf(tree, p) : Name(q) \in Nonterminals
<1>1. ASSUME NEW q \in NonterminalsOf(tree, p) PROVE Name(q) \in Nonterminals
  <2>1. q \in DOMAIN tree /\ Len(q) = Len(p) + 1 /\ IsNonterminal(q)
    BY DEF NonterminalsOf, Children
  <2>2. Len(p) \in Nat
    BY DEF NamesOK
  <2>3. Len(q) > 0
    BY <2>1, <2>2
  <2>. QED
    BY <2>1, <2>3 DEF NamesOK
<1>. QED
  BY <1>1

(* Those at its root are.                                                   *)
LEMMA HeadsIn ==
  ASSUME NEW tree, NamesOK(tree)
  PROVE  Heads(tree) \subseteq Nonterminals
<1>1. ASSUME NEW q \in NonterminalsOf(tree, <<>>) PROVE Name(q) \in Nonterminals
  <2>1. q \in DOMAIN tree /\ Len(q) = Len(<<>>) + 1 /\ IsNonterminal(q)
    BY DEF NonterminalsOf, Children
  <2>2. Len(q) > 0
    BY <2>1
  <2>. QED
    BY <2>1, <2>2 DEF NamesOK
<1>. QED
  BY <1>1 DEF Heads

(* Trees of the classes, and others that have all their nodes.              *)
Grow(trees, more) ==
  \A m \in Nonterminals : NamesOK(trees[m]) /\ DOMAIN trees[m] \subseteq DOMAIN more[m]

(* More rules, more leftmost nonterminals.                                  *)
LEMMA LeftmostGrows ==
  ASSUME NEW trees, NEW more, Grow(trees, more), NEW nt \in Nonterminals
  PROVE  Leftmost(trees, nt) \subseteq Leftmost(more, nt) \cap Nonterminals
<1> DEFINE N == Cardinality(Nonterminals)
<1>1. N \in Nat
  BY TreeAssumption, FS_CardinalityType
<1>2. PICK r : Rounds(trees, nt, r) /\ Leftmost(trees, nt) = r[N]
  BY LeftmostUnfolds
<1>3. PICK s : Rounds(more, nt, s) /\ Leftmost(more, nt) = s[N]
  BY LeftmostUnfolds
<1> DEFINE G == {k \in 0 .. N : r[k] \subseteq s[k] \cap Nonterminals}
<1>4. 0 \in G
  BY <1>1, <1>2, <1>3 DEF Rounds
<1>5. ASSUME NEW k \in 1 .. N, k - 1 \in G PROVE k \in G
  <2>1. r[k] = r[k - 1] \cup UNION {Heads(trees[m]) : m \in r[k - 1]}
    BY <1>2 DEF Rounds
  <2>2. s[k] = s[k - 1] \cup UNION {Heads(more[m]) : m \in s[k - 1]}
    BY <1>3 DEF Rounds
  <2>3. r[k - 1] \subseteq s[k - 1] \cap Nonterminals
    BY <1>5
  <2>4. \A m \in Nonterminals : Heads(trees[m]) \subseteq Heads(more[m]) \cap Nonterminals
    BY HeadsIn, ChildrenGrow DEF Grow
  <2>5. ASSUME NEW x \in r[k] PROVE x \in s[k] /\ x \in Nonterminals
    <3>1. CASE x \in r[k - 1]
      BY <3>1, <2>2, <2>3
    <3>2. CASE x \notin r[k - 1]
      <4>1. PICK m \in r[k - 1] : x \in Heads(trees[m])
        BY <2>1, <2>5, <3>2
      <4>2. m \in s[k - 1] /\ m \in Nonterminals
        BY <2>3
      <4>3. x \in Heads(more[m]) /\ x \in Nonterminals
        BY <2>4, <4>1, <4>2
      <4>. QED
        BY <2>2, <4>2, <4>3
    <3>. QED
      BY <3>1, <3>2
  <2>6. k \in 0 .. N
    BY <1>1
  <2>. QED
    BY <2>5, <2>6
<1>6. \A k \in 0 .. N : k \in G
  <2> HIDE DEF G, N
  <2>. QED
    BY <1>1, <1>4, <1>5, Upwards
<1>7. N \in G
  <2> HIDE DEF G, N
  <2>. QED
    BY <1>1, <1>6
<1>. QED
  BY <1>2, <1>3, <1>7

(* And more first symbols.                                                  *)
LEMMA FirstGrows ==
  ASSUME NEW trees, NEW more, Grow(trees, more), NEW nt \in Nonterminals
  PROVE  ComputeFirstSet(trees, nt) \subseteq ComputeFirstSet(more, nt)
<1> DEFINE a == Leftmost(trees, nt)
           b == Leftmost(more, nt)
<1>1. a \subseteq b \cap Nonterminals
  BY LeftmostGrows
<1>2. /\ ComputeFirstSet(trees, nt) = UNION {{Name(q) : q \in Terminals(trees[m], <<>>)} : m \in a}
                                      \cup IF a \cap Builtin # {} THEN {AnyToken} ELSE {}
      /\ ComputeFirstSet(more, nt) = UNION {{Name(q) : q \in Terminals(more[m], <<>>)} : m \in b}
                                      \cup IF b \cap Builtin # {} THEN {AnyToken} ELSE {}
  BY DEF ComputeFirstSet
<1> HIDE DEF a, b
<1>3. ASSUME NEW m \in a, NEW x \in {Name(q) : q \in Terminals(trees[m], <<>>)}
      PROVE  m \in b /\ x \in {Name(q) : q \in Terminals(more[m], <<>>)}
  <2>1. m \in b /\ Terminals(trees[m], <<>>) \subseteq Terminals(more[m], <<>>)
    BY <1>1, ChildrenGrow DEF Grow
  <2>. QED
    BY <2>1
<1>4. UNION {{Name(q) : q \in Terminals(trees[m], <<>>)} : m \in a}
        \subseteq UNION {{Name(q) : q \in Terminals(more[m], <<>>)} : m \in b}
  BY <1>3
<1>5. a \cap Builtin # {} => b \cap Builtin # {}
  BY <1>1
<1>. QED
  BY <1>2, <1>4, <1>5

(* first gives every nonterminal below p no more than more does.            *)
LEMMA FollowGrows ==
  ASSUME NEW tree, NEW new, DOMAIN tree \subseteq DOMAIN new, NEW p, NEW first, NEW more,
         \A q \in NonterminalsOf(tree, p) : first[Name(q)] \subseteq more[Name(q)]
  PROVE  ComputeFollowSet(tree, p, first) \subseteq ComputeFollowSet(new, p, more)
<1>1. Children(tree, p) \subseteq Children(new, p)
  BY ChildrenGrow
<1>2. ASSUME NEW q \in Children(tree, p) PROVE Leading(q, first) \subseteq Leading(q, more)
  BY DEF Leading, NonterminalsOf
<1>. QED
  BY <1>1, <1>2 DEF ComputeFollowSet

(* The moves of a node that are right: each leads to a child its token can  *)
(* start, and a node without moves is ambiguous.                            *)
MoveOK(move, tree, p, first) ==
  /\ \A x \in DOMAIN move.on : /\ move.on[x] \in Children(tree, p)
                               /\ x \in Leading(move.on[x], first)
  /\ ~move.clear => IsAmbiguous(Children(tree, p), first)

(* They stay right when the tree and the FIRST sets grow.                   *)
LEMMA MoveGrows ==
  ASSUME NEW tree, NEW new, DOMAIN tree \subseteq DOMAIN new, NEW p, NEW first, NEW more,
         \A q \in NonterminalsOf(tree, p) : first[Name(q)] \subseteq more[Name(q)],
         NEW move, MoveOK(move, tree, p, first)
  PROVE  MoveOK(move, new, p, more)
<1>1. Children(tree, p) \subseteq Children(new, p)
  BY ChildrenGrow
<1>2. ASSUME NEW q \in Children(tree, p) PROVE Leading(q, first) \subseteq Leading(q, more)
  BY DEF Leading, NonterminalsOf
<1>3. ASSUME NEW x \in DOMAIN move.on
      PROVE  move.on[x] \in Children(new, p) /\ x \in Leading(move.on[x], more)
  <2>1. move.on[x] \in Children(tree, p) /\ x \in Leading(move.on[x], first)
    BY DEF MoveOK
  <2>. QED
    BY <1>1, <1>2, <2>1
<1>4. ASSUME ~move.clear PROVE IsAmbiguous(Children(new, p), more)
  <2>1. PICK q \in Children(tree, p), s \in Children(tree, p) :
          q # s /\ Leading(q, first) \cap Leading(s, first) # {}
    BY <1>4 DEF MoveOK, IsAmbiguous
  <2>2. q \in Children(new, p) /\ s \in Children(new, p)
    BY <1>1
  <2>3. Leading(q, more) \cap Leading(s, more) # {}
    BY <1>2, <2>1
  <2>. QED
    BY <2>1, <2>2, <2>3 DEF IsAmbiguous
<1>. QED
  BY <1>3, <1>4 DEF MoveOK

-----------------------------------------------------------------------------
(* The numbers of nodes.                                                    *)

(* A set of positive numbers up to N has a least element.                   *)
LEMMA Smallest ==
  ASSUME NEW N \in Nat, NEW M \in SUBSET (1 .. N), M # {}
  PROVE  \E m \in M : \A k \in M : m <= k
<1>1. ASSUME \A m \in M : \E k \in M : k < m PROVE FALSE
  <2> DEFINE G == {k \in 0 .. N : \A j \in M : j > k}
  <2>1. 0 \in G
    OBVIOUS
  <2>2. ASSUME NEW k \in 1 .. N, k - 1 \in G PROVE k \in G
    <3>1. \A j \in M : j > k - 1 /\ j \in 1 .. N
      BY <2>2
    <3>2. k \notin M
      BY <1>1, <3>1
    <3>3. \A j \in M : j > k
      BY <3>1, <3>2
    <3>. QED
      BY <3>3
  <2>3. \A k \in 0 .. N : k \in G
    <3> HIDE DEF G
    <3>. QED
      BY <2>1, <2>2, Upwards
  <2>4. PICK m \in M : TRUE
    OBVIOUS
  <2>5. m \in 0 .. N /\ ~(m > m)
    OBVIOUS
  <2>. QED
    BY <2>3, <2>5
<1>2. \A m \in M, k \in M : k < m \/ m <= k
  OBVIOUS
<1>. QED
  BY <1>1, <1>2

(* The path of the first k items of a pattern.                              *)
LEMMA PathIs ==
  ASSUME NEW rule \in Rules, NEW k \in 1 .. Len(rule.pattern)
  PROVE  LET p == Path(rule.pattern, k)
         IN Len(p) = k /\ (IsNonterminal(p) => Name(p) \in Nonterminals)
<1> DEFINE p == Path(rule.pattern, k)
<1>1. rule.pattern \in Seq(Range(rule.pattern))
  BY TableAssumption
<1>2. Len(rule.pattern) \in Nat /\ DOMAIN rule.pattern = 1 .. Len(rule.pattern)
  BY <1>1
<1>3. k \in Nat /\ k \in 1 .. k
  BY <1>2
<1>4. p = [i \in 1 .. k |-> Step(rule.pattern[i])]
  BY DEF Path
<1>5. p = [i \in 1 .. k |-> p[i]] /\ p[k] = Step(rule.pattern[k])
  BY <1>3, <1>4
<1> HIDE DEF p
<1>6. Len(p) = k
  BY <1>3, <1>5, FunIsSeq
<1>7. Last(p) = <<rule.pattern[k].nt, rule.pattern[k].name>>
  BY <1>5, <1>6 DEF Last, Step
<1>8. rule.pattern[k].nt => rule.pattern[k].name \in Nonterminals
  BY <1>2, TableAssumption
<1>. QED
  BY <1>6, <1>7, <1>8 DEF p, IsNonterminal, Name

(* Adding a rule stops at one of its items or after the last.               *)
LEMMA FailsAtIs ==
  ASSUME NEW rule \in Rules, NEW tree
  PROVE  FailsAt(tree, rule.pattern) \in 1 .. Len(rule.pattern) + 1
<1> DEFINE pattern == rule.pattern
           fails(k) == \/ k > MaxNodes
                       \/ k = 1 /\ pattern[k].nt /\ pattern[k].rep \in {"?", "*"}
                       \/ /\ pattern[k].nt
                          /\ Path(pattern, k) \in DOMAIN tree
                          /\ tree[Path(pattern, k)].rep # pattern[k].rep
           bad == {k \in DOMAIN pattern : fails(k)}
           least == CHOOSE k \in bad : \A j \in bad : k <= j
<1>1. pattern \in Seq(Range(pattern))
  BY TableAssumption
<1>2. Len(pattern) \in Nat /\ DOMAIN pattern = 1 .. Len(pattern)
  BY <1>1
<1>3. FailsAt(tree, pattern) = IF bad = {} THEN Len(pattern) + 1 ELSE least
  BY DEF FailsAt
<1>4. bad \in SUBSET (1 .. Len(pattern))
  BY <1>2
<1> HIDE DEF bad, fails
<1>5. bad # {} => least \in bad
  BY <1>2, <1>4, Smallest
<1> HIDE DEF least
<1>6. CASE bad = {}
  BY <1>2, <1>3, <1>6
<1>7. CASE bad # {}
  <2>1. least \in 1 .. Len(pattern)
    BY <1>4, <1>5, <1>7
  <2> HIDE DEF pattern
  <2>2. least \in 1 .. Len(pattern) + 1
    BY <1>2, <2>1
  <2>. QED
    BY <1>3, <1>7, <2>2 DEF pattern
<1>. QED
  BY <1>6, <1>7

(* The nodes a rule creates are paths of its pattern, finitely many, each   *)
(* of another length.                                                       *)
LEMMA MissingIs ==
  ASSUME NEW rule \in Rules, NEW tree, NEW miss, miss = Missing(tree, rule.pattern)
  PROVE  /\ \A p \in miss : Len(p) \in Nat /\ (IsNonterminal(p) => Name(p) \in Nonterminals)
         /\ \A p, q \in miss : Len(p) = Len(q) => p = q
         /\ IsFiniteSet(miss) /\ miss \cap DOMAIN tree = {}
<1> DEFINE N == Len(rule.pattern)
<1>1. N \in Nat
  <2>1. rule.pattern \in Seq(Range(rule.pattern))
    BY TableAssumption
  <2>. QED
    BY <2>1
<1>2. FailsAt(tree, rule.pattern) \in 1 .. N + 1
  BY FailsAtIs
<1>3. \A k \in 1 .. FailsAt(tree, rule.pattern) - 1 : k \in 1 .. N
  BY <1>1, <1>2
<1>4. ASSUME NEW p \in miss
      PROVE  \E k \in 1 .. N : p = Path(rule.pattern, k) /\ Len(p) = k
                               /\ (IsNonterminal(p) => Name(p) \in Nonterminals)
  <2>1. PICK k \in 1 .. FailsAt(tree, rule.pattern) - 1 : p = Path(rule.pattern, k)
    BY DEF Missing
  <2>2. k \in 1 .. N
    BY <1>3
  <2>. QED
    BY <2>1, <2>2, PathIs
<1>5. \A p \in miss : Len(p) \in 1 .. N /\ (IsNonterminal(p) => Name(p) \in Nonterminals)
  BY <1>4
<1>6. \A p, q \in miss : Len(p) = Len(q) => p = q
  BY <1>4
<1>7. IsFiniteSet(miss)
  <2> DEFINE f == [p \in miss |-> Len(p)]
  <2> HIDE DEF N
  <2>1. f \in Injection(miss, 1 .. N)
    BY <1>5, <1>6 DEF Injection, IsInjective
  <2>2. IsFiniteSet(1 .. N)
    BY <1>1, FS_Interval
  <2>. QED
    BY <2>1, <2>2, FS_Injection
<1>8. \A p \in miss : Len(p) \in Nat
  <2> HIDE DEF N
  <2>. QED
    BY <1>1, <1>5
<1>. QED
  BY <1>5, <1>6, <1>7, <1>8 DEF Missing

(* The new nodes of a tree are numbered from id on, each differently; the   *)
(* others keep their numbers.                                               *)
Renumbered(tree, new, id, n) ==
  /\ n \in Nat /\ NamesOK(new) /\ DOMAIN tree \subseteq DOMAIN new
  /\ \A p \in DOMAIN tree : new[p].id = tree[p].id
  /\ \A p \in DOMAIN new \ DOMAIN tree : new[p].id \in id + 1 .. id + n
  /\ \A p, q \in DOMAIN new \ DOMAIN tree : new[p].id = new[q].id => p = q

(* A rule that is added gives numbers to the nodes it lacks, and changes    *)
(* no other.                                                                *)
LEMMA ExtendedIds ==
  ASSUME NEW tree, TreeShape(tree), NamesOK(tree), NEW rule \in Rules, NEW id \in Nat
  PROVE  Renumbered(tree, Extended(tree, rule, id), id, Cardinality(Missing(tree, rule.pattern)))
<1> DEFINE miss == Missing(tree, rule.pattern)
           end == Path(rule.pattern, Len(rule.pattern))
           shallower(p) == Cardinality({q \in miss : Len(q) <= Len(p)})
           node(p) == IF p \in miss THEN Node(id + shallower(p), rule.pattern[Len(p)].rep)
                      ELSE tree[p]
           ok == IsNewRule(tree, rule)
           new == Extended(tree, rule, id)
           n == Cardinality(miss)
<1>1. new = [p \in DOMAIN tree \cup miss |->
               IF p = end /\ ok THEN [node(p) EXCEPT !.accepts = TRUE] ELSE node(p)]
  BY DEF Extended
<1>2. /\ \A p \in miss : Len(p) \in Nat /\ (IsNonterminal(p) => Name(p) \in Nonterminals)
      /\ \A p, q \in miss : Len(p) = Len(q) => p = q
      /\ IsFiniteSet(miss) /\ miss \cap DOMAIN tree = {}
  BY MissingIs
<1>3. ASSUME NEW x, NodeShape(x), NEW v PROVE [x EXCEPT !.accepts = v].id = x.id
  <2>1. PICK S : x \in [id : S, rep : S, accepts : S] /\ v \in S
    <3>1. x \in [id : {x.id, x.rep, x.accepts, v}, rep : {x.id, x.rep, x.accepts, v},
                 accepts : {x.id, x.rep, x.accepts, v}]
      BY <1>3 DEF NodeShape
    <3>. QED
      BY <3>1
  <2>. QED
    BY <2>1
<1>4. ASSUME NEW p \in DOMAIN tree \cup miss PROVE NodeShape(node(p))
  BY <1>2 DEF TreeShape, NodeShape, Node
<1>5. /\ \A p \in DOMAIN tree : node(p) = tree[p]
      /\ \A p \in miss : node(p).id = id + shallower(p)
  BY <1>2 DEF Node
<1> HIDE DEF miss, end, node, ok, new, shallower
<1>6. DOMAIN new = DOMAIN tree \cup miss /\ \A p \in DOMAIN tree \cup miss : new[p].id = node(p).id
  BY <1>1, <1>3, <1>4
<1>7. n \in Nat
  BY <1>2, FS_CardinalityType
<1>8. ASSUME NEW p \in miss PROVE shallower(p) \in 1 .. n
  <2> DEFINE S == {q \in miss : Len(q) <= Len(p)}
  <2>1. S \in SUBSET miss /\ p \in S
    BY <1>2
  <2>2. IsFiniteSet(S) /\ Cardinality(S) <= n /\ Cardinality(S) \in Nat
    BY <1>2, <2>1, FS_Subset, FS_CardinalityType
  <2>3. Cardinality(S) # 0
    BY <2>1, <2>2, FS_EmptySet
  <2>4. shallower(p) = Cardinality(S)
    BY DEF shallower
  <2> HIDE DEF S, n
  <2>. QED
    BY <1>7, <2>2, <2>3, <2>4
<1>9. ASSUME NEW p \in miss, NEW q \in miss, Len(p) < Len(q) PROVE shallower(p) # shallower(q)
  <2> DEFINE S == {r \in miss : Len(r) <= Len(p)}
             T == {r \in miss : Len(r) <= Len(q)}
  <2>1. S \subseteq T
    BY <1>2, <1>9
  <2>2. q \in T /\ q \notin S
    BY <1>2, <1>9
  <2>3. IsFiniteSet(T)
    <3>1. T \in SUBSET miss
      OBVIOUS
    <3>. QED
      BY <1>2, <3>1, FS_Subset
  <2>4. Cardinality(T) # Cardinality(S)
    <3> HIDE DEF S, T
    <3>. QED
      BY <2>1, <2>2, <2>3, FS_Subset
  <2>. QED
    BY <2>4 DEF shallower
<1>10. ASSUME NEW p \in miss, NEW q \in miss, shallower(p) = shallower(q) PROVE p = q
  <2>1. Len(p) \in Nat /\ Len(q) \in Nat
    BY <1>2
  <2>2. Len(p) = Len(q)
    BY <1>9, <1>10, <2>1
  <2>. QED
    BY <1>2, <2>2
<1>11. DOMAIN new \ DOMAIN tree = miss
  BY <1>2, <1>6
<1> HIDE DEF n
<1>12. \A p \in miss : new[p].id \in id + 1 .. id + n /\ new[p].id = id + shallower(p)
  BY <1>5, <1>6, <1>7, <1>8
<1>13. \A p, q \in miss : new[p].id = new[q].id => p = q
  BY <1>7, <1>8, <1>10, <1>12
<1>14. NamesOK(new)
  BY <1>2, <1>6 DEF NamesOK
<1>15. \A p \in DOMAIN tree : new[p].id = tree[p].id
  BY <1>5, <1>6
<1>16. Renumbered(tree, new, id, n)
  BY <1>6, <1>7, <1>11, <1>12, <1>13, <1>14, <1>15 DEF Renumbered
<1>. QED
  BY <1>16 DEF new, n, miss

-----------------------------------------------------------------------------
(* What the caches rest on: nodes have numbers of their own, up to lastId,  *)
(* and a cache has only keys that were given out.                           *)
IdsInv ==
  /\ lastId \in Nat
  /\ \A c \in 1 .. Len(classes) :
       /\ NamesOK(classes[c].tree)
       /\ \A p \in DOMAIN classes[c].tree : classes[c].tree[p].id \in 1 .. lastId
  /\ \A c, d \in 1 .. Len(classes) :
       \A p \in DOMAIN classes[c].tree, q \in DOMAIN classes[d].tree :
         classes[c].tree[p].id = classes[d].tree[q].id => c = d /\ p = q

Symbols == {SymbolNumber[nt] : nt \in Nonterminals}
KeysInv ==
  \A t \in 1 .. Len(tables) : /\ DOMAIN tables[t].transitions \subseteq 1 .. lastId
                              /\ DOMAIN tables[t].firstSets \subseteq (1 .. lastId) \cup Symbols

(* CachesOnlyLag of one table, given its trees and caches.                  *)
Firsts(trees) == [nt \in Nonterminals |-> ComputeFirstSet(trees, nt)]
FirstLags(trees, sets) ==
  \A nt \in Nonterminals : SymbolNumber[nt] \in DOMAIN sets =>
    sets[SymbolNumber[nt]] \subseteq ComputeFirstSet(trees, nt)
FollowLags(trees, sets) ==
  \A nt \in Nonterminals : \A p \in DOMAIN trees[nt] :
    p # <<>> /\ IsNonterminal(p) /\ trees[nt][p].id \in DOMAIN sets =>
      sets[trees[nt][p].id] \subseteq ComputeFollowSet(trees[nt], p, Firsts(trees))
MovesLag(trees, moves) ==
  \A nt \in Nonterminals : \A p \in DOMAIN trees[nt] : trees[nt][p].id \in DOMAIN moves =>
    MoveOK(moves[trees[nt][p].id], trees[nt], p, Firsts(trees))
Lags(trees, sets, moves) ==
  FirstLags(trees, sets) /\ FollowLags(trees, sets) /\ MovesLag(trees, moves)
LagsIn(t) == Lags(TreesIn(t), tables[t].firstSets, tables[t].transitions)

CacheInv ==
  IdsInv /\ KeysInv /\ \A t \in 1 .. Len(tables) : NumbersApart(t) => LagsIn(t)

(* Caches that lag table by table, put together.                            *)
LEMMA LagIs ==
  ASSUME TypeOK, \A t \in 1 .. Len(tables) : NumbersApart(t) => LagsIn(t)
  PROVE  CachesOnlyLag
<1>1. DOMAIN tables = 1 .. Len(tables)
  BY Finite
<1>2. ASSUME NEW t \in DOMAIN tables, NumbersApart(t)
      PROVE  LET trees == TreesIn(t)
                 first == [nt \in Nonterminals |-> ComputeFirstSet(trees, nt)]
                 sets  == tables[t].firstSets
                 moves == tables[t].transitions
             IN /\ \A nt \in Nonterminals : SymbolNumber[nt] \in DOMAIN sets =>
                     sets[SymbolNumber[nt]] \subseteq first[nt]
                /\ \A nt \in Nonterminals : \A p \in DOMAIN trees[nt] :
                     LET id == trees[nt][p].id
                     IN /\ p # <<>> /\ IsNonterminal(p) /\ id \in DOMAIN sets =>
                             sets[id] \subseteq ComputeFollowSet(trees[nt], p, first)
                        /\ id \in DOMAIN moves =>
                             /\ \A x \in DOMAIN moves[id].on :
                                  /\ moves[id].on[x] \in Children(trees[nt], p)
                                  /\ x \in Leading(moves[id].on[x], first)
                             /\ ~moves[id].clear => IsAmbiguous(Children(trees[nt], p), first)
  <2> DEFINE trees == TreesIn(t)
             first == [nt \in Nonterminals |-> ComputeFirstSet(trees, nt)]
             sets  == tables[t].firstSets
             moves == tables[t].transitions
  <2>1. FirstLags(trees, sets) /\ FollowLags(trees, sets) /\ MovesLag(trees, moves)
    BY <1>1, <1>2 DEF LagsIn, Lags
  <2>2. Firsts(trees) = first /\ \A nt \in Nonterminals : first[nt] = ComputeFirstSet(trees, nt)
    BY DEF Firsts
  <2> HIDE DEF trees, first, sets, moves
  <2>3. \A nt \in Nonterminals : SymbolNumber[nt] \in DOMAIN sets =>
          sets[SymbolNumber[nt]] \subseteq first[nt]
    BY <2>1, <2>2 DEF FirstLags
  <2>4. \A nt \in Nonterminals : \A p \in DOMAIN trees[nt] :
          p # <<>> /\ IsNonterminal(p) /\ trees[nt][p].id \in DOMAIN sets =>
            sets[trees[nt][p].id] \subseteq ComputeFollowSet(trees[nt], p, first)
    BY <2>1, <2>2 DEF FollowLags
  <2>5. \A nt \in Nonterminals : \A p \in DOMAIN trees[nt] : trees[nt][p].id \in DOMAIN moves =>
          MoveOK(moves[trees[nt][p].id], trees[nt], p, first)
    BY <2>1, <2>2 DEF MovesLag
  <2>. QED
    BY <2>3, <2>4, <2>5 DEF MoveOK, trees, first, sets, moves
<1>. QED
  BY <1>2 DEF CachesOnlyLag

(* The trees a table sees.                                                  *)
LEMMA TreesAre ==
  ASSUME TypeOK, IdsInv, NEW t \in 1 .. Len(tables), NEW nt \in Nonterminals
  PROVE  /\ NamesOK(TreesIn(t)[nt])
         /\ tables[t].class[nt] \in 0 .. Len(classes)
         /\ tables[t].class[nt] = 0 => TreesIn(t)[nt] = NoTree
         /\ tables[t].class[nt] # 0 =>
              /\ tables[t].class[nt] \in 1 .. Len(classes)
              /\ TreesIn(t)[nt] = classes[tables[t].class[nt]].tree
<1> DEFINE c == tables[t].class[nt]
<1>1. c \in 0 .. Len(classes) /\ Len(classes) \in Nat
  BY Finite DEF TypeOK
<1>2. TreesIn(t)[nt] = IF c = 0 THEN NoTree ELSE classes[c].tree
  BY DEF TreesIn
<1>3. NamesOK(NoTree)
  BY DEF NamesOK, NoTree
<1> HIDE DEF c
<1>4. c # 0 => c \in 1 .. Len(classes)
  BY <1>1
<1>5. c # 0 => NamesOK(classes[c].tree)
  BY <1>4 DEF IdsInv
<1>. QED
  BY <1>1, <1>2, <1>3, <1>4, <1>5 DEF c

(* A table whose caches stay while its trees grow by new nodes.             *)
Aged(t) ==
  /\ t \in 1 .. Len(tables)
  /\ tables'[t].firstSets = tables[t].firstSets /\ tables'[t].transitions = tables[t].transitions
  /\ \A nt \in Nonterminals :
       /\ DOMAIN TreesIn(t)[nt] \subseteq DOMAIN TreesIn(t)'[nt]
       /\ \A p \in DOMAIN TreesIn(t)'[nt] :
            IF p \in DOMAIN TreesIn(t)[nt] THEN TreesIn(t)'[nt][p].id = TreesIn(t)[nt][p].id
            ELSE TreesIn(t)'[nt][p].id \notin 1 .. lastId

(* Nodes that are there already are no less apart than later ones.          *)
LEMMA AgedApart ==
  ASSUME NEW t, Aged(t), NumbersApart(t)'
  PROVE  NumbersApart(t)
<1> DEFINE T == TreesIn(t)
           U == TreesIn(t)'
<1>1. ASSUME NEW nt \in Nonterminals, NEW m \in Nonterminals, NEW q \in DOMAIN T[m],
             q # <<>>, IsNonterminal(q)
      PROVE  T[m][q].id # SymbolNumber[nt]
  <2>1. q \in DOMAIN U[m] /\ U[m][q].id = T[m][q].id
    BY DEF Aged
  <2>2. U[m][q].id # SymbolNumber[nt]
    BY <1>1, <2>1 DEF NumbersApart
  <2>. QED
    BY <2>1, <2>2
<1>. QED
  BY <1>1 DEF NumbersApart

(* A table whose caches are left alone while trees grow.                    *)
LEMMA AgedLags ==
  ASSUME TypeOK, IdsInv, KeysInv, NEW t, Aged(t), LagsIn(t), NumbersApart(t)'
  PROVE  LagsIn(t)'
<1> DEFINE T == TreesIn(t)
           U == TreesIn(t)'
           A == Firsts(T)
           B == Firsts(U)
           sets == tables[t].firstSets
           moves == tables[t].transitions
<1>1. t \in 1 .. Len(tables)
  BY DEF Aged
<1>2. Grow(T, U)
  BY <1>1, TreesAre DEF Aged, Grow
<1>3. \A nt \in Nonterminals : ComputeFirstSet(T, nt) \subseteq ComputeFirstSet(U, nt)
  <2> HIDE DEF T, U
  <2>. QED
    BY <1>2, FirstGrows
<1>4. \A nt \in Nonterminals : A[nt] = ComputeFirstSet(T, nt) /\ B[nt] = ComputeFirstSet(U, nt)
  BY DEF Firsts
<1>5. FirstLags(T, sets) /\ FollowLags(T, sets) /\ MovesLag(T, moves)
  BY DEF LagsIn, Lags
<1>6. /\ DOMAIN moves \subseteq 1 .. lastId
      /\ DOMAIN sets \subseteq (1 .. lastId) \cup Symbols
  BY <1>1 DEF KeysInv
<1>7. \A nt \in Nonterminals : \A p \in DOMAIN U[nt] : U[nt][p].id \in 1 .. lastId =>
        p \in DOMAIN T[nt] /\ U[nt][p].id = T[nt][p].id
  BY DEF Aged
<1>8. \A nt \in Nonterminals : \A p \in DOMAIN U[nt] :
        p # <<>> /\ IsNonterminal(p) => U[nt][p].id \notin Symbols
  BY DEF NumbersApart, Symbols
<1>9. ASSUME NEW nt \in Nonterminals, NEW p \in DOMAIN T[nt]
      PROVE  /\ DOMAIN T[nt] \subseteq DOMAIN U[nt]
             /\ \A q \in NonterminalsOf(T[nt], p) : A[Name(q)] \subseteq B[Name(q)]
  <2>1. \A q \in NonterminalsOf(T[nt], p) : Name(q) \in Nonterminals
    BY <1>2, NamesIn DEF Grow
  <2>. QED
    BY <1>2, <1>3, <1>4, <2>1 DEF Grow
<1> HIDE DEF T, U, A, B, sets, moves
<1>10. FirstLags(U, sets)
  BY <1>3, <1>5 DEF FirstLags
<1>11. ASSUME NEW nt \in Nonterminals, NEW p \in DOMAIN U[nt],
              p # <<>>, IsNonterminal(p), U[nt][p].id \in DOMAIN sets
       PROVE  sets[U[nt][p].id] \subseteq ComputeFollowSet(U[nt], p, B)
  <2>1. p \in DOMAIN T[nt] /\ U[nt][p].id = T[nt][p].id
    BY <1>6, <1>7, <1>8, <1>11
  <2>2. sets[T[nt][p].id] \subseteq ComputeFollowSet(T[nt], p, A)
    BY <1>5, <1>11, <2>1 DEF FollowLags, A
  <2>3. ComputeFollowSet(T[nt], p, A) \subseteq ComputeFollowSet(U[nt], p, B)
    <3> DEFINE a == T[nt]
               b == U[nt]
    <3>1. DOMAIN a \subseteq DOMAIN b /\ \A q \in NonterminalsOf(a, p) : A[Name(q)] \subseteq B[Name(q)]
      BY <1>9, <2>1
    <3> HIDE DEF a, b
    <3>2. ComputeFollowSet(a, p, A) \subseteq ComputeFollowSet(b, p, B)
      BY <3>1, FollowGrows
    <3>. QED
      BY <3>2 DEF a, b
  <2>. QED
    BY <2>1, <2>2, <2>3
<1>12. ASSUME NEW nt \in Nonterminals, NEW p \in DOMAIN U[nt], U[nt][p].id \in DOMAIN moves
       PROVE  MoveOK(moves[U[nt][p].id], U[nt], p, B)
  <2>1. p \in DOMAIN T[nt] /\ U[nt][p].id = T[nt][p].id
    BY <1>6, <1>7, <1>12
  <2> DEFINE a == T[nt]
             b == U[nt]
             move == moves[T[nt][p].id]
  <2>2. MoveOK(move, a, p, A)
    BY <1>5, <1>12, <2>1 DEF MovesLag, A
  <2>3. DOMAIN a \subseteq DOMAIN b /\ \A q \in NonterminalsOf(a, p) : A[Name(q)] \subseteq B[Name(q)]
    BY <1>9, <2>1
  <2>4. MoveOK(move, b, p, B)
    <3> HIDE DEF a, b, move
    <3>. QED
      BY <2>2, <2>3, MoveGrows
  <2>. QED
    BY <2>1, <2>4
<1>13. FollowLags(U, sets) /\ MovesLag(U, moves)
  BY <1>11, <1>12 DEF FollowLags, MovesLag, B
<1>14. tables'[t].firstSets = sets /\ tables'[t].transitions = moves
  BY DEF Aged, sets, moves
<1>15. Lags(U, sets, moves)
  BY <1>10, <1>13 DEF Lags
<1>. QED
  BY <1>14, <1>15 DEF LagsIn, U

(* A step after which every table is an aged one or has empty caches.       *)
LEMMA CachesAge ==
  ASSUME TypeOK, CacheInv, IdsInv', lastId' \in Nat, lastId' >= lastId,
         \A t \in 1 .. Len(tables') :
           Aged(t) \/ (tables'[t].firstSets = NoTree /\ tables'[t].transitions = NoTree)
  PROVE  CacheInv'
<1>1. lastId \in Nat /\ 1 .. lastId \subseteq 1 .. lastId'
  BY DEF CacheInv, IdsInv
<1>2. KeysInv'
  <2>1. ASSUME NEW t \in 1 .. Len(tables')
        PROVE  /\ DOMAIN tables'[t].transitions \subseteq 1 .. lastId'
               /\ DOMAIN tables'[t].firstSets \subseteq (1 .. lastId') \cup Symbols
    <3>1. CASE Aged(t)
      <4>1. /\ DOMAIN tables[t].transitions \subseteq 1 .. lastId
            /\ DOMAIN tables[t].firstSets \subseteq (1 .. lastId) \cup Symbols
        BY <3>1 DEF Aged, CacheInv, KeysInv
      <4>2. tables'[t].transitions = tables[t].transitions /\ tables'[t].firstSets = tables[t].firstSets
        BY <3>1 DEF Aged
      <4>. QED
        BY <1>1, <4>1, <4>2
    <3>2. CASE tables'[t].firstSets = NoTree /\ tables'[t].transitions = NoTree
      BY <3>2 DEF NoTree
    <3>. QED
      BY <3>1, <3>2
  <2>. QED
    BY <2>1 DEF KeysInv, Symbols
<1>3. ASSUME NEW t \in 1 .. Len(tables'), NumbersApart(t)' PROVE LagsIn(t)'
  <2>1. CASE Aged(t)
    <3>1. t \in 1 .. Len(tables)
      BY <2>1 DEF Aged
    <3>2. LagsIn(t)
      BY <1>3, <2>1, <3>1, AgedApart DEF CacheInv
    <3>. QED
      BY <1>3, <2>1, <3>2, AgedLags DEF CacheInv
  <2>2. CASE tables'[t].firstSets = NoTree /\ tables'[t].transitions = NoTree
    BY <2>2 DEF LagsIn, Lags, FirstLags, FollowLags, MovesLag, NoTree
  <2>. QED
    BY <2>1, <2>2
<1>. QED
  BY <1>2, <1>3 DEF CacheInv

(* Scopes that are opened and closed leave classes and caches alone.        *)
LEMMA SameCaches ==
  ASSUME TypeOK, CacheInv, UNCHANGED <<classes, lastId>>, Len(tables') = Len(tables),
         \A t \in 1 .. Len(tables) : /\ tables'[t].class = tables[t].class
                                     /\ tables'[t].firstSets = tables[t].firstSets
                                     /\ tables'[t].transitions = tables[t].transitions
  PROVE  CacheInv'
<1>1. IdsInv' /\ lastId' \in Nat /\ lastId' >= lastId
  BY DEF CacheInv, IdsInv
<1>2. \A t \in 1 .. Len(tables) : TreesIn(t)' = TreesIn(t)
  BY DEF TreesIn
<1>3. \A t \in 1 .. Len(tables) : Aged(t)
  BY <1>2 DEF Aged
<1>. QED
  BY <1>1, <1>3, CachesAge

(* The actions, one by one: scopes.                                         *)
LEMMA ScopeCaches ==
  ASSUME IInv, CacheInv, BeginScope \/ EndScope
  PROVE  CacheInv'
<1> DEFINE j == Current
           z == tables'
<1>1. PICK v : CountSet(tables, j, v, z)
  BY DEF BeginScope, EndScope, CountSet
<1>2. UNCHANGED <<classes, lastId>>
  BY DEF BeginScope, EndScope
<1>3. /\ TypeOK /\ IsSeq(tables) /\ j \in 1 .. Len(tables)
      /\ \A t \in 1 .. Len(tables) : TableShape(tables[t])
  BY Finite DEF IInv, TypeOK
<1> HIDE DEF j, z
<1>4. PICK x : /\ Replaced(tables, j, x, z) /\ x.class = tables[j].class
               /\ x.firstSets = tables[j].firstSets /\ x.transitions = tables[j].transitions
  BY <1>1, <1>3, FieldExcept, FieldsOf
<1>5. Len(z) = Len(tables) /\ z[j] = x /\ \A t \in 1 .. Len(tables) : t # j => z[t] = tables[t]
  BY <1>3, <1>4, SeqExcept
<1>. QED
  BY <1>2, <1>3, <1>4, <1>5, SameCaches DEF z

(* The initial states.                                                      *)
LEMMA InitCaches ==
  ASSUME Init
  PROVE  CacheInv
<1> DEFINE none == [nt \in Nonterminals |-> 0]
<1>1. tables = <<NewTable(none)>> /\ classes = <<>> /\ lastId = 0
  BY DEF Init
<1>2. NewTable(none).firstSets = NoTree /\ NewTable(none).transitions = NoTree
  BY DEF NewTable
<1>3. Len(tables) = 1 /\ tables[1] = NewTable(none) /\ 1 .. 1 = {1}
  <2> HIDE DEF none
  <2>. QED
    BY <1>1
<1>4. Len(classes) = 0 /\ 1 .. 0 = {}
  BY <1>1
<1> HIDE DEF none
<1>5. IdsInv
  BY <1>1, <1>4 DEF IdsInv
<1>6. DOMAIN NoTree = {}
  BY DEF NoTree
<1>7. KeysInv
  BY <1>2, <1>3, <1>6 DEF KeysInv
<1>8. LagsIn(1)
  BY <1>2, <1>3, <1>6 DEF LagsIn, Lags, FirstLags, FollowLags, MovesLag
<1>. QED
  BY <1>3, <1>5, <1>7, <1>8 DEF CacheInv

-----------------------------------------------------------------------------
(* Adding a rule: nodes get numbers that no cache knows.                    *)

(* The caches and classes of the tables.                                    *)
LEMMA GrowCaches ==
  ASSUME TypeOK, NEW nt \in Nonterminals, tables' = WithClass(nt)
  PROVE  /\ \A t \in 1 .. Len(tables) :
              /\ tables'[t].firstSets = tables[t].firstSets
              /\ tables'[t].transitions = tables[t].transitions
              /\ \A m \in Nonterminals :
                   \/ tables'[t].class[m] = tables[t].class[m]
                   \/ /\ tables[t].class[m] = 0 /\ IsNewClass(nt)
                      /\ tables'[t].class[m] = Len(classes) + 1
         /\ \A t \in 1 .. Len(tables') : t \notin 1 .. Len(tables) =>
              tables'[t].firstSets = NoTree /\ tables'[t].transitions = NoTree
<1> DEFINE m == Len(tables)
           o == OwnTable
           F == ForkedTables
           v == [F[o].class EXCEPT ![nt] = ClassOf(nt)]
           z == tables'
           x == NewTable(tables[Current].class)
<1>1. /\ IsSeq(tables) /\ m \in Nat /\ Current \in 1 .. m
      /\ \A t \in 1 .. m : TableShape(tables[t])
      /\ tables[Current].class \in [Nonterminals -> 0 .. Len(classes)]
  BY Finite DEF TypeOK
<1>2. ClassSet(F, o, v, z)
  BY DEF ClassSet, WithClass
<1>3. TableShape(x) /\ x.class = tables[Current].class /\ x.firstSets = NoTree /\ x.transitions = NoTree
  BY DEF NewTable, TableShape
<1> HIDE DEF x
<1>4. CASE Forks
  <2>1. o = m + 1 /\ F = Append(tables, x)
    BY <1>4 DEF OwnTable, ForkedTables, x
  <2> HIDE DEF F, o, v, z
  <2>2. IsSeq(F) /\ Len(F) = m + 1 /\ F[m + 1] = x /\ \A t \in 1 .. m : F[t] = tables[t]
    BY <2>1, <1>1, SeqFacts
  <2>3. o \in 1 .. Len(F) /\ TableShape(F[o]) /\ F[o] = x
    BY <1>1, <1>3, <2>1, <2>2
  <2>4. PICK y : Replaced(F, o, y, z) /\ y.firstSets = F[o].firstSets /\ y.transitions = F[o].transitions
    BY <1>2, <2>3, FieldExcept, FieldsOf
  <2>5. Len(z) = Len(F) /\ z[o] = y /\ \A k \in 1 .. Len(F) : k # o => z[k] = F[k]
    BY <2>2, <2>3, <2>4, SeqExcept
  <2>6. ASSUME NEW t \in 1 .. m PROVE z[t] = tables[t]
    <3>1. t \in 1 .. Len(F) /\ t # o
      BY <1>1, <2>1, <2>2
    <3>. QED
      BY <2>2, <2>5, <3>1
  <2>7. ASSUME NEW t \in 1 .. Len(z), t \notin 1 .. m PROVE z[t] = y
    <3>1. t = o
      BY <1>1, <2>1, <2>2, <2>5, <2>7
    <3>. QED
      BY <2>5, <3>1
  <2>8. y.firstSets = NoTree /\ y.transitions = NoTree
    BY <1>3, <2>3, <2>4
  <2>. QED
    BY <2>6, <2>7, <2>8 DEF z
<1>5. CASE ~Forks
  <2>1. o = Current /\ F = tables
    BY <1>5 DEF OwnTable, ForkedTables
  <2>2. v = [tables[Current].class EXCEPT ![nt] = ClassOf(nt)]
    BY <2>1
  <2>3. \A k \in Nonterminals : v[k] = IF k = nt THEN ClassOf(nt) ELSE tables[Current].class[k]
    BY <1>1, <2>2
  <2> HIDE DEF F, o, v, z
  <2>4. PICK y : /\ Replaced(F, o, y, z) /\ y.firstSets = F[o].firstSets
                 /\ y.transitions = F[o].transitions /\ y.class = v
    BY <1>1, <1>2, <2>1, FieldExcept, FieldsOf
  <2>5. Len(z) = m /\ z[o] = y /\ \A k \in 1 .. m : k # o => z[k] = tables[k]
    BY <1>1, <2>1, <2>4, SeqExcept
  <2>6. ASSUME NEW k \in Nonterminals
        PROVE  \/ v[k] = tables[Current].class[k]
               \/ tables[Current].class[k] = 0 /\ IsNewClass(nt) /\ v[k] = Len(classes) + 1
    BY <2>3 DEF ClassOf, IsNewClass
  <2>7. ASSUME NEW t \in 1 .. m
        PROVE  /\ z[t].firstSets = tables[t].firstSets
               /\ z[t].transitions = tables[t].transitions
               /\ \A k \in Nonterminals :
                    \/ z[t].class[k] = tables[t].class[k]
                    \/ /\ tables[t].class[k] = 0 /\ IsNewClass(nt)
                       /\ z[t].class[k] = Len(classes) + 1
    <3>1. CASE t = o
      BY <2>1, <2>4, <2>5, <2>6, <3>1
    <3>2. CASE t # o
      BY <2>5, <3>2
    <3>. QED
      BY <3>1, <3>2
  <2>. QED
    BY <2>5, <2>7 DEF z
<1>. QED
  BY <1>4, <1>5

(* The nodes of classes: the old ones, with their numbers, and new ones of  *)
(* one class, with numbers past those given so far.                         *)
IsOld(d, p) == d \in 1 .. Len(classes) /\ p \in DOMAIN classes[d].tree
NodesGrow ==
  /\ lastId' \in Nat /\ lastId' >= lastId
  /\ \A d \in 1 .. Len(classes) : d \in 1 .. Len(classes') /\ DOMAIN classes[d].tree \subseteq DOMAIN classes'[d].tree
  /\ \A d \in 1 .. Len(classes') : \A p \in DOMAIN classes'[d].tree :
       IF IsOld(d, p) THEN classes'[d].tree[p].id = classes[d].tree[p].id
       ELSE classes'[d].tree[p].id \in lastId + 1 .. lastId'
  /\ \A d \in 1 .. Len(classes') : NamesOK(classes'[d].tree)

(* Adding a rule, as far as the nodes go.                                   *)
LEMMA GrowNodes ==
  ASSUME TypeOK, IdsInv, NEW rule \in Rules, NEW first, NEW base,
         first = IF IsNewClass(rule.class) THEN lastId + 1 ELSE lastId,
         base = ClassesWith(rule.class)[ClassOf(rule.class)].tree,
         classes' = [ClassesWith(rule.class) EXCEPT ![ClassOf(rule.class)].tree =
                       Extended(base, rule, first)],
         lastId' = first + Cardinality(Missing(base, rule.pattern))
  PROVE  NodesGrow /\ IdsInv'
<1> DEFINE nt == rule.class
           G == ClassesWith(nt)
           c == ClassOf(nt)
           new == Extended(base, rule, first)
           n == Cardinality(Missing(base, rule.pattern))
           z == classes'
           k == Len(classes)
<1>1. nt \in Nonterminals /\ k \in Nat /\ lastId \in Nat /\ first \in Nat
  BY TableAssumption, Finite DEF IdsInv
<1>2. /\ IsSeq(G) /\ Len(G) = (IF IsNewClass(nt) THEN k + 1 ELSE k)
      /\ c \in 1 .. Len(G)
      /\ \A d \in 1 .. Len(G) : ClassShape(G[d]) /\ TreeShape(G[d].tree)
      /\ \A d \in 1 .. k : G[d].tree = classes[d].tree
  <2> HIDE DEF nt
  <2>. QED
    BY <1>1, ForkClasses
<1>3. IsNewClass(nt) => c = k + 1 /\ base = NewTree(lastId + 1)
  <2>1. SUFFICES ASSUME IsNewClass(nt) PROVE c = k + 1 /\ base = NewTree(lastId + 1)
    OBVIOUS
  <2> DEFINE x == [count |-> 1, tree |-> NewTree(lastId + 1)]
  <2>2. c = k + 1 /\ G = Append(ForkedClasses, x)
    BY <2>1 DEF ClassOf, ClassesWith
  <2>3. x.tree = NewTree(lastId + 1)
    OBVIOUS
  <2>4. IsSeq(ForkedClasses) /\ Len(ForkedClasses) = k
    <3>1. DOMAIN classes = 1 .. k
      BY Finite
    <3>2. ForkedClasses = [d \in 1 .. k |-> ForkedClasses[d]]
      BY <3>1 DEF ForkedClasses
    <3>. QED
      BY <1>1, <3>2, FunIsSeq
  <2> HIDE DEF x
  <2>5. G[k + 1] = x
    <3> HIDE DEF G
    <3>. QED
      BY <2>2, <2>4, SeqFacts
  <2>. QED
    BY <2>2, <2>3, <2>5
<1>4. ~IsNewClass(nt) => c \in 1 .. k
  BY <1>2
<1>5. IsNewClass(nt) => DOMAIN base = {<<>>} /\ base[<<>>].id = lastId + 1 /\ NamesOK(base)
  <2>1. DOMAIN NewTree(lastId + 1) = {<<>>} /\ NewTree(lastId + 1)[<<>>].id = lastId + 1
    BY DEF NewTree, Node
  <2>2. Len(<<>>) = 0
    OBVIOUS
  <2>. QED
    BY <1>3, <2>1, <2>2 DEF NamesOK
<1>6. ~IsNewClass(nt) => base = classes[c].tree /\ NamesOK(base)
  BY <1>2, <1>4 DEF IdsInv
<1>7. Renumbered(base, new, first, n)
  <2>1. TreeShape(base) /\ NamesOK(base)
    BY <1>2, <1>5, <1>6
  <2>. QED
    BY <1>1, <2>1, ExtendedIds
<1>8. TreeSet(G, c, new, z)
  BY DEF TreeSet
<1>9. lastId' = first + n
  OBVIOUS
<1>10. first = IF IsNewClass(nt) THEN lastId + 1 ELSE lastId
  OBVIOUS
<1> HIDE DEF nt, G, c, new, z, n
<1>11. Len(z) = Len(G) /\ z[c].tree = new /\ \A d \in 1 .. Len(G) : d # c => z[d] = G[d]
  BY <1>2, <1>8, TreeChanged
<1>12. n \in Nat /\ lastId' \in Nat /\ lastId' >= first /\ first >= lastId
  BY <1>1, <1>7, <1>9, <1>10 DEF Renumbered
<1>13. \A d \in 1 .. k : d \in 1 .. Len(z)
  BY <1>1, <1>2, <1>11
<1>14. \A d \in 1 .. Len(z) : d # c => d \in 1 .. k /\ z[d].tree = classes[d].tree
  <2>1. \A d \in 1 .. Len(G) : d # c => d \in 1 .. k
    BY <1>1, <1>2, <1>3
  <2>. QED
    BY <1>2, <1>11, <2>1
<1>15. /\ NamesOK(new) /\ DOMAIN base \subseteq DOMAIN new
       /\ \A p \in DOMAIN base : new[p].id = base[p].id
       /\ \A p \in DOMAIN new \ DOMAIN base : new[p].id \in first + 1 .. first + n
       /\ \A p, q \in DOMAIN new \ DOMAIN base : new[p].id = new[q].id => p = q
  BY <1>7 DEF Renumbered
<1>16. \A i \in first + 1 .. first + n : i \in lastId + 1 .. lastId' /\ i # first
  BY <1>1, <1>9, <1>10, <1>12
<1>17. ASSUME NEW p \in DOMAIN new
       PROVE  IF IsOld(c, p) THEN new[p].id = classes[c].tree[p].id
              ELSE new[p].id \in lastId + 1 .. lastId'
  <2>1. CASE IsNewClass(nt)
    <3>1. ~IsOld(c, p)
      BY <1>1, <1>3, <2>1 DEF IsOld
    <3>2. CASE p \in DOMAIN base
      <4>1. new[p].id = first /\ first = lastId + 1
        BY <1>5, <1>10, <1>15, <2>1, <3>2
      <4>. QED
        BY <1>1, <1>12, <3>1, <4>1
    <3>3. CASE p \notin DOMAIN base
      BY <1>15, <1>16, <3>1, <3>3
    <3>. QED
      BY <3>2, <3>3
  <2>2. CASE ~IsNewClass(nt)
    <3>1. IsOld(c, p) <=> p \in DOMAIN base
      BY <1>4, <1>6, <2>2 DEF IsOld
    <3>. QED
      BY <1>6, <1>15, <1>16, <2>2, <3>1
  <2>. QED
    BY <2>1, <2>2
<1>18. ASSUME NEW p \in DOMAIN new, NEW q \in DOMAIN new, ~IsOld(c, p), ~IsOld(c, q),
              new[p].id = new[q].id
       PROVE  p = q
  <2>1. CASE IsNewClass(nt)
    <3>1. \A r \in DOMAIN base : r = <<>> /\ new[r].id = first
      BY <1>5, <1>10, <1>15, <2>1
    <3>2. \A r \in DOMAIN new \ DOMAIN base : new[r].id # first
      BY <1>15, <1>16
    <3>. QED
      BY <1>15, <1>18, <3>1, <3>2
  <2>2. CASE ~IsNewClass(nt)
    <3>1. p \notin DOMAIN base /\ q \notin DOMAIN base
      BY <1>4, <1>6, <1>18, <2>2 DEF IsOld
    <3>. QED
      BY <1>15, <1>18, <3>1
  <2>. QED
    BY <2>1, <2>2
<1>19. ASSUME NEW d \in 1 .. Len(z), NEW p \in DOMAIN z[d].tree
       PROVE  /\ IF IsOld(d, p) THEN z[d].tree[p].id = classes[d].tree[p].id
                 ELSE z[d].tree[p].id \in lastId + 1 .. lastId'
              /\ ~IsOld(d, p) => d = c
  <2>1. CASE d = c
    BY <1>11, <1>17, <2>1
  <2>2. CASE d # c
    BY <1>14, <2>2 DEF IsOld
  <2>. QED
    BY <2>1, <2>2
<1>20. \A d \in 1 .. Len(z) : NamesOK(z[d].tree)
  BY <1>11, <1>14, <1>15 DEF IdsInv
<1>21. \A d \in 1 .. k : DOMAIN classes[d].tree \subseteq DOMAIN z[d].tree
  <2>1. ASSUME NEW d \in 1 .. k PROVE DOMAIN classes[d].tree \subseteq DOMAIN z[d].tree
    <3>1. CASE d = c
      <4>1. ~IsNewClass(nt)
        BY <1>1, <1>3, <3>1
      <4>. QED
        BY <1>6, <1>11, <1>15, <3>1, <4>1
    <3>2. CASE d # c
      BY <1>13, <1>14, <3>2
    <3>. QED
      BY <3>1, <3>2
  <2>. QED
    BY <2>1
<1>22. NodesGrow
  <2>1. lastId' \in Nat /\ lastId' >= lastId
    BY <1>1, <1>12
  <2>2. \A d \in 1 .. Len(classes) :
          d \in 1 .. Len(classes') /\ DOMAIN classes[d].tree \subseteq DOMAIN classes'[d].tree
    BY <1>13, <1>21 DEF z
  <2>3. \A d \in 1 .. Len(classes') : \A p \in DOMAIN classes'[d].tree :
          IF IsOld(d, p) THEN classes'[d].tree[p].id = classes[d].tree[p].id
          ELSE classes'[d].tree[p].id \in lastId + 1 .. lastId'
    BY <1>19 DEF z
  <2>4. \A d \in 1 .. Len(classes') : NamesOK(classes'[d].tree)
    BY <1>20 DEF z
  <2>. QED
    BY ONLY <2>1, <2>2, <2>3, <2>4 DEF NodesGrow
<1>23. \A d \in 1 .. Len(z) : \A p \in DOMAIN z[d].tree : z[d].tree[p].id \in 1 .. lastId'
  <2>1. ASSUME NEW d \in 1 .. Len(z), NEW p \in DOMAIN z[d].tree PROVE z[d].tree[p].id \in 1 .. lastId'
    <3>1. CASE IsOld(d, p)
      <4>1. z[d].tree[p].id \in 1 .. lastId
        BY <1>19, <3>1 DEF IsOld, IdsInv
      <4>. QED
        BY <1>1, <1>12, <4>1
    <3>2. CASE ~IsOld(d, p)
      BY <1>1, <1>12, <1>19, <3>2
    <3>. QED
      BY <3>1, <3>2
  <2>. QED
    BY <2>1
<1>24. ASSUME NEW d \in 1 .. Len(z), NEW e \in 1 .. Len(z),
              NEW p \in DOMAIN z[d].tree, NEW q \in DOMAIN z[e].tree,
              z[d].tree[p].id = z[e].tree[q].id
       PROVE  d = e /\ p = q
  <2>1. IsOld(d, p) => z[d].tree[p].id \in 1 .. lastId
    BY <1>19 DEF IsOld, IdsInv
  <2>2. IsOld(e, q) => z[e].tree[q].id \in 1 .. lastId
    BY <1>19 DEF IsOld, IdsInv
  <2>3. \A i \in lastId + 1 .. lastId' : i \notin 1 .. lastId
    BY <1>1, <1>12
  <2>4. IsOld(d, p) <=> IsOld(e, q)
    BY <1>19, <1>24, <2>1, <2>2, <2>3
  <2>5. CASE IsOld(d, p)
    <3>1. classes[d].tree[p].id = classes[e].tree[q].id
      BY <1>19, <1>24, <2>4, <2>5
    <3>. QED
      BY <2>4, <2>5, <3>1 DEF IsOld, IdsInv
  <2>6. CASE ~IsOld(d, p)
    <3>1. d = c /\ e = c
      BY <1>19, <2>4, <2>6
    <3>. QED
      BY <1>11, <1>18, <1>24, <2>4, <2>6, <3>1
  <2>. QED
    BY <2>5, <2>6
<1>25. IdsInv'
  BY <1>12, <1>20, <1>23, <1>24 DEF IdsInv, z
<1>. QED
  BY <1>22, <1>25

(* Adding a rule.                                                           *)
LEMMA AddRuleCaches ==
  ASSUME IInv, CacheInv, IInv', NEW rule \in Rules, AddRule(rule)
  PROVE  CacheInv'
<1> DEFINE nt == rule.class
           c == ClassOf(nt)
           cls == ClassesWith(nt)[c]
           first == IF IsNewClass(nt) THEN lastId + 1 ELSE lastId
           k == Len(classes)
<1>1. CASE CloneFails(cls, rule.pattern)
  <2>1. UNCHANGED <<tables, classes, lastId>>
    BY <1>1 DEF AddRule
  <2>. QED
    BY <2>1, SameCaches DEF IInv
<1>2. CASE ~CloneFails(cls, rule.pattern)
  <2>1. /\ tables' = WithClass(nt)
        /\ classes' = [ClassesWith(nt) EXCEPT ![c].tree = Extended(cls.tree, rule, first)]
        /\ lastId' = first + Cardinality(Missing(cls.tree, rule.pattern))
    BY <1>2 DEF AddRule
  <2>2. TypeOK /\ IdsInv /\ nt \in Nonterminals /\ k \in Nat /\ lastId \in Nat /\ TypeOK'
    BY TableAssumption, Finite DEF IInv, CacheInv, IdsInv
  <2>3. NodesGrow /\ IdsInv'
    <3> DEFINE f == first
               b == cls.tree
    <3>1. /\ f = IF IsNewClass(rule.class) THEN lastId + 1 ELSE lastId
          /\ b = ClassesWith(rule.class)[ClassOf(rule.class)].tree
          /\ classes' = [ClassesWith(rule.class) EXCEPT ![ClassOf(rule.class)].tree = Extended(b, rule, f)]
          /\ lastId' = f + Cardinality(Missing(b, rule.pattern))
      BY <2>1
    <3> HIDE DEF f, b
    <3>. QED
      BY <2>2, <3>1, GrowNodes
  <2> HIDE DEF first, cls, c
  <2>4. /\ \A t \in 1 .. Len(tables) :
              /\ tables'[t].firstSets = tables[t].firstSets
              /\ tables'[t].transitions = tables[t].transitions
              /\ \A m \in Nonterminals :
                   \/ tables'[t].class[m] = tables[t].class[m]
                   \/ /\ tables[t].class[m] = 0 /\ IsNewClass(nt)
                      /\ tables'[t].class[m] = k + 1
        /\ \A t \in 1 .. Len(tables') : t \notin 1 .. Len(tables) =>
             tables'[t].firstSets = NoTree /\ tables'[t].transitions = NoTree
    <3> HIDE DEF nt
    <3>. QED
      BY <2>1, <2>2, GrowCaches
  <2>5. /\ lastId' \in Nat /\ lastId' >= lastId
        /\ \A d \in 1 .. k : d \in 1 .. Len(classes') /\ DOMAIN classes[d].tree \subseteq DOMAIN classes'[d].tree
        /\ \A d \in 1 .. Len(classes') : \A p \in DOMAIN classes'[d].tree :
             IF IsOld(d, p) THEN classes'[d].tree[p].id = classes[d].tree[p].id
             ELSE classes'[d].tree[p].id \in lastId + 1 .. lastId'
    BY <2>3 DEF NodesGrow
  <2>6. \A i \in lastId + 1 .. lastId' : i \notin 1 .. lastId
    BY <2>2, <2>5
  <2>7. ASSUME NEW t \in 1 .. Len(tables), t \in 1 .. Len(tables') PROVE Aged(t)
    <3>1. ASSUME NEW m \in Nonterminals
          PROVE  /\ DOMAIN TreesIn(t)[m] \subseteq DOMAIN TreesIn(t)'[m]
                 /\ \A p \in DOMAIN TreesIn(t)'[m] :
                      IF p \in DOMAIN TreesIn(t)[m] THEN TreesIn(t)'[m][p].id = TreesIn(t)[m][p].id
                      ELSE TreesIn(t)'[m][p].id \notin 1 .. lastId
      <4> DEFINE a == tables[t].class[m]
                 b == tables'[t].class[m]
                 T == TreesIn(t)[m]
                 U == TreesIn(t)'[m]
      <4>1. a \in 0 .. k /\ (a = 0 => T = NoTree) /\ (a # 0 => a \in 1 .. k /\ T = classes[a].tree)
        BY <2>2, TreesAre
      <4>2. b \in 0 .. Len(classes')
        BY <2>2, <2>7 DEF TypeOK
      <4>3. (b = 0 => U = NoTree) /\ (b # 0 => U = classes'[b].tree)
        BY DEF TreesIn
      <4>4. a = b \/ (a = 0 /\ b = k + 1)
        BY <2>4
      <4>5. DOMAIN NoTree = {}
        BY DEF NoTree
      <4> HIDE DEF a, b, T, U
      <4>6. CASE a = b /\ a = 0
        <5>1. T = NoTree /\ U = NoTree
          BY <4>1, <4>3, <4>6
        <5>. QED
          BY <4>5, <5>1 DEF T, U
      <4>7. CASE a = b /\ a # 0
        <5>1. T = classes[a].tree /\ U = classes'[a].tree /\ a \in 1 .. k /\ a \in 1 .. Len(classes')
          BY <2>5, <4>1, <4>3, <4>7
        <5>2. \A p : IsOld(a, p) <=> p \in DOMAIN T
          BY <5>1 DEF IsOld
        <5>3. DOMAIN T \subseteq DOMAIN U
          BY <2>5, <5>1
        <5>4. \A p \in DOMAIN U :
                IF p \in DOMAIN T THEN U[p].id = T[p].id ELSE U[p].id \notin 1 .. lastId
          BY <2>5, <2>6, <5>1, <5>2
        <5>. QED
          BY <5>3, <5>4 DEF T, U
      <4>8. CASE a = 0 /\ b = k + 1
        <5>1. T = NoTree /\ b # 0 /\ b \notin 1 .. k
          BY <2>2, <4>1, <4>8
        <5>2. b \in 1 .. Len(classes') /\ U = classes'[b].tree
          <6>1. Len(classes') \in Nat
            BY <2>2 DEF TypeOK, IsSeq
          <6>. QED
            BY <4>2, <4>3, <5>1, <6>1
        <5>3. \A p \in DOMAIN U : U[p].id \notin 1 .. lastId
          BY <2>5, <2>6, <5>1, <5>2 DEF IsOld
        <5>. QED
          BY <4>5, <5>1, <5>3 DEF T, U
      <4>. QED
        BY <4>4, <4>6, <4>7, <4>8
    <3>. QED
      BY <2>4, <3>1 DEF Aged
  <2>8. \A t \in 1 .. Len(tables') :
          Aged(t) \/ (tables'[t].firstSets = NoTree /\ tables'[t].transitions = NoTree)
    <3>1. ASSUME NEW t \in 1 .. Len(tables'), t \in 1 .. Len(tables) PROVE Aged(t)
      BY <2>7, <3>1
    <3>2. ASSUME NEW t \in 1 .. Len(tables'), t \notin 1 .. Len(tables)
          PROVE  tables'[t].firstSets = NoTree /\ tables'[t].transitions = NoTree
      BY <2>4, <3>2
    <3>. QED
      BY <3>1, <3>2
  <2>. QED
    BY <2>2, <2>3, <2>5, <2>8, CachesAge
<1>. QED
  BY <1>1, <1>2

-----------------------------------------------------------------------------
(* Asking: what a cache is given is what the trees say now, or came from a  *)
(* cache.                                                                   *)

(* GetFirstSet: the sets it returns and the cache it leaves.                *)
LEMMA FirstLag ==
  ASSUME NumbersApart(Current), FirstLags(TreesIn(Current), tables[Current].firstSets),
         FollowLags(TreesIn(Current), tables[Current].firstSets), NEW nts \in SUBSET Nonterminals
  PROVE  /\ \A nt \in nts : First(nts)[nt] \subseteq Firsts(TreesIn(Current))[nt]
         /\ FirstLags(TreesIn(Current), FirstSetsWith(nts))
         /\ FollowLags(TreesIn(Current), FirstSetsWith(nts))
<1> DEFINE old == tables[Current].firstSets
           trees == TreesIn(Current)
           new == {nt \in nts : SymbolNumber[nt] \notin DOMAIN old}
           f == FirstSetsWith(nts)
<1>1. FirstLags(trees, old) /\ FollowLags(trees, old)
  OBVIOUS
<1>2. f = [n \in DOMAIN old \cup {SymbolNumber[nt] : nt \in new} |->
             IF n \in DOMAIN old THEN old[n]
             ELSE ComputeFirstSet(trees, CHOOSE nt \in new : SymbolNumber[nt] = n)]
  BY DEF FirstSetsWith
<1>3. First(nts) = [nt \in nts |-> IF SymbolNumber[nt] \in DOMAIN old THEN old[SymbolNumber[nt]]
                                   ELSE ComputeFirstSet(trees, nt)]
  BY DEF First
<1>4. \A m \in Nonterminals : \A q \in DOMAIN trees[m] :
        q # <<>> /\ IsNonterminal(q) => trees[m][q].id \notin Symbols
  BY DEF NumbersApart, Symbols
<1>5. new \subseteq Nonterminals /\ {SymbolNumber[nt] : nt \in new} \subseteq Symbols
  BY DEF Symbols
<1> HIDE DEF old, trees, new, f
<1>6. \A nt \in nts : First(nts)[nt] \subseteq Firsts(trees)[nt]
  BY <1>1, <1>3 DEF FirstLags, Firsts
<1>7. ASSUME NEW nt \in Nonterminals, SymbolNumber[nt] \in DOMAIN f
      PROVE  f[SymbolNumber[nt]] \subseteq ComputeFirstSet(trees, nt)
  <2> DEFINE n == SymbolNumber[nt]
             m == CHOOSE x \in new : SymbolNumber[x] = n
  <2>1. n \in DOMAIN old \cup {SymbolNumber[x] : x \in new}
    BY <1>2, <1>7
  <2>2. CASE n \in DOMAIN old
    <3>1. f[n] = old[n]
      BY <1>2, <2>1, <2>2
    <3>. QED
      BY <1>1, <2>2, <3>1 DEF FirstLags
  <2>3. CASE n \notin DOMAIN old
    <3>1. \E x \in new : SymbolNumber[x] = n
      BY <2>1, <2>3
    <3>2. m \in new /\ SymbolNumber[m] = n
      BY <3>1
    <3>3. m = nt
      BY <1>5, <3>2, TableAssumption
    <3>4. f[n] = ComputeFirstSet(trees, m)
      BY <1>2, <2>1, <2>3
    <3>. QED
      BY <3>3, <3>4
  <2>. QED
    BY <2>2, <2>3
<1>8. ASSUME NEW m \in Nonterminals, NEW q \in DOMAIN trees[m],
             q # <<>>, IsNonterminal(q), trees[m][q].id \in DOMAIN f
      PROVE  f[trees[m][q].id] \subseteq ComputeFollowSet(trees[m], q, Firsts(trees))
  <2>1. trees[m][q].id \in DOMAIN old
    BY <1>2, <1>4, <1>5, <1>8
  <2>2. f[trees[m][q].id] = old[trees[m][q].id]
    BY <1>2, <2>1
  <2>. QED
    BY <1>1, <1>8, <2>1, <2>2 DEF FollowLags
<1>9. FirstLags(trees, f) /\ FollowLags(trees, f)
  BY <1>7, <1>8 DEF FirstLags, FollowLags
<1>. QED
  BY <1>6, <1>9 DEF trees, f

(* The keys it leaves.                                                      *)
LEMMA FirstKeys ==
  ASSUME TypeOK, KeysInv, NEW nts \in SUBSET Nonterminals
  PROVE  DOMAIN FirstSetsWith(nts) \subseteq (1 .. lastId) \cup Symbols
<1> DEFINE old == tables[Current].firstSets
           new == {nt \in nts : SymbolNumber[nt] \notin DOMAIN old}
<1>1. DOMAIN FirstSetsWith(nts) = DOMAIN old \cup {SymbolNumber[nt] : nt \in new}
  BY DEF FirstSetsWith
<1>2. DOMAIN old \subseteq (1 .. lastId) \cup Symbols
  BY Finite DEF KeysInv
<1>3. {SymbolNumber[nt] : nt \in new} \subseteq Symbols
  BY DEF Symbols
<1>. QED
  BY <1>1, <1>2, <1>3

(* A node the parser can be at.                                             *)
LEMMA NodeIs ==
  ASSUME TypeOK, NEW n \in Nodes
  PROVE  n[1] \in 1 .. Len(classes) /\ n[2] \in DOMAIN classes[n[1]].tree
<1>1. PICK nt \in Nonterminals : n[1] = tables[Current].class[nt]
  BY DEF Nodes
<1>2. n[1] \in 0 .. Len(classes) /\ n[1] # 0 /\ Len(classes) \in Nat
  BY <1>1, Finite DEF TypeOK, Nodes
<1>3. n[1] \in 1 .. Len(classes)
  BY <1>2
<1>. QED
  BY <1>3 DEF Nodes

(* Putting into a cache.                                                    *)
LEMMA PutIs ==
  ASSUME NEW f, NEW k, NEW v
  PROVE  /\ DOMAIN Put(f, k, v) = DOMAIN f \cup {k}
         /\ \A x \in DOMAIN f : Put(f, k, v)[x] = f[x]
         /\ k \notin DOMAIN f => Put(f, k, v)[k] = v
  BY DEF Put

(* A step that only gives the current table other caches.                   *)
LEMMA CachesSet ==
  ASSUME IInv, CacheInv, UNCHANGED <<classes, lastId>>,
         Len(tables') = Len(tables),
         \A t \in 1 .. Len(tables) : /\ tables'[t].class = tables[t].class
                                     /\ t # Current => tables'[t] = tables[t],
         DOMAIN tables'[Current].transitions \subseteq 1 .. lastId,
         DOMAIN tables'[Current].firstSets \subseteq (1 .. lastId) \cup Symbols,
         NumbersApart(Current) /\ LagsIn(Current) =>
           Lags(TreesIn(Current), tables'[Current].firstSets, tables'[Current].transitions)
  PROVE  CacheInv'
<1> DEFINE j == Current
<1>1. TypeOK /\ j \in 1 .. Len(tables)
  BY Finite DEF IInv
<1>2. IdsInv'
  BY DEF CacheInv, IdsInv
<1>3. \A t \in 1 .. Len(tables) : TreesIn(t)' = TreesIn(t)
  BY DEF TreesIn
<1>4. KeysInv'
  BY DEF CacheInv, KeysInv, Symbols
<1>5. ASSUME NEW t \in 1 .. Len(tables), NumbersApart(t)' PROVE LagsIn(t)'
  <2>1. TreesIn(t)' = TreesIn(t)
    BY <1>3
  <2>2. NumbersApart(t)
    BY <1>5, <2>1 DEF NumbersApart
  <2>3. LagsIn(t)
    BY <2>2 DEF CacheInv
  <2>4. CASE t # j
    <3>1. tables'[t] = tables[t]
      BY <2>4
    <3>. QED
      BY <2>1, <2>3, <3>1 DEF LagsIn
  <2>5. CASE t = j
    <3>1. Lags(TreesIn(t), tables'[t].firstSets, tables'[t].transitions)
      BY <2>2, <2>3, <2>5
    <3>. QED
      BY <2>1, <3>1 DEF LagsIn
  <2>. QED
    BY <2>4, <2>5
<1>. QED
  BY <1>2, <1>4, <1>5 DEF CacheInv

(* The node of a table that has the number of the node p of class c.        *)
LEMMA SameNode ==
  ASSUME TypeOK, IdsInv, NEW t \in 1 .. Len(tables), NEW nt \in Nonterminals,
         NEW q \in DOMAIN TreesIn(t)[nt], NEW c \in 1 .. Len(classes), NEW p \in DOMAIN classes[c].tree,
         TreesIn(t)[nt][q].id = classes[c].tree[p].id
  PROVE  TreesIn(t)[nt] = classes[c].tree /\ q = p
<1> DEFINE d == tables[t].class[nt]
<1>1. d \in 1 .. Len(classes) /\ TreesIn(t)[nt] = classes[d].tree
  <2>1. TreesIn(t)[nt] # NoTree
    BY DEF NoTree
  <2>. QED
    BY <2>1, TreesAre
<1>2. classes[d].tree[q].id = classes[c].tree[p].id /\ q \in DOMAIN classes[d].tree
  BY <1>1
<1> HIDE DEF d
<1>3. d = c /\ q = p
  BY <1>1, <1>2 DEF IdsInv
<1>. QED
  BY <1>1, <1>3

(* What a caller is told of the names below a node.                         *)
LEMMA KidsIn ==
  ASSUME IInv, CacheInv, NEW n \in Nodes
  PROVE  /\ n[1] \in 1 .. Len(classes) /\ n[2] \in DOMAIN classes[n[1]].tree
         /\ classes[n[1]].tree[n[2]].id \in 1 .. lastId
         /\ {Name(q) : q \in NonterminalsOf(classes[n[1]].tree, n[2])} \subseteq Nonterminals
<1>1. TypeOK /\ IdsInv
  BY DEF IInv, CacheInv
<1>2. n[1] \in 1 .. Len(classes) /\ n[2] \in DOMAIN classes[n[1]].tree
  BY <1>1, NodeIs
<1> DEFINE tree == classes[n[1]].tree
<1>3. NamesOK(tree) /\ tree[n[2]].id \in 1 .. lastId
  BY <1>1, <1>2 DEF IdsInv
<1>4. \A q \in NonterminalsOf(tree, n[2]) : Name(q) \in Nonterminals
  <2> HIDE DEF tree
  <2>. QED
    BY <1>2, <1>3, NamesIn DEF tree
<1>. QED
  BY <1>2, <1>3, <1>4

(* Asking for the moves of a node.                                          *)
LEMMA ConsultCaches ==
  ASSUME IInv, CacheInv, NEW n \in Nodes, Consult(n[1], n[2])
  PROVE  CacheInv'
<1> DEFINE j == Current
           c == n[1]
           p == n[2]
           tree == classes[c].tree
           id == tree[p].id
           kids == NonterminalsOf(tree, p)
           names == {Name(q) : q \in kids}
           old == tables[j].transitions
<1>1. /\ TypeOK /\ IsSeq(tables) /\ j \in 1 .. Len(tables) /\ IdsInv /\ KeysInv
      /\ \A t \in 1 .. Len(tables) : TableShape(tables[t])
  BY Finite DEF IInv, TypeOK, CacheInv
<1>2. c \in 1 .. Len(classes) /\ p \in DOMAIN tree /\ id \in 1 .. lastId /\ names \subseteq Nonterminals
  BY KidsIn
<1> DEFINE clash == IsAmbiguous(Terminals(tree, p) \cup kids, First(names))
<1>3. PICK s \in SUBSET kids :
        LET on == IF clash THEN NoTree ELSE ComputeTransitions(tree, p, First(names))
        IN tables' = [tables EXCEPT ![j].firstSets = FirstSetsWith({Name(q) : q \in s}),
                                    ![j].transitions = Put(@, id, [clear |-> ~clash, on |-> on])]
  BY DEF Consult
<1>4. id \notin DOMAIN old /\ UNCHANGED <<classes, lastId>>
  BY DEF Consult
<1> DEFINE on == IF clash THEN NoTree ELSE ComputeTransitions(tree, p, First(names))
           some == {Name(q) : q \in s}
           f == FirstSetsWith(some)
           e == [clear |-> ~clash, on |-> on]
           g == Put(old, id, e)
           y == [tables EXCEPT ![j].firstSets = f]
           z == tables'
<1>5. some \subseteq names /\ e.on = on /\ e.clear = ~clash
  OBVIOUS
<1>6. FirstSetsSet(tables, j, f, y) /\ TransitionsSet(y, j, g, z)
  <2> HIDE DEF f, on
  <2>1. y[j].transitions = old
    BY <1>1 DEF IsSeq, TableShape
  <2>. QED
    BY <1>3, <2>1 DEF FirstSetsSet, TransitionsSet, f, on
<1>7. /\ Len(z) = Len(tables) /\ z[j].class = tables[j].class
      /\ z[j].firstSets = f /\ z[j].transitions = g
      /\ \A t \in 1 .. Len(tables) : t # j => z[t] = tables[t]
  <2> HIDE DEF j, f, g, y, z
  <2>1. PICK x : /\ Replaced(tables, j, x, y) /\ TableShape(x) /\ x.class = tables[j].class
                 /\ x.firstSets = f /\ x.transitions = tables[j].transitions
    BY <1>1, <1>6, FieldExcept, FieldsOf
  <2>2. /\ IsSeq(y) /\ Len(y) = Len(tables) /\ y[j] = x
        /\ \A t \in 1 .. Len(tables) : t # j => y[t] = tables[t]
    BY <1>1, <2>1, SeqExcept
  <2>3. PICK w : /\ Replaced(y, j, w, z) /\ w.class = x.class
                 /\ w.firstSets = x.firstSets /\ w.transitions = g
    BY <1>6, <2>1, <2>2, FieldExcept, FieldsOf
  <2>4. Len(z) = Len(y) /\ z[j] = w /\ \A t \in 1 .. Len(y) : t # j => z[t] = y[t]
    BY <1>1, <2>2, <2>3, SeqExcept
  <2>. QED
    BY <2>1, <2>2, <2>3, <2>4
<1>8. /\ DOMAIN g = DOMAIN old \cup {id} /\ g[id] = e
      /\ \A x \in DOMAIN old : g[x] = old[x]
  <2> HIDE DEF old, id, e
  <2>. QED
    BY <1>4, PutIs
<1>9. DOMAIN g \subseteq 1 .. lastId
  BY <1>1, <1>2, <1>8 DEF KeysInv
<1>10. some \in SUBSET Nonterminals /\ names \in SUBSET Nonterminals
  BY <1>2, <1>5
<1>11. DOMAIN f \subseteq (1 .. lastId) \cup Symbols
  <2> HIDE DEF some
  <2>. QED
    BY <1>1, <1>10, FirstKeys
<1>12. ASSUME NumbersApart(j), LagsIn(j) PROVE Lags(TreesIn(j), f, g)
  <2> DEFINE trees == TreesIn(j)
             F == First(names)
             G == Firsts(trees)
  <2>1. /\ FirstLags(trees, tables[j].firstSets) /\ FollowLags(trees, tables[j].firstSets)
        /\ MovesLag(trees, old)
    BY <1>12 DEF LagsIn, Lags
  <2>2. FirstLags(trees, f) /\ FollowLags(trees, f)
    <3> HIDE DEF some
    <3>. QED
      BY <1>10, <1>12, <2>1, FirstLag
  <2>3. \A m \in names : F[m] \subseteq G[m]
    <3> HIDE DEF names
    <3>. QED
      BY <1>10, <1>12, <2>1, FirstLag
  <2>4. Terminals(tree, p) \cup kids = Children(tree, p)
    BY DEF Terminals, NonterminalsOf
  <2>5. MoveOK(e, tree, p, F)
    <3>1. CASE clash
      <4>1. DOMAIN e.on = {}
        BY <1>5, <3>1 DEF NoTree
      <4>2. IsAmbiguous(Children(tree, p), F)
        BY <2>4, <3>1
      <4>. QED
        BY <4>1, <4>2 DEF MoveOK
    <3>2. CASE ~clash
      <4>1. e.clear /\ e.on = ComputeTransitions(tree, p, F)
        BY <1>5, <3>2
      <4> HIDE DEF e, tree, p, F
      <4>2. e.on = [x \in ComputeFollowSet(tree, p, F) |->
                      CHOOSE q \in Children(tree, p) : x \in Leading(q, F)]
        BY <4>1 DEF ComputeTransitions
      <4>3. ASSUME NEW x \in DOMAIN e.on
            PROVE  e.on[x] \in Children(tree, p) /\ x \in Leading(e.on[x], F)
        <5>1. x \in ComputeFollowSet(tree, p, F)
          BY <4>2
        <5>2. \E q \in Children(tree, p) : x \in Leading(q, F)
          BY <5>1 DEF ComputeFollowSet
        <5>3. e.on[x] = CHOOSE q \in Children(tree, p) : x \in Leading(q, F)
          BY <4>2, <5>1
        <5>. QED
          BY <5>2, <5>3
      <4>. QED
        BY <4>1, <4>3 DEF MoveOK
    <3>. QED
      BY <3>1, <3>2
  <2>6. MoveOK(e, tree, p, G)
    <3>1. \A q \in NonterminalsOf(tree, p) : F[Name(q)] \subseteq G[Name(q)]
      BY <2>3
    <3> HIDE DEF e, tree, p, F, G
    <3>. QED
      BY <2>5, <3>1, MoveGrows
  <2>7. ASSUME NEW nt \in Nonterminals, NEW q \in DOMAIN trees[nt], trees[nt][q].id \in DOMAIN g
        PROVE  MoveOK(g[trees[nt][q].id], trees[nt], q, G)
    <3> DEFINE i == trees[nt][q].id
    <3>1. CASE i \in DOMAIN old
      <4>1. g[i] = old[i]
        BY <1>8, <3>1
      <4>2. MoveOK(old[i], trees[nt], q, G)
        BY <2>1, <3>1 DEF MovesLag
      <4>. QED
        BY <4>1, <4>2
    <3>2. CASE i = id
      <4>1. trees[nt] = tree /\ q = p
        <5> HIDE DEF j, c, p
        <5>. QED
          BY <1>1, <1>2, <3>2, SameNode
      <4>2. g[i] = e
        BY <1>8, <3>2
      <4>. QED
        BY <2>6, <4>1, <4>2
    <3>. QED
      BY <1>8, <2>7, <3>1, <3>2
  <2>8. MovesLag(trees, g)
    <3> HIDE DEF trees, g
    <3>. QED
      BY <2>7 DEF MovesLag
  <2>. QED
    BY <2>2, <2>8 DEF Lags
<1>13. /\ Len(tables') = Len(tables) /\ UNCHANGED <<classes, lastId>>
       /\ \A t \in 1 .. Len(tables) : /\ tables'[t].class = tables[t].class
                                      /\ t # Current => tables'[t] = tables[t]
       /\ tables'[Current].firstSets = f /\ tables'[Current].transitions = g
  BY <1>4, <1>7
<1> HIDE DEF f, g, j, c, p, tree, id, kids, names, clash, old, on, some, e, y, z
<1>. QED
  BY <1>9, <1>11, <1>12, <1>13, CachesSet DEF j

(* Asking for the follow set of a node.                                     *)
LEMMA FollowCaches ==
  ASSUME IInv, CacheInv, NEW n \in Nodes, Follow(n[1], n[2])
  PROVE  CacheInv'
<1> DEFINE j == Current
           tree == classes[n[1]].tree
           id == tree[n[2]].id
           kids == {Name(r) : r \in NonterminalsOf(tree, n[2])}
           old == FirstSetsWith(kids)
           after == ComputeFollowSet(tree, n[2], First(kids))
           f == Put(old, id, after)
           z == tables'
<1>1. /\ TypeOK /\ IsSeq(tables) /\ j \in 1 .. Len(tables) /\ IdsInv /\ KeysInv
      /\ \A t \in 1 .. Len(tables) : TableShape(tables[t])
  BY Finite DEF IInv, TypeOK, CacheInv
<1>2. /\ n[1] \in 1 .. Len(classes) /\ n[2] \in DOMAIN tree
      /\ id \in 1 .. lastId /\ kids \in SUBSET Nonterminals
  BY KidsIn
<1>3. FirstSetsSet(tables, j, f, z) /\ UNCHANGED <<classes, lastId>>
  BY DEF Follow, FirstSetsSet
<1>4. /\ Len(z) = Len(tables) /\ z[j].class = tables[j].class
      /\ z[j].firstSets = f /\ z[j].transitions = tables[j].transitions
      /\ \A t \in 1 .. Len(tables) : t # j => z[t] = tables[t]
  <2> HIDE DEF j, f, z
  <2>1. PICK x : /\ Replaced(tables, j, x, z) /\ x.class = tables[j].class
                 /\ x.firstSets = f /\ x.transitions = tables[j].transitions
    BY <1>1, <1>3, FieldExcept, FieldsOf
  <2>. QED
    BY <1>1, <2>1, SeqExcept
<1>5. /\ DOMAIN f = DOMAIN old \cup {id} /\ \A x \in DOMAIN old : f[x] = old[x]
      /\ id \notin DOMAIN old => f[id] = after
  <2>1. f = [x \in DOMAIN old \cup {id} |-> IF x \in DOMAIN old THEN old[x] ELSE after]
    BY DEF Put
  <2> HIDE DEF old, id, after, f
  <2>. QED
    BY ONLY <2>1
<1>6. DOMAIN f \subseteq (1 .. lastId) \cup Symbols
  <2>1. DOMAIN old \subseteq (1 .. lastId) \cup Symbols
    <3> HIDE DEF kids
    <3>. QED
      BY <1>1, <1>2, FirstKeys
  <2>. QED
    BY <1>2, <1>5, <2>1
<1>7. ASSUME NumbersApart(j), LagsIn(j)
      PROVE  Lags(TreesIn(j), f, tables[j].transitions)
  <2> DEFINE trees == TreesIn(j)
             F == First(kids)
             G == Firsts(trees)
  <2>1. /\ FirstLags(trees, tables[j].firstSets) /\ FollowLags(trees, tables[j].firstSets)
        /\ MovesLag(trees, tables[j].transitions)
    BY <1>7 DEF LagsIn, Lags
  <2>2. FirstLags(trees, old) /\ FollowLags(trees, old) /\ \A m \in kids : F[m] \subseteq G[m]
    <3> HIDE DEF kids
    <3>. QED
      BY <1>2, <1>7, <2>1, FirstLag
  <2>3. id \notin Symbols
    <3>1. n[2] # <<>> /\ IsNonterminal(n[2])
      BY DEF Follow
    <3>2. PICK m \in Nonterminals : n[1] = tables[j].class[m] /\ n[1] # 0
      BY DEF Nodes
    <3>3. trees[m] = tree
      BY <3>2 DEF TreesIn
    <3>. QED
      BY <1>2, <1>7, <3>1, <3>3 DEF NumbersApart, Symbols
  <2>4. after \subseteq ComputeFollowSet(tree, n[2], G)
    <3>1. \A q \in NonterminalsOf(tree, n[2]) : F[Name(q)] \subseteq G[Name(q)]
      BY <2>2
    <3> HIDE DEF tree, F, G
    <3>. QED
      BY <3>1, FollowGrows DEF F
  <2>5. FirstLags(trees, f)
    <3>1. ASSUME NEW nt \in Nonterminals, SymbolNumber[nt] \in DOMAIN f
          PROVE  f[SymbolNumber[nt]] \subseteq ComputeFirstSet(trees, nt)
      <4> HIDE DEF trees, old, id, f
      <4>1. SymbolNumber[nt] # id
        BY <2>3 DEF Symbols
      <4>2. SymbolNumber[nt] \in DOMAIN old /\ f[SymbolNumber[nt]] = old[SymbolNumber[nt]]
        BY <1>5, <3>1, <4>1
      <4>. QED
        BY <2>2, <4>2 DEF FirstLags
    <3> HIDE DEF trees, f
    <3>. QED
      BY <3>1 DEF FirstLags
  <2>6. FollowLags(trees, f)
    <3>1. ASSUME NEW nt \in Nonterminals, NEW q \in DOMAIN trees[nt],
                 q # <<>>, IsNonterminal(q), trees[nt][q].id \in DOMAIN f
          PROVE  f[trees[nt][q].id] \subseteq ComputeFollowSet(trees[nt], q, G)
      <4> DEFINE i == trees[nt][q].id
      <4>1. CASE i \in DOMAIN old
        <5>1. f[i] = old[i]
          BY <1>5, <4>1
        <5>2. old[i] \subseteq ComputeFollowSet(trees[nt], q, G)
          <6> HIDE DEF trees, old
          <6>. QED
            BY <2>2, <3>1, <4>1 DEF FollowLags, G
        <5>. QED
          BY <5>1, <5>2
      <4>2. CASE i = id /\ i \notin DOMAIN old
        <5>1. trees[nt] = tree /\ q = n[2]
          <6> DEFINE c == n[1]
                     p == n[2]
          <6>1. c \in 1 .. Len(classes) /\ p \in DOMAIN classes[c].tree /\ i = classes[c].tree[p].id
            BY <1>2, <4>2
          <6>2. trees[nt] = classes[c].tree /\ q = p
            <7> HIDE DEF j, c, p
            <7>. QED
              BY <1>1, <6>1, SameNode
          <6>. QED
            BY <6>2
        <5>2. f[i] = after
          BY <1>5, <4>2
        <5>. QED
          BY <2>4, <5>1, <5>2
      <4>. QED
        BY <1>5, <3>1, <4>1, <4>2
    <3> HIDE DEF trees, f
    <3>. QED
      BY <3>1 DEF FollowLags, G
  <2>. QED
    BY <2>1, <2>5, <2>6 DEF Lags
<1>8. /\ Len(tables') = Len(tables) /\ UNCHANGED <<classes, lastId>>
      /\ \A t \in 1 .. Len(tables) : /\ tables'[t].class = tables[t].class
                                     /\ t # Current => tables'[t] = tables[t]
      /\ tables'[Current].firstSets = f /\ tables'[Current].transitions = tables[Current].transitions
      /\ DOMAIN tables[Current].transitions \subseteq 1 .. lastId
  BY <1>1, <1>3, <1>4 DEF KeysInv
<1> HIDE DEF j, tree, id, kids, old, after, f, z
<1>. QED
  BY <1>6, <1>7, <1>8, CachesSet DEF j

(* Every step.                                                              *)
LEMMA NextCaches ==
  ASSUME IInv, CacheInv, IInv', [Next]_vars
  PROVE  CacheInv'
<1>1. CASE BeginScope \/ EndScope
  BY <1>1, ScopeCaches
<1>2. ASSUME NEW r \in Rules, AddRule(r) PROVE CacheInv'
  BY <1>2, AddRuleCaches
<1>3. ASSUME NEW n \in Nodes, Consult(n[1], n[2]) \/ Follow(n[1], n[2]) PROVE CacheInv'
  BY <1>3, ConsultCaches, FollowCaches
<1>4. CASE UNCHANGED vars
  <2>1. UNCHANGED <<classes, lastId, tables>>
    BY <1>4 DEF vars
  <2>. QED
    BY <2>1, SameCaches DEF IInv
<1>. QED
  BY <1>1, <1>2, <1>3, <1>4 DEF Next, Finished

(* ParserSyntaxTable_GetFirstSet, GetFollowSet and GetTransitionTable: a    *)
(* table may be asked for sets and moves before rules are added to classes  *)
(* it shares, and answers from its caches afterwards.  The FIRST and FOLLOW *)
(* sets it keeps then are subsets of today's, its moves lead to children    *)
(* their tokens can start today, and the nodes it calls ambiguous are; only *)
(* a table in which a node has the number of a symbol is excepted.          *)
THEOREM CachesStayBehind == Spec => []CachesOnlyLag
<1>1. Init => IInv /\ CacheInv
  BY InitInv, InitCaches
<1>2. IInv /\ CacheInv /\ [Next]_vars => IInv' /\ CacheInv'
  BY NextInv, NextCaches
<1>3. IInv /\ CacheInv => CachesOnlyLag
  BY LagIs DEF IInv, CacheInv
<1>. QED
  BY <1>1, <1>2, <1>3, PTL DEF Spec
=============================================================================
