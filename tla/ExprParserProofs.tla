-------------------------- MODULE ExprParserProofs --------------------------
(***************************************************************************)
(* The follow set is that of the innermost nonterminal being read, for     *)
(* every set of rules and every input.                                     *)
(*                                                                         *)
(* customFollowSet is a variable of the parser; the calls of Parser_-      *)
(* ApplyCustomSyntax save and restore it.  That it is right again after a  *)
(* call returns, normally or with an error, follows from what every such   *)
(* call that is under way has saved.                                       *)
(***************************************************************************)
EXTENDS ExprParser, SequenceTheorems, TLAPS

(* A frame of Parser_ApplyCustomSyntax that waits for a nonterminal, and    *)
(* the follow set that is in force meanwhile under trees g and FIRST sets   *)
(* firsts.                                                                  *)
Reading(f) == f.fn = "apply" /\ f.pc = "nonterminal"
OwnSet(g, firsts, f) == ComputeFollowSet(g[f.class], f.node, firsts)

(* The fields the argument is about.                                        *)
HasFields(f) ==
  /\ {"fn", "pc"} \subseteq DOMAIN f
  /\ f.fn = "apply" => {"class", "node", "oldFollowSet"} \subseteq DOMAIN f

(* F is the follow set of the innermost nonterminal the first n frames of s *)
(* read.                                                                    *)
InForce(g, firsts, s, n, F) ==
  \/ F = {} /\ \A i \in 1 .. n : ~Reading(s[i])
  \/ \E i \in 1 .. n : /\ Reading(s[i]) /\ F = OwnSet(g, firsts, s[i])
                       /\ \A j \in i + 1 .. n : ~Reading(s[j])

(* The frames of s, with F the follow set now: every frame that reads has   *)
(* saved the set that was in force below it.                                *)
Saved(g, firsts, s, F) ==
  /\ s \in Seq(Range(s))
  /\ \A i \in 1 .. Len(s) : HasFields(s[i])
  /\ InForce(g, firsts, s, Len(s), F)
  /\ \A i \in 1 .. Len(s) :
       Reading(s[i]) => InForce(g, firsts, s, i - 1, s[i].oldFollowSet)

(* The inductive invariant.                                                 *)
IInv == Saved(grammar, firstSets, stack, followSet)

-----------------------------------------------------------------------------
(* Only the first n frames matter.                                          *)
LEMMA InForcePrefix ==
  ASSUME NEW g, NEW firsts, NEW s, NEW t, NEW n \in Nat, NEW F,
         \A i \in 1 .. n : t[i] = s[i], InForce(g, firsts, s, n, F)
  PROVE  InForce(g, firsts, t, n, F)
<1>1. CASE F = {} /\ \A i \in 1 .. n : ~Reading(s[i])
  BY <1>1 DEF InForce, Reading
<1>2. CASE \E i \in 1 .. n : /\ Reading(s[i]) /\ F = OwnSet(g, firsts, s[i])
                             /\ \A j \in i + 1 .. n : ~Reading(s[j])
  <2>1. PICK i \in 1 .. n : /\ Reading(s[i]) /\ F = OwnSet(g, firsts, s[i])
                            /\ \A j \in i + 1 .. n : ~Reading(s[j])
    BY <1>2
  <2>2. t[i] = s[i] /\ \A j \in i + 1 .. n : j \in 1 .. n /\ t[j] = s[j]
    OBVIOUS
  <2>3. Reading(t[i]) /\ F = OwnSet(g, firsts, t[i]) /\ \A j \in i + 1 .. n : ~Reading(t[j])
    BY <2>1, <2>2
  <2>. QED
    BY <2>3 DEF InForce
<1>. QED
  BY <1>1, <1>2 DEF InForce

(* A frame that reads nothing does not change what is in force.             *)
LEMMA InForceCalm ==
  ASSUME NEW g, NEW firsts, NEW s, NEW n \in Nat \ {0}, NEW F, ~Reading(s[n])
  PROVE  InForce(g, firsts, s, n, F) <=> InForce(g, firsts, s, n - 1, F)
<1>1. \A i : i \in 1 .. n <=> i \in 1 .. n - 1 \/ i = n
  OBVIOUS
<1>2. \A i \in 1 .. n - 1 : \A j : j \in i + 1 .. n <=> j \in i + 1 .. n - 1 \/ j = n
  OBVIOUS
<1>3. (\A i \in 1 .. n : ~Reading(s[i])) <=> \A i \in 1 .. n - 1 : ~Reading(s[i])
  BY <1>1
<1>4. \A i \in 1 .. n - 1 :
        (\A j \in i + 1 .. n : ~Reading(s[j])) <=> \A j \in i + 1 .. n - 1 : ~Reading(s[j])
  BY <1>2
<1>. QED
  BY <1>1, <1>3, <1>4, Zenon DEF InForce

(* Above a frame that reads, its own set is in force.                       *)
LEMMA InForceReading ==
  ASSUME NEW g, NEW firsts, NEW s, NEW n \in Nat \ {0}, Reading(s[n])
  PROVE  InForce(g, firsts, s, n, OwnSet(g, firsts, s[n]))
<1>1. n \in 1 .. n /\ \A j \in n + 1 .. n : FALSE
  OBVIOUS
<1>. QED
  BY <1>1 DEF InForce

-----------------------------------------------------------------------------
(* What Append and Front do to the frames.                                  *)
Pushed(s, f, t) == t = Append(s, f)

(* What pushing a frame leaves of the stack.                                *)
LEMMA AppendFrames ==
  ASSUME NEW s, s \in Seq(Range(s)), NEW f, NEW t, Pushed(s, f, t)
  PROVE  /\ t \in Seq(Range(t)) /\ Len(s) \in Nat /\ Len(t) = Len(s) + 1
         /\ \A i \in 1 .. Len(s) : t[i] = s[i]
         /\ t[Len(s) + 1] = f
<1>1. s \in Seq(Range(s) \cup {f})
  OBVIOUS
<1>2. t \in Seq(Range(s) \cup {f}) /\ Len(s) \in Nat /\ Len(t) = Len(s) + 1
  BY <1>1 DEF Pushed
<1>3. t \in Seq(Range(t))
  BY <1>2 DEF Range
<1>. QED
  BY <1>1, <1>2, <1>3 DEF Pushed

(* What popping a frame leaves of it, and that a new top is a push on that. *)
LEMMA FrontFrames ==
  ASSUME NEW s, s \in Seq(Range(s)), s # <<>>, NEW t, t = Front(s)
  PROVE  /\ t \in Seq(Range(t)) /\ Len(s) \in Nat \ {0} /\ Len(t) = Len(s) - 1
         /\ \A i \in 1 .. Len(s) - 1 : t[i] = s[i]
         /\ Last(s) = s[Len(s)]
         /\ \A f : Pushed(t, f, [s EXCEPT ![Len(s)] = f])
<1>1. Len(s) \in Nat \ {0} /\ t = SubSeq(s, 1, Len(s) - 1)
  BY DEF Front
<1>2. t \in Seq(Range(s)) /\ Len(t) = Len(s) - 1 /\ \A i \in 1 .. Len(s) - 1 : t[i] = s[i]
  <2> DEFINE n == Len(s) - 1
  <2>1. n \in Nat /\ t = SubSeq(s, 1, n) /\ \A i \in 1 .. n : s[i] \in Range(s)
    BY <1>1
  <2>2. t \in Seq(Range(s)) /\ (Len(t) = IF 1 <= n THEN n - 1 + 1 ELSE 0)
        /\ \A i \in 1 .. n - 1 + 1 : t[i] = s[1 + i - 1]
    <3> HIDE DEF n
    <3>. QED
      BY <2>1, SubSeqProperties
  <2>3. Len(t) = n /\ \A i \in 1 .. n : t[i] = s[i]
    <3> HIDE DEF n
    <3>. QED
      BY <2>1, <2>2
  <2>. QED
    BY <2>2, <2>3
<1>3. t \in Seq(Range(t))
  BY <1>2 DEF Range
<1>4. ASSUME NEW f PROVE Pushed(t, f, [s EXCEPT ![Len(s)] = f])
  <2> DEFINE x == [s EXCEPT ![Len(s)] = f]
             y == Append(t, f)
  <2>1. DOMAIN x = 1 .. Len(s) /\ x = [i \in DOMAIN x |-> x[i]]
    BY <1>1
  <2>2. y \in Seq(Range(s) \cup {f}) /\ Len(y) = Len(s)
    BY <1>1, <1>2
  <2>3. DOMAIN y = 1 .. Len(s) /\ y = [i \in DOMAIN y |-> y[i]]
    <3> HIDE DEF y
    <3>. QED
      BY <2>2
  <2>4. ASSUME NEW i \in 1 .. Len(s) PROVE x[i] = y[i]
    BY <1>1, <1>2
  <2>. QED
    BY <2>1, <2>3, <2>4 DEF Pushed
<1>. QED
  BY <1>1, <1>2, <1>3, <1>4 DEF Last

-----------------------------------------------------------------------------
(* A call that reads nothing yet.                                           *)
LEMMA SavedPush ==
  ASSUME NEW g, NEW firsts, NEW s, NEW F, Saved(g, firsts, s, F),
         NEW f, HasFields(f), ~Reading(f), NEW t, Pushed(s, f, t)
  PROVE  Saved(g, firsts, t, F)
<1> DEFINE n == Len(s)
<1>1. /\ t \in Seq(Range(t)) /\ n \in Nat /\ Len(t) = n + 1
      /\ \A i \in 1 .. n : t[i] = s[i]
      /\ t[n + 1] = f
  <2>1. s \in Seq(Range(s))
    BY DEF Saved
  <2>. QED
    BY <2>1, AppendFrames
<1> HIDE DEF n
<1>2. \A i \in 1 .. n + 1 : i \in 1 .. n \/ i = n + 1
  BY <1>1
<1>3. \A i \in 1 .. n + 1 : HasFields(t[i])
  BY <1>1, <1>2 DEF Saved, n
<1>4. InForce(g, firsts, t, n, F)
  BY <1>1, InForcePrefix DEF Saved, n
<1>5. InForce(g, firsts, t, n + 1, F)
  <2> DEFINE m == n + 1
  <2>1. m \in Nat \ {0} /\ m - 1 = n /\ ~Reading(t[m])
    BY <1>1
  <2> HIDE DEF m
  <2>2. InForce(g, firsts, t, m, F) <=> InForce(g, firsts, t, m - 1, F)
    BY <2>1, InForceCalm
  <2>. QED
    BY <1>4, <2>1, <2>2 DEF m
<1>6. ASSUME NEW i \in 1 .. n + 1, Reading(t[i])
      PROVE  InForce(g, firsts, t, i - 1, t[i].oldFollowSet)
  <2>1. i \in 1 .. n /\ t[i] = s[i]
    BY <1>1, <1>2, <1>6
  <2>2. InForce(g, firsts, s, i - 1, s[i].oldFollowSet)
    BY <1>6, <2>1 DEF Saved, n
  <2>3. i - 1 \in Nat /\ \A j \in 1 .. i - 1 : t[j] = s[j]
    BY <1>1, <2>1
  <2>. QED
    BY <2>1, <2>2, <2>3, InForcePrefix
<1>. QED
  BY <1>1, <1>3, <1>5, <1>6 DEF Saved

(* A call that begins to read a nonterminal, having saved the follow set.   *)
LEMMA SavedPushReading ==
  ASSUME NEW g, NEW firsts, NEW s, NEW F, Saved(g, firsts, s, F),
         NEW f, HasFields(f), Reading(f), f.oldFollowSet = F,
         NEW t, Pushed(s, f, t)
  PROVE  Saved(g, firsts, t, OwnSet(g, firsts, f))
<1> DEFINE n == Len(s)
<1>1. /\ t \in Seq(Range(t)) /\ n \in Nat /\ Len(t) = n + 1
      /\ \A i \in 1 .. n : t[i] = s[i]
      /\ t[n + 1] = f
  <2>1. s \in Seq(Range(s))
    BY DEF Saved
  <2>. QED
    BY <2>1, AppendFrames
<1> HIDE DEF n
<1>2. \A i \in 1 .. n + 1 : i \in 1 .. n \/ i = n + 1
  BY <1>1
<1>3. \A i \in 1 .. n + 1 : HasFields(t[i])
  BY <1>1, <1>2 DEF Saved, n
<1>4. n + 1 \in Nat \ {0} /\ n + 1 - 1 = n
  BY <1>1
<1>5. InForce(g, firsts, t, n + 1, OwnSet(g, firsts, f))
  BY <1>1, <1>4, InForceReading
<1>6. ASSUME NEW i \in 1 .. n + 1, Reading(t[i])
      PROVE  InForce(g, firsts, t, i - 1, t[i].oldFollowSet)
  <2>1. CASE i = n + 1
    <3>1. InForce(g, firsts, t, n, F)
      BY <1>1, InForcePrefix DEF Saved, n
    <3>. QED
      BY <1>1, <1>4, <2>1, <3>1
  <2>2. CASE i \in 1 .. n
    <3>1. t[i] = s[i]
      BY <1>1, <2>2
    <3>2. InForce(g, firsts, s, i - 1, s[i].oldFollowSet)
      BY <1>6, <2>2, <3>1 DEF Saved, n
    <3>3. i - 1 \in Nat /\ \A j \in 1 .. i - 1 : t[j] = s[j]
      BY <1>1, <2>2
    <3>. QED
      BY <3>1, <3>2, <3>3, InForcePrefix
  <2>. QED
    BY <1>2, <2>1, <2>2
<1>. QED
  BY <1>1, <1>3, <1>5, <1>6 DEF Saved

(* A call that returns: what is in force below it is in force then.         *)
LEMMA SavedPop ==
  ASSUME NEW g, NEW firsts, NEW s, NEW F, Saved(g, firsts, s, F), s # <<>>,
         NEW t, t = Front(s)
  PROVE  /\ ~Reading(Last(s)) => Saved(g, firsts, t, F)
         /\ Reading(Last(s)) => Saved(g, firsts, t, Last(s).oldFollowSet)
<1> DEFINE n == Len(s)
<1>1. /\ t \in Seq(Range(t)) /\ n \in Nat \ {0} /\ Len(t) = n - 1
      /\ \A i \in 1 .. n - 1 : t[i] = s[i]
      /\ Last(s) = s[n]
  BY FrontFrames DEF Saved
<1> HIDE DEF n
<1>2. n \in 1 .. n /\ n - 1 \in Nat /\ \A i \in 1 .. n - 1 : i \in 1 .. n
  BY <1>1
<1>3. \A i \in 1 .. n - 1 : HasFields(t[i])
  BY <1>1, <1>2 DEF Saved, n
<1>4. ASSUME NEW i \in 1 .. n - 1, Reading(t[i])
      PROVE  InForce(g, firsts, t, i - 1, t[i].oldFollowSet)
  <2>1. t[i] = s[i] /\ i \in 1 .. n
    BY <1>1, <1>2
  <2>2. InForce(g, firsts, s, i - 1, s[i].oldFollowSet)
    BY <1>4, <2>1 DEF Saved, n
  <2>3. i - 1 \in Nat /\ \A j \in 1 .. i - 1 : t[j] = s[j]
    BY <1>1, <1>2
  <2>. QED
    BY <2>1, <2>2, <2>3, InForcePrefix
<1>5. ASSUME NEW E, InForce(g, firsts, s, n - 1, E) PROVE Saved(g, firsts, t, E)
  <2>1. InForce(g, firsts, t, n - 1, E)
    BY <1>1, <1>2, <1>5, InForcePrefix
  <2>. QED
    BY <1>1, <1>3, <1>4, <2>1 DEF Saved
<1>6. ~Reading(s[n]) => InForce(g, firsts, s, n - 1, F)
  BY <1>1, InForceCalm DEF Saved, n
<1>7. Reading(s[n]) => InForce(g, firsts, s, n - 1, s[n].oldFollowSet)
  BY <1>2 DEF Saved, n
<1>. QED
  BY <1>1, <1>5, <1>6, <1>7

-----------------------------------------------------------------------------
(* A step that leaves the follow set alone: the innermost call returns, or  *)
(* goes on and may call another; neither reads a nonterminal.               *)
Calm(f) == HasFields(f) /\ ~Reading(f)
QuietStep ==
  \/ stack' = Front(stack)
  \/ \E f : Calm(f) /\ stack' = [stack EXCEPT ![Len(stack)] = f]
  \/ \E f, c : Calm(f) /\ Calm(c) /\ stack' = Append([stack EXCEPT ![Len(stack)] = f], c)

(* A step that neither reads nor changes a saved set keeps the invariant.   *)
LEMMA QuietPreserves ==
  ASSUME IInv, stack # <<>>, ~Reading(Last(stack)), QuietStep,
         UNCHANGED <<grammar, firstSets, followSet>>
  PROVE  IInv'
<1> DEFINE below == Front(stack)
<1>1. Saved(grammar, firstSets, below, followSet)
  BY SavedPop DEF IInv
<1>2. \A f : Pushed(below, f, [stack EXCEPT ![Len(stack)] = f])
  BY FrontFrames DEF IInv, Saved
<1>3. CASE stack' = below
  BY <1>1, <1>3 DEF IInv
<1>4. CASE \E f : Calm(f) /\ stack' = [stack EXCEPT ![Len(stack)] = f]
  <2>1. PICK f : Calm(f) /\ stack' = [stack EXCEPT ![Len(stack)] = f]
    BY <1>4
  <2>2. Pushed(below, f, stack')
    BY <1>2, <2>1
  <2>3. Saved(grammar, firstSets, stack', followSet)
    <3> HIDE DEF below
    <3>. QED
      BY <1>1, <2>1, <2>2, SavedPush DEF Calm
  <2>. QED
    BY <2>3 DEF IInv
<1>5. CASE \E f, c : /\ Calm(f) /\ Calm(c)
                     /\ stack' = Append([stack EXCEPT ![Len(stack)] = f], c)
  <2>1. PICK f, c : /\ Calm(f) /\ Calm(c)
                    /\ stack' = Append([stack EXCEPT ![Len(stack)] = f], c)
    BY <1>5
  <2> DEFINE mid == [stack EXCEPT ![Len(stack)] = f]
  <2>2. Pushed(below, f, mid) /\ Pushed(mid, c, stack')
    BY <1>2, <2>1 DEF Pushed
  <2>3. Saved(grammar, firstSets, mid, followSet)
    <3> HIDE DEF below, mid
    <3>. QED
      BY <1>1, <2>1, <2>2, SavedPush DEF Calm
  <2>4. Saved(grammar, firstSets, stack', followSet)
    <3> HIDE DEF mid
    <3>. QED
      BY <2>1, <2>2, <2>3, SavedPush DEF Calm
  <2>. QED
    BY <2>4 DEF IInv
<1>. QED
  BY <1>3, <1>4, <1>5 DEF QuietStep

(* No frame is pushed that claims to have saved a set.                      *)
LEMMA NewFramesCalm ==
  /\ \A l : Calm(LevelFrame(l))
  /\ \A c, m : Calm(ApplyFrame(c, m))
  /\ \A nt, rep : Calm(ListFrame(nt, rep))
  /\ \A nt : Calm(Callee(nt))
<1>1. ASSUME NEW l PROVE Calm(LevelFrame(l))
  BY DEF Calm, HasFields, Reading, LevelFrame
<1>2. ASSUME NEW c, NEW m PROVE Calm(ApplyFrame(c, m))
  BY DEF Calm, HasFields, Reading, ApplyFrame
<1>3. ASSUME NEW nt, NEW rep PROVE Calm(ListFrame(nt, rep))
  BY DEF Calm, HasFields, Reading, ListFrame
<1>4. ASSUME NEW nt PROVE Calm(Callee(nt))
  BY <1>1, <1>2 DEF Callee
<1>. QED
  BY <1>1, <1>2, <1>3, <1>4

(* A frame that has been updated is one still.                              *)
LEMMA StillCalm ==
  ASSUME NEW f, HasFields(f), NEW h, DOMAIN h = DOMAIN f, h.fn = f.fn,
         h.fn # "apply" \/ h.pc # "nonterminal"
  PROVE  Calm(h)
BY DEF Calm, HasFields, Reading

(* Nor has the top saved one, unless it reads a nonterminal of a rule.      *)
LEMMA TopCalm ==
  ASSUME IInv, NEW fn, NEW pc, At(fn, pc), fn # "apply" \/ pc # "nonterminal"
  PROVE  /\ stack # <<>> /\ HasFields(Top) /\ ~Reading(Top) /\ Top = Last(stack)
         /\ Top.fn = fn /\ Top.pc = pc
<1>1. stack # <<>> /\ Top = Last(stack) /\ ~Reading(Top) /\ Top.fn = fn /\ Top.pc = pc
  BY DEF At, Top, Reading
<1>2. Len(stack) \in Nat \ {0} /\ Top = stack[Len(stack)]
  BY <1>1, FrontFrames DEF IInv, Saved
<1>3. Len(stack) \in 1 .. Len(stack)
  BY <1>2
<1>4. HasFields(Top)
  BY <1>2, <1>3 DEF IInv, Saved
<1>. QED
  BY <1>1, <1>4

(* The actions, one by one: entering a level of the grammar.                *)
LEMMA EnterQuiet ==
  ASSUME IInv, Enter PROVE QuietStep
<1> DEFINE n == PrefixCount(Top.level, pos)
           f == [Top EXCEPT !.prefix = SubSeq(input, pos + 1, pos + n)]
           k == [f EXCEPT !.pc = "keyword"]
           b == [f EXCEPT !.pc = "below"]
<1>1. HasFields(Top) /\ Top.fn = "level"
  BY TopCalm DEF Enter
<1>2. Calm(k) /\ Calm(b)
  <2>1. DOMAIN f = DOMAIN Top /\ f.fn = "level"
    BY <1>1 DEF HasFields
  <2>2. DOMAIN k = DOMAIN Top /\ k.fn = "level" /\ DOMAIN b = DOMAIN Top /\ b.fn = "level"
    <3> HIDE DEF f
    <3>. QED
      BY <1>1, <2>1 DEF HasFields
  <2> HIDE DEF k, b
  <2>. QED
    BY <1>1, <2>2, StillCalm
<1>3. \/ stack' = Append([stack EXCEPT ![Len(stack)] = k], ApplyFrame(Top.level, "KEYWORD"))
      \/ stack' = Append([stack EXCEPT ![Len(stack)] = b], LevelFrame(Below(Top.level)))
  BY DEF Enter, Calls
<1> HIDE DEF k, b
<1>. QED
  BY <1>2, <1>3, NewFramesCalm DEF QuietStep

(* Back from the rules of a keyword.                                        *)
LEMMA AfterKeywordQuiet ==
  ASSUME IInv, AfterKeyword PROVE QuietStep
<1> DEFINE b == [Top EXCEPT !.pc = "below"]
<1>1. HasFields(Top) /\ Top.fn = "level"
  BY TopCalm DEF AfterKeyword
<1>2. DOMAIN b = DOMAIN Top /\ b.fn = "level"
  BY <1>1 DEF HasFields
<1>3. \/ stack' = Append([stack EXCEPT ![Len(stack)] = b], LevelFrame(Below(Top.level)))
      \/ stack' = Front(stack)
  BY DEF AfterKeyword, Calls, Returns
<1> HIDE DEF b
<1>. QED
  BY <1>1, <1>2, <1>3, StillCalm, NewFramesCalm DEF QuietStep

(* Back from the level below.                                               *)
LEMMA AfterBelowQuiet ==
  ASSUME IInv, AfterBelow PROVE QuietStep
<1> DEFINE c == [Top EXCEPT !.pc = "continued", !.expr = ret.expr]
           o == [Top EXCEPT !.pc = "operator", !.expr = ret.expr]
<1>1. HasFields(Top) /\ Top.fn = "level"
  BY TopCalm DEF AfterBelow
<1>2. DOMAIN c = DOMAIN Top /\ c.fn = "level" /\ DOMAIN o = DOMAIN Top /\ o.fn = "level"
  BY <1>1 DEF HasFields
<1>3. \/ stack' = Front(stack)
      \/ stack' = Append([stack EXCEPT ![Len(stack)] = c], ApplyFrame(Top.level, "NONTERMINAL"))
      \/ stack' = [stack EXCEPT ![Len(stack)] = o]
  BY DEF AfterBelow, Calls, Becomes, Returns
<1> HIDE DEF c, o
<1>. QED
  BY <1>1, <1>2, <1>3, StillCalm, NewFramesCalm DEF QuietStep

(* Back from the rules that continue an expression.                         *)
LEMMA AfterContinuedQuiet ==
  ASSUME IInv, AfterContinued PROVE QuietStep
<1> DEFINE c == [Top EXCEPT !.expr = ret.expr]
           o == [Top EXCEPT !.pc = "operator"]
<1>1. HasFields(Top) /\ Top.fn = "level"
  BY TopCalm DEF AfterContinued
<1>2. DOMAIN c = DOMAIN Top /\ c.fn = "level" /\ DOMAIN o = DOMAIN Top /\ o.fn = "level"
  BY <1>1 DEF HasFields
<1>3. \/ stack' = Front(stack)
      \/ stack' = Append([stack EXCEPT ![Len(stack)] = c], ApplyFrame(Top.level, "NONTERMINAL"))
      \/ stack' = [stack EXCEPT ![Len(stack)] = o]
  BY DEF AfterContinued, Calls, Becomes, Returns
<1> HIDE DEF c, o
<1>. QED
  BY <1>1, <1>2, <1>3, StillCalm, NewFramesCalm DEF QuietStep

(* Meeting an operator.                                                     *)
LEMMA OperatorQuiet ==
  ASSUME IInv, Operator PROVE QuietStep
<1> DEFINE r == [Top EXCEPT !.pc = "right", !.op = Peek]
<1>1. HasFields(Top) /\ Top.fn = "level"
  BY TopCalm DEF Operator
<1>2. DOMAIN r = DOMAIN Top /\ r.fn = "level"
  BY <1>1 DEF HasFields
<1>3. \/ stack' = Append([stack EXCEPT ![Len(stack)] = r], LevelFrame(Below(Top.level)))
      \/ stack' = Front(stack)
  BY DEF Operator, Calls, Returns
<1> HIDE DEF r
<1>. QED
  BY <1>1, <1>2, <1>3, StillCalm, NewFramesCalm DEF QuietStep

(* Back from its right side.                                                *)
LEMMA AfterRightQuiet ==
  ASSUME IInv, AfterRight PROVE QuietStep
<1> DEFINE f == IF Top.op = ","
                THEN [Top EXCEPT !.expr.args = Append(@, ret.expr)]
                ELSE [Top EXCEPT !.expr = WithOperand(Top, ret.expr), !.many = TRUE]
           m == [f EXCEPT !.op = ","]
           c == [f EXCEPT !.pc = "continued"]
           o == [f EXCEPT !.pc = "operator"]
<1>1. HasFields(Top) /\ Top.fn = "level"
  BY TopCalm DEF AfterRight
<1>2. DOMAIN f = DOMAIN Top /\ f.fn = "level"
  BY <1>1 DEF HasFields
<1>3. \/ stack' = Front(stack)
      \/ stack' = Append([stack EXCEPT ![Len(stack)] = m], LevelFrame("COLONEXPR"))
      \/ stack' = Append([stack EXCEPT ![Len(stack)] = c], ApplyFrame(Top.level, "NONTERMINAL"))
      \/ stack' = [stack EXCEPT ![Len(stack)] = o]
  BY Zenon DEF AfterRight, Calls, Becomes, Returns
<1> HIDE DEF f
<1>4. /\ DOMAIN m = DOMAIN Top /\ m.fn = "level"
      /\ DOMAIN c = DOMAIN Top /\ c.fn = "level"
      /\ DOMAIN o = DOMAIN Top /\ o.fn = "level"
  BY <1>1, <1>2 DEF HasFields
<1> HIDE DEF m, c, o
<1>5. Calm(m) /\ Calm(c) /\ Calm(o)
  BY <1>1, <1>4, StillCalm
<1>. QED
  BY <1>3, <1>5, NewFramesCalm DEF QuietStep

(* Reading a term.                                                          *)
LEMMA TermQuiet ==
  ASSUME IInv, Term PROVE QuietStep
<1> DEFINE p == [Top EXCEPT !.pc = "paren"]
<1>1. HasFields(Top) /\ Top.fn = "level"
  BY TopCalm DEF Term
<1>2. DOMAIN p = DOMAIN Top /\ p.fn = "level"
  BY <1>1 DEF HasFields
<1>3. \/ stack' = Append([stack EXCEPT ![Len(stack)] = p], LevelFrame("STMT"))
      \/ stack' = Front(stack)
  BY DEF Term, Calls, Returns
<1> HIDE DEF p
<1>. QED
  BY <1>1, <1>2, <1>3, StillCalm, NewFramesCalm DEF QuietStep

(* Back from parentheses.                                                   *)
LEMMA AfterParenQuiet ==
  ASSUME AfterParen PROVE QuietStep
<1>1. stack' = Front(stack)
  BY Zenon DEF AfterParen, Returns
<1>. QED
  BY <1>1 DEF QuietStep

(* Entering the rules of a class.                                           *)
LEMMA ApplyEnterQuiet ==
  ASSUME IInv, ApplyEnter PROVE QuietStep
<1> DEFINE walk == [Top EXCEPT !.pc = "walk"]
           w == [walk EXCEPT !.node = <<<<FALSE, Peek>>>>, !.isFirst = FALSE]
           s == [walk EXCEPT !.node = <<<<TRUE, Below(Top.class)>>>>]
<1>1. HasFields(Top) /\ Top.fn = "apply"
  BY TopCalm DEF ApplyEnter
<1>2. DOMAIN walk = DOMAIN Top /\ walk.fn = "apply" /\ walk.pc = "walk"
  BY <1>1 DEF HasFields
<1>3. \/ stack' = [stack EXCEPT ![Len(stack)] = w]
      \/ stack' = [stack EXCEPT ![Len(stack)] = s]
      \/ stack' = [stack EXCEPT ![Len(stack)] = walk]
      \/ stack' = Front(stack)
  BY Zenon DEF ApplyEnter, Becomes, Returns
<1> HIDE DEF walk
<1>4. /\ DOMAIN w = DOMAIN Top /\ w.fn = "apply" /\ w.pc = "walk"
      /\ DOMAIN s = DOMAIN Top /\ s.fn = "apply" /\ s.pc = "walk"
  BY <1>1, <1>2 DEF HasFields
<1> HIDE DEF w, s
<1>5. Calm(walk) /\ Calm(w) /\ Calm(s)
  BY <1>1, <1>2, <1>4, StillCalm
<1>. QED
  BY <1>3, <1>5 DEF QuietStep

(* Stopping with an error.                                                  *)
LEMMA StopQuiet ==
  ASSUME Stop PROVE QuietStep
BY DEF Stop, Returns, QuietStep

(* Going along a terminal of a rule.                                        *)
LEMMA ToTerminalQuiet ==
  ASSUME IInv, ToTerminal PROVE QuietStep
<1> DEFINE f == [Top EXCEPT !.node = NextNode, !.isFirst = FALSE]
<1>1. HasFields(Top) /\ Top.fn = "apply" /\ Top.pc = "walk"
  BY TopCalm DEF ToTerminal
<1>2. DOMAIN f = DOMAIN Top /\ f.fn = "apply" /\ f.pc = "walk"
  BY <1>1 DEF HasFields
<1>3. stack' = [stack EXCEPT ![Len(stack)] = f]
  BY DEF ToTerminal, Becomes
<1> HIDE DEF f
<1>. QED
  BY <1>1, <1>2, <1>3, StillCalm DEF QuietStep

(* Entering a list of a nonterminal.                                        *)
LEMMA ListEnterQuiet ==
  ASSUME IInv, ListEnter PROVE QuietStep
<1> DEFINE f == [Top EXCEPT !.pc = "item"]
<1>1. HasFields(Top) /\ Top.fn = "list"
  BY TopCalm DEF ListEnter
<1>2. DOMAIN f = DOMAIN Top /\ f.fn = "list"
  BY <1>1 DEF HasFields
<1>3. stack' = Append([stack EXCEPT ![Len(stack)] = f], Callee(Top.nt))
  BY DEF ListEnter, Calls
<1> HIDE DEF f
<1>. QED
  BY <1>1, <1>2, <1>3, StillCalm, NewFramesCalm DEF QuietStep

(* Back from an item of it.                                                 *)
LEMMA AfterItemQuiet ==
  ASSUME IInv, AfterItem PROVE QuietStep
<1> DEFINE f == [Top EXCEPT !.items = Append(@, ret.expr), !.isFirst = FALSE]
           e == [f EXCEPT !.pc = "enter"]
<1>1. HasFields(Top) /\ Top.fn = "list"
  BY TopCalm DEF AfterItem
<1>2. DOMAIN f = DOMAIN Top /\ f.fn = "list"
  BY <1>1 DEF HasFields
<1>3. \/ stack' = Front(stack)
      \/ stack' = [stack EXCEPT ![Len(stack)] = e]
  BY Zenon DEF AfterItem, Becomes, Returns
<1> HIDE DEF f
<1>4. DOMAIN e = DOMAIN Top /\ e.fn = "list"
  BY <1>1, <1>2 DEF HasFields
<1> HIDE DEF e
<1>. QED
  BY <1>1, <1>3, <1>4, StillCalm DEF QuietStep

-----------------------------------------------------------------------------
(* The follow set is saved in the frame and replaced by that of the         *)
(* nonterminal; the frame on top of it reads nothing yet.                   *)
LEMMA ToNonterminalPreserves ==
  ASSUME IInv, ToNonterminal PROVE IInv'
<1> DEFINE below == Front(stack)
           rep == Tree[NextNode].rep
           f == [Top EXCEPT !.node = NextNode, !.pc = "nonterminal", !.oldFollowSet = followSet]
           c == IF IsList(rep) THEN ListFrame(Name(NextNode), rep) ELSE Callee(Name(NextNode))
           mid == [stack EXCEPT ![Len(stack)] = f]
<1>1. stack # <<>> /\ HasFields(Top) /\ Top.fn = "apply" /\ ~Reading(Last(stack))
  BY TopCalm DEF ToNonterminal
<1>2. HasFields(f) /\ Reading(f) /\ f.oldFollowSet = followSet /\ f.class = Top.class
      /\ f.node = NextNode
  BY <1>1 DEF HasFields, Reading
<1>3. Saved(grammar, firstSets, below, followSet)
  BY <1>1, SavedPop DEF IInv
<1>4. Pushed(below, f, mid)
  BY <1>1, FrontFrames DEF IInv, Saved
<1>5. Pushed(mid, c, stack') /\ UNCHANGED <<grammar, firstSets>>
      /\ followSet' = ComputeFollowSet(grammar[Top.class], NextNode, firstSets)
  BY DEF ToNonterminal, Calls, Pushed, Rest, Tree
<1>6. Calm(c)
  BY NewFramesCalm
<1> HIDE DEF below, f, c, mid
<1>7. followSet' = OwnSet(grammar, firstSets, f)
  BY <1>2, <1>5 DEF OwnSet
<1>8. Saved(grammar, firstSets, mid, OwnSet(grammar, firstSets, f))
  BY <1>2, <1>3, <1>4, SavedPushReading
<1>9. Saved(grammar, firstSets, stack', OwnSet(grammar, firstSets, f))
  BY <1>5, <1>6, <1>8, SavedPush DEF Calm
<1>. QED
  BY <1>5, <1>7, <1>9 DEF IInv

(* What was saved is what is in force below the frame.                      *)
LEMMA AfterNonterminalPreserves ==
  ASSUME IInv, AfterNonterminal PROVE IInv'
<1> DEFINE below == Front(stack)
           f == [Top EXCEPT !.pc = "walk", !.isFirst = FALSE, !.values = Append(@, ret.expr)]
<1>1. stack # <<>> /\ Top = Last(stack) /\ Top.fn = "apply" /\ Reading(Last(stack))
  BY DEF AfterNonterminal, At, Top, Reading
<1>2. HasFields(Top)
  <2>1. Len(stack) \in Nat \ {0} /\ Top = stack[Len(stack)]
    BY <1>1, FrontFrames DEF IInv, Saved
  <2>2. Len(stack) \in 1 .. Len(stack)
    BY <2>1
  <2>. QED
    BY <2>1, <2>2 DEF IInv, Saved
<1>3. Saved(grammar, firstSets, below, Top.oldFollowSet)
  BY <1>1, SavedPop DEF IInv
<1>4. UNCHANGED <<grammar, firstSets>> /\ followSet' = Top.oldFollowSet
  BY DEF AfterNonterminal, Rest, FollowSetAfter
<1>5. stack' = Front(stack) \/ stack' = [stack EXCEPT ![Len(stack)] = f]
  BY DEF AfterNonterminal, Returns, Becomes
<1>6. CASE stack' = Front(stack)
  BY <1>3, <1>4, <1>6 DEF IInv
<1>7. CASE stack' = [stack EXCEPT ![Len(stack)] = f]
  <2>1. DOMAIN f = DOMAIN Top /\ f.fn = "apply" /\ f.pc = "walk"
    BY <1>1, <1>2 DEF HasFields
  <2>2. Pushed(below, f, stack')
    BY <1>1, <1>7, FrontFrames DEF IInv, Saved
  <2> HIDE DEF f, below
  <2>3. HasFields(f) /\ ~Reading(f)
    BY <1>1, <1>2, <2>1, StillCalm DEF Calm
  <2>4. Saved(grammar, firstSets, stack', Top.oldFollowSet)
    BY <1>3, <2>2, <2>3, SavedPush
  <2>. QED
    BY <1>4, <2>4 DEF IInv
<1>. QED
  BY <1>5, <1>6, <1>7

-----------------------------------------------------------------------------
(* The initial states.                                                      *)
LEMMA InitSaved ==
  ASSUME Init PROVE IInv
<1>1. stack = <<LevelFrame("STMT")>> /\ followSet = {}
  BY DEF Init
<1>2. stack \in Seq(Range(stack)) /\ Len(stack) = 1 /\ stack[1] = LevelFrame("STMT")
  BY <1>1 DEF Range
<1>3. \A i \in 1 .. 1 : stack[i] = LevelFrame("STMT")
  BY <1>2
<1>4. HasFields(LevelFrame("STMT")) /\ ~Reading(LevelFrame("STMT"))
  BY NewFramesCalm DEF Calm
<1>5. \A i \in 1 .. Len(stack) : HasFields(stack[i]) /\ ~Reading(stack[i])
  BY <1>2, <1>3, <1>4
<1>. QED
  BY <1>1, <1>2, <1>5 DEF IInv, Saved, InForce

(* Every step.                                                              *)
LEMMA StepSaved ==
  ASSUME IInv, [Next]_vars PROVE IInv'
<1>1. ASSUME NEW fn, NEW pc, At(fn, pc), fn # "apply" \/ pc # "nonterminal",
             QuietStep, UNCHANGED <<grammar, firstSets, followSet>>
      PROVE  IInv'
  BY <1>1, TopCalm, QuietPreserves
<1>2. CASE Enter
  BY <1>2, <1>1, EnterQuiet DEF Enter, Same, Rest
<1>3. CASE AfterKeyword
  BY <1>3, <1>1, AfterKeywordQuiet DEF AfterKeyword, Same, Rest
<1>4. CASE AfterBelow
  BY <1>4, <1>1, AfterBelowQuiet DEF AfterBelow, Same, Rest
<1>5. CASE AfterContinued
  BY <1>5, <1>1, AfterContinuedQuiet DEF AfterContinued, Same, Rest
<1>6. CASE Operator
  BY <1>6, <1>1, OperatorQuiet DEF Operator, Same, Rest
<1>7. CASE AfterRight
  BY <1>7, <1>1, AfterRightQuiet DEF AfterRight, Same, Rest
<1>8. CASE Term
  BY <1>8, <1>1, TermQuiet DEF Term, Same, Rest
<1>9. CASE AfterParen
  BY <1>9, <1>1, AfterParenQuiet DEF AfterParen, Rest
<1>10. CASE ApplyEnter
  BY <1>10, <1>1, ApplyEnterQuiet DEF ApplyEnter, Same, Rest
<1>11. CASE Stop
  BY <1>11, <1>1, StopQuiet DEF Stop, Same, Rest
<1>12. CASE ToTerminal
  BY <1>12, <1>1, ToTerminalQuiet DEF ToTerminal, Same, Rest
<1>13. CASE ListEnter
  BY <1>13, <1>1, ListEnterQuiet DEF ListEnter, Same, Rest
<1>14. CASE AfterItem
  BY <1>14, <1>1, AfterItemQuiet DEF AfterItem, Same, Rest
<1>15. CASE Finished \/ UNCHANGED vars
  BY <1>15 DEF Finished, vars, IInv
<1>. QED
  BY <1>2, <1>3, <1>4, <1>5, <1>6, <1>7, <1>8, <1>9, <1>10, <1>11, <1>12, <1>13, <1>14,
     <1>15, ToNonterminalPreserves, AfterNonterminalPreserves DEF Next

(* What the invariant says of the set that is in force.                     *)
LEMMA SavedIsInnermost ==
  ASSUME IInv PROVE FollowSetOfInnermost
<1> DEFINE reading == {i \in DOMAIN stack : Reading(stack[i])}
           k == CHOOSE i \in reading : \A j \in reading : j <= i
<1>1. DOMAIN stack = 1 .. Len(stack) /\ Len(stack) \in Nat
  BY DEF IInv, Saved
<1>2. CASE followSet = {} /\ \A i \in 1 .. Len(stack) : ~Reading(stack[i])
  <2>1. reading = {}
    BY <1>1, <1>2
  <2>. QED
    BY <1>2, <2>1 DEF FollowSetOfInnermost, Reading
<1>3. CASE \E i \in 1 .. Len(stack) :
             /\ Reading(stack[i]) /\ followSet = OwnSet(grammar, firstSets, stack[i])
             /\ \A j \in i + 1 .. Len(stack) : ~Reading(stack[j])
  <2>1. PICK i \in 1 .. Len(stack) :
             /\ Reading(stack[i]) /\ followSet = OwnSet(grammar, firstSets, stack[i])
             /\ \A j \in i + 1 .. Len(stack) : ~Reading(stack[j])
    BY <1>3
  <2>2. i \in reading /\ reading \subseteq 1 .. Len(stack)
    BY <1>1, <2>1
  <2>3. \A j \in reading : j <= i
    BY <1>1, <2>1
  <2>4. k \in reading /\ \A j \in reading : j <= k
    <3> HIDE DEF reading
    <3>. QED
      BY <2>2, <2>3
  <2>5. k = i
    <3> HIDE DEF reading, k
    <3>. QED
      BY <1>1, <2>2, <2>3, <2>4
  <2>. QED
    BY <2>1, <2>2, <2>5, SMTT(20) DEF FollowSetOfInnermost, Reading, OwnSet
<1>. QED
  BY <1>2, <1>3 DEF IInv, Saved, InForce

(* Every call of Parser_ApplyCustomSyntax that waits for a nonterminal has  *)
(* saved the follow set of the next one outside, or none where there is     *)
(* none.                                                                    *)
THEOREM FollowSetsSaved == Spec => []IInv
<1>1. Init => IInv
  BY InitSaved
<1>2. IInv /\ [Next]_vars => IInv'
  BY StepSaved
<1>. QED
  BY <1>1, <1>2, PTL DEF Spec

(* FollowSetOfInnermost, for every set of rules and every input: the names  *)
(* that are not taken for operators are those the innermost rule may go on  *)
(* with, also after an error inside it.                                     *)
THEOREM FollowSetRestored == Spec => []FollowSetOfInnermost
BY FollowSetsSaved, SavedIsInnermost, PTL
=============================================================================
