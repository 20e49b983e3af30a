------------------------------- MODULE MCEval -------------------------------
(***************************************************************************)
(* Programs for the compiler and the machine to run.                       *)
(***************************************************************************)
EXTENDS Eval

Ask       == <<"call", <<<<"sym", "ask">>>>>>
Say(n)    == <<"call", <<<<"sym", "say">>, <<"lit", <<"int", n>>>>>>>>
Number(n) == <<"lit", <<"int", n>>>>
X         == <<"sym", "x">>
A         == <<"sym", "a">>
B         == <<"sym", "b">>
Fn0(e)    == <<"fn", <<>>, e>>
Do(e)     == <<"call", <<e>>>>
If(t, f)  == <<"if", Ask, t, f>>
Then(e)   == <<"progn", <<e, X>>>>
Set(v, e) == <<"set", v, e>>

Simple == {Ask, Say(1), X}
MaybeSimple == Simple \cup {NullOb}

(* Expressions with one level of structure.                                 *)
Straight ==
  MaybeSimple
  \cup {Set("x", Ask), <<"not", Ask>>, <<"eq", Ask, Ask>>,
        Do(X), Do(<<"sym", "say">>), Do(<<"fn", <<"x">>, X>>), <<"brk">>}
  \cup {<<op, <<a, b>>>> : op \in {"and", "or", "progn", "prog1"}, a \in Simple, b \in {Ask, Say(1)}}
  \cup {If(a, b) : a \in MaybeSimple, b \in MaybeSimple}
  \cup {<<"scope", <<"x">>, <<Set("x", Ask), a, X>>>> : a \in Simple}
  \cup {<<"call", <<<<"fn", <<"x">>, a>>, b>>>> : a \in Simple, b \in {Ask, Say(1)}}
  \cup {Then(<<"while", NullOb, Ask, b>>) : b \in MaybeSimple}
  \cup {Then(<<"while", a, Ask, NullOb>>) : a \in Simple}

Loops ==
  {<<"while", NullOb, Ask, b>> : b \in MaybeSimple} \cup {<<"while", a, Ask, NullOb>> : a \in Simple}

(* The places an expression can stand in.                                   *)
Place(e) ==
  {e, Then(e), <<"progn", <<Say(3), e>>>>, <<"prog1", <<e, Ask>>>>, <<"prog1", <<Ask, e>>>>,
   <<"call", <<<<"sym", "say">>, e>>>>, Set("x", e), <<"not", e>>,
   <<"and", <<Ask, e>>>>, <<"or", <<e, Ask>>>>, <<"if", e, Say(3), Number(4)>>,
   If(e, Number(4)), Then(If(Number(4), e)), <<"while", NullOb, <<"and", <<e, Ask>>>>, NullOb>>,
   <<"scope", <<"x">>, <<e, X>>>>, Do(Fn0(e)), <<"call", <<<<"fn", <<"x">>, X>>, e>>>>}

In(e) == Place(e) \cup {<<"eq", e, Ask>>, <<"eq", Ask, e>>}

MCPrograms == UNION {In(f) : f \in UNION {Place(e) : e \in Straight}}

(* Ways to leave loops and functions early.                                 *)
TillA(body, whens) == <<"till", <<"a">>, body, whens>>
WhenA(e) == <<<<"a", e>>>>
Return   == <<"return", <<>>>>

OneExit ==
  {TillA(body, whens) :
     body  \in {If(A, NullOb), Do(Fn0(If(A, NullOb))), <<"call", <<<<"sym", "say">>, Do(Fn0(If(A, Number(5))))>>>>,
                <<"progn", <<If(A, Say(1)), Ask>>>>,
                <<"prog1", <<Do(Fn0(If(A, Say(1)))), If(A, NullOb)>>>>,
                Then(<<"while", NullOb, Ask, If(A, NullOb)>>)},
     whens \in {<<>>, WhenA(Ask), WhenA(Say(2))}}
  \cup {TillA(<<"till", <<"b">>, Do(Fn0(If(e, B))), <<<<"b", Say(1)>>>>>>, WhenA(Say(2))) : e \in {A, B}}
  \cup {Do(Fn0(<<"progn", <<If(Return, Say(1)), Say(2)>>>>)),
        Do(Fn0(Then(<<"while", NullOb, Ask, If(Return, NullOb)>>))),
        Do(Fn0(TillA(If(Return, If(A, NullOb)), WhenA(Ask))))}

TwoExits ==
  {<<"till", <<"a", "b">>, body, whens>> :
     body  \in {If(A, If(B, NullOb)), <<"and", <<Do(Fn0(If(A, Ask))), Do(Fn0(If(B, Ask)))>>>>},
     whens \in {<<>>, WhenA(Say(2)), <<<<"b", Say(2)>>, <<"a", Ask>>>>}}

(* A function that outlives the loop it leaves.                             *)
Outlives(body) == <<"scope", <<"f">>, <<Do(Fn0(TillA(<<"progn", <<Set("f", Fn0(A)), body>>>>, <<>>))),
                                       Say(1), Do(<<"sym", "f">>), Say(2)>>>>
EarlyExits ==
  UNION {In(e) : e \in TwoExits \cup UNION {Place(f) : f \in Loops \cup OneExit}}
  \cup {Outlives(A), Outlives(Do(Fn0(A))), Outlives(Do(<<"sym", "f">>))}

(* Loops that end by what they do rather than by what they are told.        *)
Y  == <<"sym", "y">>
No == <<"lit", <<"bool", FALSE>>>>
Ends == {Set("y", No), Do(Fn0(Set("y", No))), <<"prog1", <<Say(1), Set("y", No)>>>>,
         <<"if", Y, Set("y", No), NullOb>>, <<"call", <<<<"fn", <<"y">>, Set("x", Y)>>, Set("y", No)>>>>}
Counted(e) ==
  {<<"while", NullOb, Y, e>>, <<"while", e, Y, NullOb>>, TillA(<<"if", Y, e, A>>, <<>>),
   <<"while", NullOb, <<"or", <<Y, <<"eq", Y, Ask>>>>>>, e>>, Do(Fn0(TillA(<<"if", Y, e, Do(Fn0(A))>>, <<>>)))}

CountedLoops ==
  {<<"scope", <<"y">>, <<<<"if", Set("y", Ask), loop, Say(2)>>, Say(1)>>>> :
     loop \in UNION {In(c) : c \in UNION {Counted(e) : e \in Ends}}}

MCEarly == EarlyExits \cup CountedLoops

-----------------------------------------------------------------------------
(* Functions that return a value.                                           *)
ReturnsOfAValue == {Do(Fn0(<<"return", <<Number(5)>>>>)), Do(Fn0(If(<<"return", <<Ask>>>>, Say(1))))}
=============================================================================
