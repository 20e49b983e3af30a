---------------------------- MODULE TokenStream -----------------------------
(***************************************************************************)
(* What the lexer promises the parser: the tokens of the text one after    *)
(* the other, from a cursor that can be moved back, and for a name whether *)
(* it is declared at the time it is read.                                  *)
(***************************************************************************)
EXTENDS Integers, Sequences

CONSTANTS
  Names,     \* the names
  Marks,     \* every other token
  Text,      \* the tokens of the text
  EndOfInput, \* what is read after them
  MaxBack,   \* how far the cursor may be moved back
  MaxScans   \* bound on the tokens read

(* The n-th token; the end of the input can be read again and again.        *)
TextAt(n) == IF n \in 1 .. Len(Text) THEN Text[n] ELSE EndOfInput

VARIABLES
  cursor,    \* how many tokens lie behind
  furthest,  \* the largest value cursor had
  current,   \* the number of the token that was read last
  declared,  \* the names that are declared
  answer     \* of the last call: who asked, the number of the token and its kind

vars == <<cursor, furthest, current, declared, answer>>

Max(a, b) == IF a >= b THEN a ELSE b

Init ==
  /\ cursor = 0 /\ furthest = 0 /\ current = 0
  /\ declared = {}
  /\ answer = [by |-> "lexer", at |-> 0, kind |-> "known"]

MoveTo(c) == cursor' = c /\ current' = c
Look == cursor < MaxScans /\ furthest' = Max(furthest, cursor + 1)
Kinds == {"known", "unknown"}
(* Nothing is promised to others on what a name is taken for.               *)
Unclassified ==
  \E k \in Kinds : answer' = [by |-> "lexer", at |-> cursor + 1, kind |-> k]
KindOf(name) == IF name \in declared THEN "known" ELSE "unknown"

Next_ == Look /\ MoveTo(cursor + 1) /\ Unclassified /\ UNCHANGED declared

NextToken ==
  /\ Look /\ MoveTo(cursor + 1)
  /\ \E k \in Kinds :
       /\ answer' = [by |-> "parser", at |-> cursor + 1, kind |-> k]
       /\ TextAt(cursor + 1) \in Names => k = KindOf(TextAt(cursor + 1))
  /\ UNCHANGED declared

Peek == Look /\ Unclassified /\ UNCHANGED <<cursor, current, declared>>

Unget ==
  /\ cursor > 0 /\ furthest - cursor < MaxBack
  /\ MoveTo(cursor - 1)
  /\ UNCHANGED <<furthest, declared, answer>>

GetPosition == Unclassified /\ UNCHANGED <<cursor, furthest, current, declared>>

Declare ==
  /\ declared' \in SUBSET Names
  /\ UNCHANGED <<cursor, furthest, current, answer>>

Next == Next_ \/ NextToken \/ Peek \/ Unget \/ GetPosition \/ Declare

Spec == Init /\ [][Next]_vars
=============================================================================
