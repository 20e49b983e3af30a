----------------------------- MODULE TokenRing ------------------------------
(***************************************************************************)
(* The ring of 16 tokens between the lexer and the parser                  *)
(* (parsing/lexer.h, lexer/lexer.c, parserinternal.h).                     *)
(*                                                                         *)
(* Every token is written into the slot after the one before it.  Ungetting *)
(* moves an index back; reading moves it forward again until all that was  *)
(* put back has been read, and then scans the text.  The parser asks for a *)
(* token with Lexer_Next or with Parser_NextToken; the latter also writes  *)
(* into the slot whether the name is declared in the scope of the moment.  *)
(* How a token is made from text is the business of Scanner: here the n-th *)
(* one is Text[n].                                                         *)
(***************************************************************************)
EXTENDS Integers, Sequences

CONSTANTS Names, Marks, Text, EndOfInput,
  MaxScans   \* bound on the tokens that are scanned

Slots == 16
MaxUngets == 15

VARIABLES
  tokenBuffer,  \* the token in each slot
  token,        \* lexer->token: the slot of the current one
  tokenIndex,
  ungetCount,
  scanned,      \* how many tokens have been made from the text (lexer->src)
  declared,     \* the names that the parser's current scope declares
  answer        \* of the last call: whether it was Parser_NextToken, the number
                \* of the token it is about and its kind

vars == <<tokenBuffer, token, tokenIndex, ungetCount, scanned, declared, answer>>

Stream == INSTANCE TokenStream WITH
  MaxBack <- MaxUngets,
  cursor <- tokenIndex, furthest <- tokenIndex + ungetCount,
  current <- tokenBuffer[token].at

TextAt(n) == IF n \in 1 .. Len(Text) THEN Text[n] ELSE EndOfInput

ASSUME TextAssumption == Text \in Seq(Names \cup Marks)
ASSUME ScansAssumption == MaxScans \in Nat

(* As a bug would have it: the mask is one less.                            *)
SlotMasked(i) == i % (Slots - 1)

(* index & 15                                                               *)
Slot(i) == i % Slots

NoToken == [at |-> 0, name |-> EndOfInput, kind |-> "known"]

(* A name is TOKEN_ALPHANAME or TOKEN_PUNCTNAME when it is scanned, and     *)
(* TOKEN_UNKNOWN... once the parser has found that it is not declared.      *)
Kinds == {"known", "unknown"}
Scan(n) == [at |-> n, name |-> TextAt(n), kind |-> "known"]

Init ==
  /\ tokenBuffer = [s \in 0 .. Slots - 1 |-> NoToken]
  /\ token = 0 /\ tokenIndex = 0 /\ ungetCount = 0 /\ scanned = 0
  /\ declared = {}
  /\ answer = [by |-> "lexer", at |-> 0, kind |-> "known"]

(* The ring once the next token is in it.                                   *)
NextBuffer ==
  IF ungetCount > 0 THEN tokenBuffer
  ELSE [tokenBuffer EXCEPT ![Slot(tokenIndex + 1)] = Scan(scanned + 1)]

NextCounts ==
  /\ scanned' = IF ungetCount > 0 THEN scanned ELSE scanned + 1
  /\ ungetCount' = IF ungetCount > 0 THEN ungetCount - 1 ELSE 0

CanScan == ungetCount > 0 \/ scanned < MaxScans

Advance == tokenIndex' = tokenIndex + 1 /\ token' = Slot(tokenIndex + 1)

AnswerOf(t, caller) == [by |-> caller, at |-> t.at, kind |-> t.kind]

(* Lexer_Next.                                                              *)
LexerNext ==
  /\ CanScan
  /\ Advance /\ NextCounts
  /\ tokenBuffer' = NextBuffer
  /\ answer' = AnswerOf(NextBuffer[Slot(tokenIndex + 1)], "lexer")
  /\ UNCHANGED declared

KindOf(name) == IF name \in declared THEN "known" ELSE "unknown"

(* As a bug would have it: a name is looked up the first time only.         *)
ReclassifiedOnce(t) ==
  IF t.name \in Names /\ ungetCount = 0 THEN [t EXCEPT !.kind = KindOf(t.name)] ELSE t

(* Parser_NextToken: names are looked up every time.                        *)
Reclassified(t) == IF t.name \in Names THEN [t EXCEPT !.kind = KindOf(t.name)] ELSE t

ParserNextToken ==
  /\ CanScan
  /\ Advance /\ NextCounts
  /\ LET s == Slot(tokenIndex + 1)
         t == Reclassified(NextBuffer[s])
     IN /\ tokenBuffer' = [NextBuffer EXCEPT ![s] = t]
        /\ answer' = AnswerOf(t, "parser")
  /\ UNCHANGED declared

(* Lexer_Unget.  The count has no limit; the parser keeps to the one that   *)
(* the comment gives.                                                       *)
LexerUnget ==
  /\ tokenIndex > 0 /\ ungetCount < MaxUngets
  /\ ungetCount' = ungetCount + 1
  /\ tokenIndex' = tokenIndex - 1
  /\ token' = Slot(tokenIndex - 1)
  /\ UNCHANGED <<tokenBuffer, scanned, declared, answer>>

(* As a bug would have it: peeking looks names up.                          *)
LexerPeekClassifies ==
  /\ CanScan
  /\ LET s == Slot(tokenIndex + 1)
     IN /\ tokenBuffer' = [NextBuffer EXCEPT ![s] = Reclassified(@)]
        /\ answer' = AnswerOf(tokenBuffer'[s], "lexer")
  /\ scanned' = IF ungetCount > 0 THEN scanned ELSE scanned + 1
  /\ ungetCount' = IF ungetCount > 0 THEN ungetCount ELSE 1
  /\ token' = Slot(tokenIndex)
  /\ UNCHANGED <<tokenIndex, declared>>

(* Lexer_Peek: Lexer_Next and Lexer_Unget.                                  *)
LexerPeek ==
  /\ CanScan
  /\ tokenBuffer' = NextBuffer
  /\ answer' = AnswerOf(NextBuffer[Slot(tokenIndex + 1)], "lexer")
  /\ scanned' = IF ungetCount > 0 THEN scanned ELSE scanned + 1
  /\ ungetCount' = IF ungetCount > 0 THEN ungetCount ELSE 1
  /\ token' = Slot(tokenIndex)
  /\ UNCHANGED <<tokenIndex, declared>>

(* Lexer_GetPosition: that of a token that was put back, or of the next     *)
(* text.                                                                    *)
Position == IF ungetCount > 0 THEN tokenBuffer[Slot(tokenIndex + 1)].at ELSE scanned + 1

LexerGetPosition ==
  /\ answer' = [by |-> "lexer", at |-> Position, kind |-> "known"]
  /\ UNCHANGED <<tokenBuffer, token, tokenIndex, ungetCount, scanned, declared>>

(* The parser declares a name, or enters or leaves a scope.                 *)
Declare ==
  /\ declared' \in SUBSET Names
  /\ UNCHANGED <<tokenBuffer, token, tokenIndex, ungetCount, scanned, answer>>

Next == LexerNext \/ ParserNextToken \/ LexerUnget \/ LexerPeek \/ LexerGetPosition \/ Declare

Spec == Init /\ [][Next]_vars

-----------------------------------------------------------------------------
Tokens == [at : Nat, name : Names \cup Marks \cup {EndOfInput}, kind : Kinds]

(* The indexes of the ring stay inside it, and no more is put back than     *)
(* Lexer_Unget allows.                                                      *)
TypeOK ==
  /\ tokenBuffer \in [0 .. Slots - 1 -> Tokens]
  /\ token \in 0 .. Slots - 1
  /\ tokenIndex \in Nat /\ ungetCount \in 0 .. MaxUngets /\ scanned \in 0 .. MaxScans
  /\ declared \subseteq Names
  /\ answer \in [by : {"lexer", "parser"}, at : Nat, kind : Kinds]

(* The ring holds the last 16 tokens of the text, each in its slot, however *)
(* often the parser went back and forth, and nothing else.                  *)
HoldsTheLast ==
  /\ scanned = tokenIndex + ungetCount
  /\ token = Slot(tokenIndex)
  /\ \A n \in 1 .. scanned :
       n > scanned - Slots => /\ tokenBuffer[Slot(n)].at = n
                              /\ tokenBuffer[Slot(n)].name = TextAt(n)
  /\ \A s \in 0 .. Slots - 1 : scanned < Slots /\ (s = 0 \/ s > scanned) => tokenBuffer[s] = NoToken

(* A slot changes when its token is read again, or else for the 16th token  *)
(* after it.                                                                *)
KeepsTokens ==
  \A s \in 0 .. Slots - 1 :
    tokenBuffer'[s] # tokenBuffer[s] =>
      \/ s = token' /\ tokenBuffer'[s].at = tokenBuffer[s].at
      \/ /\ tokenBuffer'[s].at = scanned + 1
         /\ tokenBuffer[s].at # 0 => tokenBuffer'[s].at = tokenBuffer[s].at + Slots

(* What the parser still points to does not "expire until 15 more tokens    *)
(* have been read", as parsing/README.md says.                              *)
ExpiresLate == [][KeepsTokens]_vars

(* The ring behaves as a cursor on the text: what was put back is read      *)
(* again, in the same order, and Parser_NextToken says of a name whether it *)
(* is declared now, also when the token was read before in another scope.   *)
ImplementsStream == Stream!Spec
=============================================================================
