-------------------------- MODULE TokenRingProofs ---------------------------
(***************************************************************************)
(* Proofs about TokenRing, for every text, every set of names and every    *)
(* number of tokens.                                                       *)
(***************************************************************************)
EXTENDS TokenRing, TLAPS

Inv == TypeOK /\ HoldsTheLast

-----------------------------------------------------------------------------
(* Every token of the text is one.                                          *)
LEMMA TextType == \A n \in Nat : TextAt(n) \in Names \cup Marks \cup {EndOfInput}
<1>1. \A n \in 1 .. Len(Text) : Text[n] \in Names \cup Marks
  BY TextAssumption
<1> QED  BY <1>1 DEF TextAt

(* What is scanned from it is a token.                                      *)
LEMMA ScanType == \A n \in Nat : Scan(n) \in Tokens
  BY TextType DEF Scan, Tokens, Kinds

(* Looking a name up changes neither its number nor its text.               *)
LEMMA ReclassifiedType ==
  ASSUME NEW t \in Tokens
  PROVE  /\ Reclassified(t) \in Tokens
         /\ Reclassified(t).at = t.at /\ Reclassified(t).name = t.name
         /\ t.name \in Names => Reclassified(t).kind = KindOf(t.name)
  BY DEF Reclassified, Tokens, Kinds, KindOf

(* The index and the counts of the ring, the index in its range.            *)
LEMMA Counts ==
  ASSUME Inv
  PROVE  /\ tokenIndex \in Nat /\ ungetCount \in 0 .. MaxUngets /\ scanned \in Nat
         /\ scanned = tokenIndex + ungetCount /\ scanned <= MaxScans
         /\ Slot(tokenIndex + 1) \in 0 .. Slots - 1 /\ Slot(tokenIndex) \in 0 .. Slots - 1
<1>1. tokenIndex \in Nat /\ ungetCount \in 0 .. MaxUngets /\ scanned \in 0 .. MaxScans
  BY DEF Inv, TypeOK
<1> QED  BY <1>1, ScansAssumption DEF Inv, HoldsTheLast, Slot, Slots

(* What Lexer_Next makes of the ring: the next token is in the slot after   *)
(* the current one, and everything it keeps is where it was.                *)
LEMMA NextBufferType ==
  ASSUME Inv
  PROVE  /\ NextBuffer \in [0 .. Slots - 1 -> Tokens]
         /\ \A s \in 0 .. Slots - 1 : s # Slot(tokenIndex + 1) => NextBuffer[s] = tokenBuffer[s]
         /\ ungetCount > 0 => NextBuffer = tokenBuffer
         /\ ungetCount = 0 => NextBuffer[Slot(tokenIndex + 1)] = Scan(scanned + 1)
         /\ NextBuffer[Slot(tokenIndex + 1)].at = tokenIndex + 1
         /\ NextBuffer[Slot(tokenIndex + 1)].name = TextAt(tokenIndex + 1)
<1> USE DEF Inv
<1>1. Slot(tokenIndex + 1) \in 0 .. Slots - 1
  BY DEF TypeOK, Slot, Slots
<1>2. CASE ungetCount > 0
  <2>1. tokenIndex + 1 \in 1 .. scanned /\ tokenIndex + 1 > scanned - Slots
    BY <1>2 DEF TypeOK, HoldsTheLast, Slots, MaxUngets
  <2>2. /\ tokenBuffer[Slot(tokenIndex + 1)].at = tokenIndex + 1
        /\ tokenBuffer[Slot(tokenIndex + 1)].name = TextAt(tokenIndex + 1)
    BY <2>1 DEF HoldsTheLast
  <2> QED  BY <1>1, <1>2, <2>2 DEF NextBuffer, TypeOK
<1>3. CASE ungetCount = 0
  <2>1. Scan(scanned + 1) \in Tokens
    BY ScanType DEF TypeOK
  <2>2. NextBuffer = [tokenBuffer EXCEPT ![Slot(tokenIndex + 1)] = Scan(scanned + 1)]
    BY <1>3 DEF NextBuffer
  <2>3. scanned = tokenIndex
    BY <1>3 DEF TypeOK, HoldsTheLast
  <2>4. tokenBuffer \in [0 .. Slots - 1 -> Tokens]
    BY DEF TypeOK
  <2>5. /\ Scan(scanned + 1).at = tokenIndex + 1
        /\ Scan(scanned + 1).name = TextAt(tokenIndex + 1)
    BY <2>3 DEF Scan
  <2> QED  BY <1>1, <1>3, <2>1, <2>2, <2>4, <2>5
<1> QED  BY <1>2, <1>3 DEF TypeOK, MaxUngets

(* A ring that differs from NextBuffer at most in whether a token is known  *)
(* holds the last 16 tokens again.                                          *)
LEMMA NextHoldsTheLast ==
  ASSUME Inv, NEW b \in [0 .. Slots - 1 -> Tokens], NEW k \in Nat,
         k = IF ungetCount > 0 THEN scanned ELSE scanned + 1,
         \A s \in 0 .. Slots - 1 : b[s].at = NextBuffer[s].at /\ b[s].name = NextBuffer[s].name,
         \A s \in 0 .. Slots - 1 : s # Slot(tokenIndex + 1) => b[s] = NextBuffer[s]
  PROVE  /\ \A n \in 1 .. k :
              n > k - Slots => b[Slot(n)].at = n /\ b[Slot(n)].name = TextAt(n)
         /\ \A s \in 0 .. Slots - 1 : k < Slots /\ (s = 0 \/ s > k) => b[s] = NoToken
<1>0. /\ scanned \in Nat /\ tokenIndex \in Nat /\ ungetCount \in 0 .. MaxUngets
      /\ tokenBuffer \in [0 .. Slots - 1 -> Tokens]
      /\ scanned = tokenIndex + ungetCount
  BY Counts DEF Inv, TypeOK
<1>a. \A n \in 1 .. scanned :
        n > scanned - Slots => /\ tokenBuffer[Slot(n)].at = n
                               /\ tokenBuffer[Slot(n)].name = TextAt(n)
  BY DEF Inv, HoldsTheLast
<1>b. \A s \in 0 .. Slots - 1 : scanned < Slots /\ (s = 0 \/ s > scanned) => tokenBuffer[s] = NoToken
  BY DEF Inv, HoldsTheLast
<1>1. CASE ungetCount > 0
  <2>1. ASSUME NEW n \in 1 .. k, n > k - Slots
        PROVE  b[Slot(n)].at = n /\ b[Slot(n)].name = TextAt(n)
    <3>1. k = scanned /\ NextBuffer = tokenBuffer
      BY <1>1, NextBufferType
    <3>2. Slot(n) \in 0 .. Slots - 1
      BY <2>1 DEF Slot, Slots
    <3> QED  BY <1>a, <2>1, <3>1, <3>2
  <2>2. ASSUME NEW s \in 0 .. Slots - 1, k < Slots, s = 0 \/ s > k
        PROVE  b[s] = NoToken
    <3>1. tokenIndex + 1 \in 1 .. k /\ tokenIndex + 1 \in 0 .. Slots - 1
      BY <1>0, <1>1, <2>2 DEF Slots, MaxUngets
    <3>2. s # Slot(tokenIndex + 1)
      BY <1>0, <2>2, <3>1 DEF Slot, Slots
    <3>3. k = scanned /\ NextBuffer = tokenBuffer
      BY <1>1, NextBufferType
    <3> QED  BY <1>b, <2>2, <3>2, <3>3
  <2> QED  BY <2>1, <2>2
<1>2. CASE ungetCount = 0
  <2>1. k = scanned + 1 /\ tokenIndex = scanned
    BY <1>0, <1>2
  <2>2. ASSUME NEW n \in 1 .. k, n > k - Slots
        PROVE  b[Slot(n)].at = n /\ b[Slot(n)].name = TextAt(n)
    <3>1. CASE n = k
      <4>1. Slot(n) = Slot(tokenIndex + 1) /\ Slot(n) \in 0 .. Slots - 1
        BY <1>0, <2>1, <3>1 DEF Slot, Slots
      <4> QED  BY <2>1, <3>1, <4>1, NextBufferType
    <3>2. CASE n # k
      <4>1. n \in 1 .. scanned /\ n > scanned - Slots /\ n < k /\ k < n + Slots
        BY <1>0, <2>1, <2>2, <3>2 DEF Slots
      <4>2. Slot(n) # Slot(tokenIndex + 1) /\ Slot(n) \in 0 .. Slots - 1
        BY <1>0, <2>1, <4>1 DEF Slot, Slots
      <4>3. NextBuffer[Slot(n)] = tokenBuffer[Slot(n)]
        BY <4>2, NextBufferType
      <4> QED  BY <1>a, <4>1, <4>2, <4>3
    <3> QED  BY <3>1, <3>2
  <2>3. ASSUME NEW s \in 0 .. Slots - 1, k < Slots, s = 0 \/ s > k
        PROVE  b[s] = NoToken
    <3>1. k \in 1 .. Slots - 1 /\ Slot(tokenIndex + 1) = k
      BY <1>0, <2>1, <2>3 DEF Slot, Slots
    <3>2. s # Slot(tokenIndex + 1)
      BY <2>3, <3>1
    <3>3. NextBuffer[s] = tokenBuffer[s]
      BY <3>2, NextBufferType
    <3>4. scanned < Slots /\ (s = 0 \/ s > scanned)
      BY <1>0, <2>1, <2>3 DEF Slots
    <3> QED  BY <1>b, <3>2, <3>3, <3>4
  <2> QED  BY <2>2, <2>3
<1> QED  BY <1>0, <1>1, <1>2 DEF MaxUngets

-----------------------------------------------------------------------------
(* The initial states.                                                      *)
LEMMA InitInv == Init => Inv
<1> SUFFICES ASSUME Init PROVE Inv
  OBVIOUS
<1>1. NoToken \in Tokens
  BY DEF NoToken, Tokens, Kinds
<1>2. TypeOK
  <2>1. answer \in [by : {"lexer", "parser"}, at : Nat, kind : Kinds]
    BY DEF Init, Kinds
  <2> QED  BY <1>1, <2>1, ScansAssumption DEF Init, TypeOK, Slots, MaxUngets
<1>3. HoldsTheLast
  BY DEF Init, HoldsTheLast, Slots, Slot
<1> QED  BY <1>2, <1>3 DEF Inv

(* What is answered is a token as its reader sees it.                       *)
LEMMA AnswerType ==
  ASSUME NEW t \in Tokens, NEW c \in {"lexer", "parser"}
  PROVE  AnswerOf(t, c) \in [by : {"lexer", "parser"}, at : Nat, kind : Kinds]
  BY DEF AnswerOf, Tokens

(* Every call that reads a token leaves the invariant true: it puts a ring  *)
(* like NextBuffer in place of the old one and counts.                      *)
LEMMA ReadInv ==
  ASSUME Inv, CanScan,
         tokenBuffer' \in [0 .. Slots - 1 -> Tokens],
         \A s \in 0 .. Slots - 1 :
            /\ tokenBuffer'[s].at = NextBuffer[s].at /\ tokenBuffer'[s].name = NextBuffer[s].name
            /\ s # Slot(tokenIndex + 1) => tokenBuffer'[s] = NextBuffer[s],
         scanned' = IF ungetCount > 0 THEN scanned ELSE scanned + 1,
         tokenIndex' \in {tokenIndex, tokenIndex + 1},
         ungetCount' = scanned' - tokenIndex',
         token' = Slot(tokenIndex'), declared' = declared,
         answer' \in [by : {"lexer", "parser"}, at : Nat, kind : Kinds]
  PROVE  Inv'
<1>1. /\ scanned' \in 0 .. MaxScans /\ tokenIndex' \in Nat /\ ungetCount' \in 0 .. MaxUngets
      /\ scanned' = tokenIndex' + ungetCount'
  <2>0. /\ tokenIndex \in Nat /\ ungetCount \in 0 .. 15 /\ scanned \in Nat
        /\ scanned = tokenIndex + ungetCount /\ scanned <= MaxScans /\ MaxScans \in Nat
        /\ ungetCount > 0 \/ scanned < MaxScans
    BY Counts, ScansAssumption DEF MaxUngets, CanScan
  <2>1. tokenIndex' = tokenIndex \/ tokenIndex' = tokenIndex + 1
    OBVIOUS
  <2> DEFINE i == tokenIndex'
             n == scanned'
             u == ungetCount'
  <2>2. /\ i = tokenIndex \/ i = tokenIndex + 1
        /\ n = (IF ungetCount > 0 THEN scanned ELSE scanned + 1)
        /\ u = n - i
    BY <2>1
  <2> HIDE DEF i, n, u
  <2>3. n \in 0 .. MaxScans /\ i \in Nat /\ u \in 0 .. 15 /\ n = i + u
    BY ONLY <2>0, <2>2, SMT
  <2> QED  BY <2>3 DEF i, n, u, MaxUngets
<1>2. token' \in 0 .. Slots - 1
  <2> DEFINE i == tokenIndex'
  <2>1. i \in Nat /\ token' = Slot(i)
    BY <1>1
  <2> HIDE DEF i
  <2> QED  BY <2>1 DEF Slot, Slots
<1>3. TypeOK'
  BY <1>1, <1>2 DEF Inv, TypeOK
<1> DEFINE b == tokenBuffer'
           k == scanned'
<1>4. /\ \A n \in 1 .. k :
           n > k - Slots => b[Slot(n)].at = n /\ b[Slot(n)].name = TextAt(n)
      /\ \A s \in 0 .. Slots - 1 : k < Slots /\ (s = 0 \/ s > k) => b[s] = NoToken
  <2>1. /\ b \in [0 .. Slots - 1 -> Tokens] /\ k \in Nat
        /\ k = IF ungetCount > 0 THEN scanned ELSE scanned + 1
        /\ \A s \in 0 .. Slots - 1 : b[s].at = NextBuffer[s].at /\ b[s].name = NextBuffer[s].name
        /\ \A s \in 0 .. Slots - 1 : s # Slot(tokenIndex + 1) => b[s] = NextBuffer[s]
    BY <1>1, ScansAssumption
  <2> HIDE DEF b, k
  <2> QED  BY <2>1, NextHoldsTheLast
<1>5. HoldsTheLast'
  BY <1>1, <1>4 DEF HoldsTheLast
<1> QED  BY <1>3, <1>5 DEF Inv

(* Every step.                                                              *)
LEMMA NextInv == Inv /\ [Next]_vars => Inv'
<1> SUFFICES ASSUME Inv, [Next]_vars PROVE Inv'
  OBVIOUS
<1> DEFINE s == Slot(tokenIndex + 1)
<1>0. /\ s \in 0 .. Slots - 1 /\ NextBuffer \in [0 .. Slots - 1 -> Tokens]
      /\ NextBuffer[s] \in Tokens
  BY Counts, NextBufferType
<1>1. CASE LexerNext
  <2>1. tokenBuffer' = NextBuffer /\ answer' = AnswerOf(NextBuffer[s], "lexer")
    BY <1>1 DEF LexerNext
  <2>2. /\ scanned' = IF ungetCount > 0 THEN scanned ELSE scanned + 1
        /\ tokenIndex' = tokenIndex + 1 /\ token' = Slot(tokenIndex') /\ declared' = declared
        /\ ungetCount' = IF ungetCount > 0 THEN ungetCount - 1 ELSE 0
    BY <1>1 DEF LexerNext, Advance, NextCounts
  <2>3. ungetCount' = scanned' - tokenIndex'
    BY <2>2, Counts DEF MaxUngets
  <2>4. answer' \in [by : {"lexer", "parser"}, at : Nat, kind : Kinds] /\ CanScan
    BY <1>0, <1>1, <2>1, AnswerType DEF LexerNext
  <2> QED  BY <1>0, <2>1, <2>2, <2>3, <2>4, ReadInv
<1>2. CASE ParserNextToken
  <2> DEFINE t == Reclassified(NextBuffer[s])
  <2>1. t \in Tokens /\ t.at = NextBuffer[s].at /\ t.name = NextBuffer[s].name
    BY <1>0, ReclassifiedType
  <2>2. tokenBuffer' = [NextBuffer EXCEPT ![s] = t] /\ answer' = AnswerOf(t, "parser")
    BY <1>2 DEF ParserNextToken
  <2>3. /\ scanned' = IF ungetCount > 0 THEN scanned ELSE scanned + 1
        /\ tokenIndex' = tokenIndex + 1 /\ token' = Slot(tokenIndex') /\ declared' = declared
        /\ ungetCount' = IF ungetCount > 0 THEN ungetCount - 1 ELSE 0
    BY <1>2 DEF ParserNextToken, Advance, NextCounts
  <2>4. ungetCount' = scanned' - tokenIndex'
    BY <2>3, Counts DEF MaxUngets
  <2>5. answer' \in [by : {"lexer", "parser"}, at : Nat, kind : Kinds] /\ CanScan
    BY <1>2, <2>1, <2>2, AnswerType DEF ParserNextToken
  <2> HIDE DEF s, t
  <2>6. /\ tokenBuffer' \in [0 .. Slots - 1 -> Tokens]
        /\ \A r \in 0 .. Slots - 1 :
             /\ tokenBuffer'[r].at = NextBuffer[r].at /\ tokenBuffer'[r].name = NextBuffer[r].name
             /\ r # s => tokenBuffer'[r] = NextBuffer[r]
    BY <1>0, <2>1, <2>2
  <2> QED  BY <2>3, <2>4, <2>5, <2>6, ReadInv DEF s
<1>3. CASE LexerUnget
  <2>1. /\ tokenIndex > 0 /\ ungetCount < MaxUngets /\ ungetCount' = ungetCount + 1
        /\ tokenIndex' = tokenIndex - 1 /\ token' = Slot(tokenIndex')
        /\ UNCHANGED <<tokenBuffer, scanned, declared, answer>>
    BY <1>3 DEF LexerUnget
  <2>2. token' \in 0 .. Slots - 1 /\ scanned' = tokenIndex' + ungetCount'
    BY <2>1, Counts DEF Slot, Slots
  <2>3. TypeOK'
    BY <2>1, <2>2, Counts DEF Inv, TypeOK, MaxUngets
  <2>4. HoldsTheLast'
    BY <2>1, <2>2 DEF Inv, HoldsTheLast
  <2> QED  BY <2>3, <2>4 DEF Inv
<1>4. CASE LexerPeek
  <2>1. tokenBuffer' = NextBuffer /\ answer' = AnswerOf(NextBuffer[s], "lexer")
    BY <1>4 DEF LexerPeek
  <2>2. /\ scanned' = IF ungetCount > 0 THEN scanned ELSE scanned + 1
        /\ tokenIndex' = tokenIndex /\ token' = Slot(tokenIndex') /\ declared' = declared
        /\ ungetCount' = IF ungetCount > 0 THEN ungetCount ELSE 1
    BY <1>4 DEF LexerPeek
  <2>3. ungetCount' = scanned' - tokenIndex'
    BY <2>2, Counts DEF MaxUngets
  <2>4. answer' \in [by : {"lexer", "parser"}, at : Nat, kind : Kinds] /\ CanScan
    BY <1>0, <1>4, <2>1, AnswerType DEF LexerPeek
  <2> QED  BY <1>0, <2>1, <2>2, <2>3, <2>4, ReadInv
<1>5. CASE LexerGetPosition
  <2>1. Position \in Nat
    BY Counts, <1>0 DEF Position, Inv, TypeOK, Tokens
  <2>2. answer' \in [by : {"lexer", "parser"}, at : Nat, kind : Kinds]
    BY <1>5, <2>1 DEF LexerGetPosition, Kinds
  <2> QED  BY <1>5, <2>2 DEF LexerGetPosition, Inv, TypeOK, HoldsTheLast
<1>6. CASE Declare
  BY <1>6 DEF Declare, Inv, TypeOK, HoldsTheLast
<1>7. CASE UNCHANGED vars
  BY <1>7 DEF vars, Inv, TypeOK, HoldsTheLast
<1> QED  BY <1>1, <1>2, <1>3, <1>4, <1>5, <1>6, <1>7 DEF Next

(* Every behaviour.                                                         *)
LEMMA Invariant == Spec => []Inv
  BY InitInv, NextInv, PTL DEF Spec

(* The types of the ring's fields; the unget count never exceeds 15.        *)
THEOREM RingTypes == Spec => []TypeOK
  BY Invariant, PTL DEF Inv

(* The ring holds the last 16 tokens of any text (Lexer_Next, Lexer_Unget). *)
THEOREM RingHoldsTheLast == Spec => []HoldsTheLast
  BY Invariant, PTL DEF Inv

-----------------------------------------------------------------------------
(* A step that scans overwrites the slot of the 16th token before, if there *)
(* was one.                                                                 *)
LEMMA Overwritten ==
  ASSUME Inv, ungetCount = 0
  PROVE  LET s == Slot(tokenIndex + 1)
         IN tokenBuffer[s].at # 0 => scanned + 1 = tokenBuffer[s].at + Slots
<1> DEFINE s == Slot(tokenIndex + 1)
<1>1. scanned \in Nat /\ tokenIndex = scanned /\ s \in 0 .. Slots - 1
  BY Counts
<1>2. CASE scanned >= Slots
  <2>1. /\ scanned + 1 - Slots \in 1 .. scanned /\ scanned + 1 - Slots > scanned - Slots
        /\ Slot(scanned + 1 - Slots) = s
    BY <1>1, <1>2 DEF Slot, Slots
  <2>2. tokenBuffer[s].at = scanned + 1 - Slots
    BY <2>1 DEF Inv, HoldsTheLast
  <2> QED  BY <1>1, <2>2 DEF Slots
<1>3. CASE scanned < Slots
  <2>1. s = 0 \/ s > scanned
    BY <1>1, <1>3 DEF Slot, Slots
  <2>2. tokenBuffer[s] = NoToken
    BY <1>1, <1>3, <2>1 DEF Inv, HoldsTheLast
  <2> QED  BY <2>2 DEF NoToken
<1> QED  BY <1>1, <1>2, <1>3 DEF Slots

(* No step changes a token that is still in reach.                          *)
LEMMA StepExpires == Inv /\ [Next]_vars => KeepsTokens
<1> SUFFICES ASSUME Inv, [Next]_vars, NEW s \in 0 .. Slots - 1, tokenBuffer'[s] # tokenBuffer[s]
             PROVE  \/ s = token' /\ tokenBuffer'[s].at = tokenBuffer[s].at
                    \/ /\ tokenBuffer'[s].at = scanned + 1
                       /\ tokenBuffer[s].at # 0 => tokenBuffer'[s].at = tokenBuffer[s].at + Slots
  BY DEF KeepsTokens
<1>0. Slot(tokenIndex + 1) \in 0 .. Slots - 1 /\ ungetCount \in 0 .. MaxUngets
  BY Counts
<1>1. CASE tokenBuffer' = NextBuffer
  <2>1. s = Slot(tokenIndex + 1) /\ ungetCount = 0
    <3>1. ~(ungetCount > 0)
      BY <1>1, NextBufferType
    <3>2. s = Slot(tokenIndex + 1)
      BY <1>1, NextBufferType
    <3> QED  BY <1>0, <3>1, <3>2 DEF MaxUngets
  <2>2. tokenBuffer'[s].at = scanned + 1
    BY <1>1, <2>1, NextBufferType DEF Scan
  <2> QED  BY <2>1, <2>2, Overwritten
<1>2. CASE ParserNextToken
  <2> DEFINE t == Reclassified(NextBuffer[Slot(tokenIndex + 1)])
  <2>1. tokenBuffer' = [NextBuffer EXCEPT ![Slot(tokenIndex + 1)] = t]
    BY <1>2 DEF ParserNextToken
  <2>2. NextBuffer[Slot(tokenIndex + 1)] \in Tokens
    BY <1>0, NextBufferType
  <2>3. t.at = NextBuffer[Slot(tokenIndex + 1)].at
    BY <2>2, ReclassifiedType
  <2> HIDE DEF t
  <2>4. s = Slot(tokenIndex + 1)
    <3> SUFFICES ASSUME s # Slot(tokenIndex + 1) PROVE FALSE
      OBVIOUS
    <3>1. NextBuffer[s] = tokenBuffer[s] /\ NextBuffer \in [0 .. Slots - 1 -> Tokens]
      BY NextBufferType
    <3> QED  BY <1>0, <2>1, <3>1
  <2>5. tokenBuffer'[s].at = NextBuffer[s].at
    BY <1>0, <2>1, <2>3, <2>4, NextBufferType
  <2>6. CASE ungetCount > 0
    <3>1. token' = s
      BY <1>2, <2>4 DEF ParserNextToken, Advance
    <3> QED  BY <2>5, <2>6, <3>1, NextBufferType
  <2>7. CASE ungetCount = 0
    <3>1. tokenBuffer'[s].at = scanned + 1
      BY <2>4, <2>5, <2>7, NextBufferType DEF Scan
    <3> QED  BY <2>4, <2>7, <3>1, Overwritten
  <2> QED  BY <1>0, <2>6, <2>7 DEF MaxUngets
<1>3. CASE tokenBuffer' = tokenBuffer
  BY <1>3
<1> QED  BY <1>1, <1>2, <1>3
         DEF Next, LexerNext, LexerUnget, LexerPeek, LexerGetPosition, Declare, vars

(* A token that the parser points to lasts until the 16th after it is       *)
(* scanned (Lexer_Next), as parsing/README.md says.                         *)
THEOREM TokensExpireLate == Spec => ExpiresLate
<1>1. Inv /\ [Next]_vars => [KeepsTokens]_vars
  BY StepExpires
<1>2. Spec => [][KeepsTokens]_vars
  BY <1>1, Invariant, PTL DEF Spec
<1> QED  BY <1>2 DEF ExpiresLate

-----------------------------------------------------------------------------
(* The refinement.  The token that lexer->token points to is the one the    *)
(* cursor is on.                                                            *)
Current == tokenBuffer[token].at = tokenIndex

(* The current token is the one the text has there.                         *)
LEMMA CurrentToken == Inv => Current
<1> SUFFICES ASSUME Inv PROVE tokenBuffer[token].at = tokenIndex
  BY DEF Current
<1>1. /\ tokenIndex \in Nat /\ ungetCount \in 0 .. MaxUngets /\ scanned \in Nat
      /\ scanned = tokenIndex + ungetCount /\ token = Slot(tokenIndex)
  BY Counts DEF Inv, HoldsTheLast
<1>2. CASE tokenIndex > 0
  <2>1. tokenIndex \in 1 .. scanned /\ tokenIndex > scanned - Slots
    BY <1>1, <1>2 DEF Slots, MaxUngets
  <2> QED  BY <1>1, <2>1 DEF Inv, HoldsTheLast
<1>3. CASE tokenIndex = 0
  <2>1. token = 0 /\ scanned < Slots /\ 0 \in 0 .. Slots - 1
    BY <1>1, <1>3 DEF Slot, Slots, MaxUngets
  <2>2. tokenBuffer[token] = NoToken
    BY <2>1 DEF Inv, HoldsTheLast
  <2> QED  BY <1>3, <2>2 DEF NoToken
<1> QED  BY <1>1, <1>2, <1>3

(* The stream of tokens starts as the abstract one does.                    *)
LEMMA StreamInit == Init => Stream!Init
<1> SUFFICES ASSUME Init PROVE Stream!Init
  OBVIOUS
<1>1. tokenBuffer[token].at = 0
  BY DEF Init, NoToken, Slots
<1> QED  BY <1>1 DEF Init, Stream!Init

(* Every step is a step of the abstract one, or none of its business.       *)
LEMMA StreamNext ==
  Inv /\ Inv' /\ Current /\ Current' /\ [Next]_vars => [Stream!Next]_(Stream!vars)
<1> SUFFICES ASSUME Inv, Inv', Current, Current', [Next]_vars PROVE [Stream!Next]_(Stream!vars)
  OBVIOUS
<1> DEFINE s == Slot(tokenIndex + 1)
           cur == tokenBuffer[token].at
           far == tokenIndex + ungetCount
<1>1. /\ cur = tokenIndex /\ cur' = tokenIndex'
  BY DEF Current
<1>2. /\ tokenIndex \in Nat /\ ungetCount \in 0 .. MaxUngets /\ scanned \in Nat
      /\ far = scanned /\ scanned <= MaxScans /\ s \in 0 .. Slots - 1
  BY Counts
<1>3. far' = scanned'
  BY DEF Inv, HoldsTheLast
<1>4. /\ NextBuffer[s] \in Tokens /\ NextBuffer[s].at = tokenIndex + 1
      /\ NextBuffer[s].name = TextAt(tokenIndex + 1)
  BY <1>2, NextBufferType
<1>5. ASSUME CanScan, scanned' = IF ungetCount > 0 THEN scanned ELSE scanned + 1
      PROVE  Stream!Look
  <2>1. tokenIndex < MaxScans
    BY <1>2, <1>5, ScansAssumption DEF CanScan, MaxUngets
  <2>2. far' = IF far >= tokenIndex + 1 THEN far ELSE tokenIndex + 1
    <3>1. CASE ungetCount > 0
      BY <1>2, <1>3, <1>5, <3>1 DEF MaxUngets
    <3>2. CASE ungetCount = 0
      BY <1>2, <1>3, <1>5, <3>2
    <3> QED  BY <1>2, <3>1, <3>2 DEF MaxUngets
  <2> QED  BY <2>1, <2>2 DEF Stream!Look, Stream!Max
<1>6. ASSUME answer' = AnswerOf(NextBuffer[s], "lexer")
      PROVE  Stream!Unclassified
  BY <1>4, <1>6 DEF AnswerOf, Stream!Unclassified, Stream!Kinds, Tokens, Kinds
<1>7. CASE LexerNext
  <2>1. Stream!Look /\ Stream!Unclassified
    BY <1>5, <1>6, <1>7 DEF LexerNext, NextCounts
  <2>2. Stream!MoveTo(tokenIndex + 1) /\ UNCHANGED declared
    BY <1>1, <1>7 DEF LexerNext, Advance, Stream!MoveTo
  <2> QED  BY <2>1, <2>2 DEF Stream!Next, Stream!Next_
<1>8. CASE ParserNextToken
  <2> DEFINE t == Reclassified(NextBuffer[s])
  <2>1. Stream!Look
    BY <1>5, <1>8 DEF ParserNextToken, NextCounts
  <2>2. Stream!MoveTo(tokenIndex + 1) /\ UNCHANGED declared
    BY <1>1, <1>8 DEF ParserNextToken, Advance, Stream!MoveTo
  <2>3. answer' = AnswerOf(t, "parser")
    BY <1>8 DEF ParserNextToken
  <2>4. /\ t.at = tokenIndex + 1 /\ t.kind \in Kinds
        /\ TextAt(tokenIndex + 1) \in Names => t.kind = KindOf(TextAt(tokenIndex + 1))
    BY <1>4, ReclassifiedType DEF Tokens
  <2> QED  BY <2>1, <2>2, <2>3, <2>4
           DEF AnswerOf, Kinds, KindOf, TextAt,
               Stream!Next, Stream!NextToken, Stream!TextAt, Stream!Kinds, Stream!KindOf
<1>9. CASE LexerUnget
  <2>1. tokenIndex > 0 /\ far - tokenIndex < MaxUngets
    BY <1>2, <1>9 DEF LexerUnget
  <2>2. Stream!MoveTo(tokenIndex - 1) /\ far' = far /\ UNCHANGED <<declared, answer>>
    BY <1>1, <1>2, <1>3, <1>9 DEF LexerUnget, Stream!MoveTo
  <2> QED  BY <2>1, <2>2 DEF Stream!Next, Stream!Unget
<1>10. CASE LexerPeek
  <2>1. Stream!Look /\ Stream!Unclassified
    BY <1>5, <1>6, <1>10 DEF LexerPeek
  <2>2. UNCHANGED <<tokenIndex, cur, declared>>
    BY <1>1, <1>10 DEF LexerPeek
  <2> QED  BY <2>1, <2>2 DEF Stream!Next, Stream!Peek
<1>11. CASE LexerGetPosition
  <2>1. Position = tokenIndex + 1
    <3>1. CASE ungetCount > 0
      BY <1>4, <3>1, NextBufferType DEF Position
    <3>2. CASE ungetCount = 0
      BY <1>2, <3>2 DEF Position
    <3> QED  BY <1>2, <3>1, <3>2 DEF MaxUngets
  <2>2. Stream!Unclassified
    BY <1>11, <2>1 DEF LexerGetPosition, Stream!Unclassified, Stream!Kinds
  <2> QED  BY <1>11, <2>2 DEF LexerGetPosition, Stream!Next, Stream!GetPosition
<1>12. CASE Declare
  BY <1>12 DEF Declare, Stream!Next, Stream!Declare
<1>13. CASE UNCHANGED vars
  BY <1>13 DEF vars, Stream!vars
<1> QED  BY <1>7, <1>8, <1>9, <1>10, <1>11, <1>12, <1>13 DEF Next

(* The ring is a cursor on the text: what Lexer_Unget puts back Lexer_Next  *)
(* returns again, and Parser_NextToken classifies names by the scope of the *)
(* moment.                                                                  *)
THEOREM RingImplementsStream == Spec => ImplementsStream
<1>1. Spec => Stream!Spec
  BY StreamInit, StreamNext, CurrentToken, Invariant, PTL DEF Spec, Stream!Spec
<1> QED  BY <1>1 DEF ImplementsStream
=============================================================================
