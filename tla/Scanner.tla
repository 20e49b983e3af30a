------------------------------ MODULE Scanner -------------------------------
(***************************************************************************)
(* How Lexer_Next makes tokens from text (parsing/lexer/*.c).              *)
(*                                                                         *)
(* A character is a string of its own, "a" for every letter, "1" for every *)
(* digit but 0, "bad" for the one ASCII character that starts no token;    *)
(* offsets count from 0 as the pointers do.  A turn of Lexer_Next's loop is *)
(* one action; the loops over comments and strings, which keep a state,    *)
(* take one character at a time, and the others are runs of characters.    *)
(* What a token stands for is left out but for its kind, and so is Unicode.*)
(***************************************************************************)
EXTENDS Integers, Sequences, FiniteSets

CONSTANT Texts   \* the texts to scan

Chars == {" ", "nl", "cr", "a", "1", "'", "\"", "\\", "#", "(", ".", "bad",
          "*", "=", "+", "!", "<", "/", "-"}

ASSUME TextsAssumption == \A t \in Texts : t \in Seq(Chars)

VARIABLES
  text,
  src, line, lineStart,  \* of the lexer
  mode,    \* between calls ("idle", "end"), at the top of the loop ("scan"),
           \* or in the loop of a comment or a string
  first, white,          \* isFirstContentOnLine, hasPrecedingWhitespace
  quotes,  \* of a string: the kind of quote, how many there were, how many
           \* have been seen in sequence
  token,   \* the token that is being made or was made last
  from,    \* history: where the call began
  lost,    \* history: a line break has gone by without being counted
  stale    \* history: lineStart is of an earlier line

vars == <<text, src, line, lineStart, mode, first, white, quotes, token, from, lost, stale>>
position == <<line, lineStart, lost, stale>>

Breaks == {"nl", "cr"}
PunctChars == {"*", "=", "+", "!", "<", "/", "-"}
NameChars == {"a", "1", "'", "\"", "!"}

Min(a, b) == IF a <= b THEN a ELSE b
C(p) == IF p < Len(text) THEN text[p + 1] ELSE "end"
Part(p, q) == SubSeq(text, p + 1, q)

(* The offset at which the longest run of characters of S ends.             *)
RunEnd(p, S) ==
  CHOOSE q \in p .. Len(text) : C(q) \notin S /\ \A i \in p .. q - 1 : C(i) \in S
LineEnd(p) ==
  CHOOSE q \in p .. Len(text) : C(q) \in Breaks \cup {"end"} /\ \A i \in p .. q - 1 : C(i) \notin Breaks

(* Where a loop comes to rest that goes on from the offset i to step[i], as *)
(* a function of where it starts.                                           *)
Offsets == 0 .. Len(text)
Stop(step) ==
  LET stop[i \in DOMAIN step] == IF step[i] = i THEN i ELSE stop[step[i]] IN stop

(* The loop from p comes by q.                                              *)
Reaches(step, p, q) == Stop([step EXCEPT ![q] = q])[p] = q

(* As a bug would have it: a line break is one character.                   *)
AfterBreakOne(p) == p + 1

(* After the line break at p, in whichever order its characters are.        *)
AfterBreak(p) == p + (IF {C(p), C(p + 1)} = Breaks THEN 2 ELSE 1)

(* Lexer_DecodeEscapeCode: after the escape whose backslash is before p; p  *)
(* if there is none.                                                        *)
Named == {"a", "'", "\"", "\\"}
EscapeEnd(p, allowUnknowns) ==
  CASE C(p) = "1" -> Min(RunEnd(p, {"1"}), p + 3)
    [] C(p) \in Named -> p + 1
    [] C(p) \in Breaks \cup {"end"} -> p
    [] OTHER -> IF allowUnknowns THEN p + 1 ELSE p

NoToken == [kind |-> "none", start |-> 0, end |-> 0, line |-> 1, lineStart |-> 0, first |-> FALSE]

Init ==
  /\ text \in Texts
  /\ src = 0 /\ line = 1 /\ lineStart = 0
  /\ mode = "idle" /\ first = FALSE /\ white = FALSE
  /\ quotes = [char |-> "", opened |-> 0, seen |-> 0]
  /\ token = NoToken
  /\ from = 0 /\ lost = FALSE /\ stale = FALSE

(* START_TOKEN and END_TOKEN.                                               *)
Started(kind, start, end) ==
  [kind |-> kind, start |-> start, end |-> end,
   line |-> line, lineStart |-> lineStart, first |-> first]
Returns(t) ==
  /\ token' = t /\ src' = t.end
  /\ mode' = IF t.kind = "eoi" THEN "end" ELSE "idle"
Emit(kind, start, end) ==
  Returns(Started(kind, start, end)) /\ UNCHANGED <<text, first, white, quotes, from>>

(* As a bug would have it: what the last token set is kept.                 *)
CallKeeping ==
  /\ mode = "idle"
  /\ mode' = "scan" /\ from' = src
  /\ UNCHANGED <<text, src, position, first, white, quotes, token>>

Call ==
  /\ mode = "idle"
  /\ mode' = "scan" /\ first' = FALSE /\ white' = FALSE /\ from' = src
  /\ UNCHANGED <<text, src, position, quotes, token>>

EndOfInput ==
  /\ mode = "scan" /\ C(src) = "end"
  /\ Emit("eoi", src, src) /\ UNCHANGED position

-----------------------------------------------------------------------------
(* What is between tokens.                                                  *)
SkipTo(p) == src' = p /\ white' = TRUE /\ UNCHANGED <<text, quotes, token, from>>

Blank ==
  /\ mode = "scan" /\ C(src) = " "
  /\ SkipTo(RunEnd(src, {" "})) /\ UNCHANGED <<mode, first, position>>

Break ==
  /\ mode = "scan" /\ C(src) \in Breaks
  /\ SkipTo(AfterBreak(src))
  /\ line' = line + 1 /\ lineStart' = AfterBreak(src) /\ first' = TRUE
  /\ stale' = FALSE /\ UNCHANGED <<mode, lost>>

(* Lexer_ParseSlash, and #! in Lexer_ParseLoanword.                         *)
LineComment ==
  /\ mode = "scan" /\ <<C(src), C(src + 1)>> \in {<<"/", "/">>, <<"#", "!">>}
  /\ SkipTo(LineEnd(src + 2)) /\ UNCHANGED <<mode, first, position>>

(* As a bug would have it: the star that opens a comment can close it.      *)
OpenCommentShort ==
  /\ mode = "scan" /\ C(src) = "/" /\ C(src + 1) = "*"
  /\ mode' = "comment" /\ SkipTo(src + 1) /\ UNCHANGED <<first, position>>

OpenComment ==
  /\ mode = "scan" /\ C(src) = "/" /\ C(src + 1) = "*"
  /\ mode' = "comment" /\ SkipTo(src + 2) /\ UNCHANGED <<first, position>>

(* A line break in a comment is counted, but does not move lineStart.       *)
CommentStep ==
  /\ mode = "comment" /\ C(src) # "end"
  /\ LET closes == C(src) = "*" /\ C(src + 1) = "/"
         breaks == C(src) \in Breaks
     IN /\ SkipTo(IF closes THEN src + 2 ELSE IF breaks THEN AfterBreak(src) ELSE src + 1)
        /\ mode' = IF closes THEN "scan" ELSE mode
        /\ line' = IF breaks THEN line + 1 ELSE line
        /\ stale' = (stale \/ breaks)
  /\ UNCHANGED <<first, lineStart, lost>>

CommentUnclosed ==
  /\ mode = "comment" /\ C(src) = "end"
  /\ Emit("error", src - 1, src) /\ UNCHANGED position

(* Lexer_ParseHyphenOrEquals: a separator line.                             *)
IsSeparator == C(src) \in {"-", "="} /\ RunEnd(src, {C(src)}) - src >= 5

(* As a bug would have it: the lexer is not moved past the line.            *)
SeparatorStays ==
  /\ mode = "scan" /\ IsSeparator
  /\ SkipTo(src) /\ UNCHANGED <<mode, first, position>>

Separator ==
  /\ mode = "scan" /\ IsSeparator
  /\ SkipTo(RunEnd(src, {C(src)})) /\ UNCHANGED <<mode, first, position>>

-----------------------------------------------------------------------------
(* Lexer_ParsePunctuation.  A run of punctuation and escapes, and the first *)
(* place in it after which there are only plain equals signs.               *)
PunctStep ==
  [i \in Offsets |-> CASE C(i) = "\\" -> EscapeEnd(i + 1, TRUE)
                       [] C(i) \in PunctChars -> i + 1
                       [] OTHER -> i]
PunctRun(p) == Stop(PunctStep)[p]
PunctKept(p) ==
  Stop([i \in Offsets |-> IF RunEnd(i, {"="}) = PunctRun(p) THEN i ELSE PunctStep[i]])[p]
PunctName(p) ==
  LET name[i \in Offsets] ==
        IF PunctStep[i] = i THEN <<>>
        ELSE <<IF C(i) = "\\" THEN C(i + 1) ELSE C(i)>> \o name[PunctStep[i]]
  IN name[p]
Whole == {<<"=">>, <<"=", "=">>, <<"=", "=", "=">>, <<"!", "=">>, <<"!", "=", "=">>, <<"<", "=">>}

PunctEnd(p) == IF PunctName(p) \in Whole THEN PunctRun(p) ELSE PunctKept(p)

Punctuation ==
  /\ mode = "scan" /\ C(src) \in PunctChars /\ ~IsSeparator
  /\ ~(C(src) = "/" /\ C(src + 1) \in {"/", "*"})
  /\ LET kind == CASE PunctName(src) # <<"=">> -> "punct"
                   [] PunctName(src) = <<"=">> /\ white -> "equal"
                   [] OTHER -> "equal without whitespace"
     IN Emit(kind, src, PunctEnd(src))
  /\ UNCHANGED position

Simple ==
  /\ mode = "scan" /\ C(src) = "("
  /\ Emit("mark", src, src + 1) /\ UNCHANGED position

(* ParseNameRaw: a hyphen must be followed by a letter.                     *)
NameStep ==
  [i \in Offsets |-> CASE C(i) = "\\" -> EscapeEnd(i + 1, TRUE)
                       [] C(i) \in NameChars -> i + 1
                       [] C(i) = "-" /\ C(i + 1) \in {"a", "\\"} -> i + 1
                       [] OTHER -> i]
NameEnd(p) == Stop(NameStep)[p]

Name ==
  /\ mode = "scan" /\ C(src) \in {"a", "\\"}
  /\ Emit("name", src, NameEnd(src)) /\ UNCHANGED position

(* Lexer_ParseLoanword.  The token of a loanword starts after the hash;     *)
(* there are known and unknown ones.                                        *)
Loanword ==
  /\ mode = "scan" /\ C(src) = "#" /\ C(src + 1) # "!"
  /\ LET q == NameEnd(src + 1)
     IN CASE C(src + 1) = "#" -> Emit("mark", src, src + 2)
          [] C(src + 1) = "/" -> Emit("error", src, src + 2)
          [] C(src + 1) = "a" -> \E kind \in {"loanword", "error"} :
                                   /\ C(q) \notin {" ", "end"} \cup Breaks => kind = "error"
                                   /\ Emit(kind, src + 1, q)
          [] OTHER -> Emit("error", src, src + 1)
  /\ UNCHANGED position

(* Lexer_ParseReal: separators are between digits.                          *)
DigitStep ==
  [i \in Offsets |-> CASE C(i) # "1" -> i
                       [] C(i) = "1" /\ C(i + 1) \in {"'", "\""} /\ C(i + 2) = "1" -> i + 2
                       [] OTHER -> i + 1]
DigitsEnd(p) == Stop(DigitStep)[p]
RealEnd(p) ==
  LET d == DigitsEnd(p) IN IF C(d) = "." THEN DigitsEnd(d + 1) ELSE d

(* A number, with its suffix, which may be of no type; EnsureEndOfNumber.   *)
EmitNumber(p, digits) ==
  LET q == RunEnd(digits, {"a", "1"})
  IN \E kind \in {"number", "error"} :
       /\ C(q) \in {"'", "\"", "!"} => kind = "error"
       /\ kind = "error" => C(q) \in {"'", "\"", "!"} \/ q > digits
       /\ Emit(kind, p, q)

(* Lexer_ParseDigit.                                                        *)
Number ==
  /\ mode = "scan" /\ C(src) = "1"
  /\ LET d == RunEnd(src, {"1", "'", "\""})
     IN EmitNumber(src, IF C(d) = "." /\ C(d + 1) # "." THEN RealEnd(src) ELSE d)
  /\ UNCHANGED position

(* Lexer_ParseDot.                                                          *)
Dot ==
  /\ mode = "scan" /\ C(src) = "."
  /\ IF C(src + 1) = "1" THEN EmitNumber(src, RealEnd(src))
     ELSE Emit("mark", src, Min(RunEnd(src, {"."}), src + 3))
  /\ UNCHANGED position

Unknown ==
  /\ mode = "scan" /\ C(src) = "bad"
  /\ Emit("error", src, src + 1) /\ UNCHANGED position

-----------------------------------------------------------------------------
(* Lexer_ParseDynamicString and Lexer_ParseRawString.                       *)
OpenString ==
  /\ mode = "scan" /\ C(src) \in {"'", "\""}
  /\ LET n == RunEnd(src, {C(src)}) - src
     IN IF C(src) = "\"" /\ n = 2
        THEN Emit("string", src, src + 2)
        ELSE /\ ~(C(src) = "'" /\ n = 1)
             /\ token' = Started("string", src, src) /\ src' = src + n
             /\ quotes' = [char |-> C(src), opened |-> n, seen |-> 0]
             /\ mode' = "string"
             /\ UNCHANGED <<text, first, white, from>>
  /\ UNCHANGED position

(* Lexer_ParseChar.                                                         *)
Character ==
  /\ mode = "scan" /\ C(src) = "'" /\ C(src + 1) # "'"
  /\ LET p == src + 1
         q == CASE C(p) = "\\" -> EscapeEnd(p + 1, FALSE)
                [] C(p) = "end" -> p
                [] OTHER -> p + 1
         valid == /\ C(p) \notin Breaks \cup {"end"}
                  /\ C(p) = "\\" => q > p + 1
                  /\ C(q) = "'"
         breaks == C(p) \in Breaks
     IN /\ Emit(IF valid THEN "char" ELSE "error", src, IF valid THEN q + 1 ELSE q)
        /\ lost' = (lost \/ breaks) /\ stale' = (stale \/ breaks)
  /\ UNCHANGED <<line, lineStart>>

SingleLine == quotes.opened = IF quotes.char = "\"" THEN 1 ELSE 2
InString(seen) == quotes' = [quotes EXCEPT !.seen = seen] /\ UNCHANGED <<text, mode, first, white, token, from>>
StringEnds(kind, end) ==
  /\ Returns([token EXCEPT !.kind = kind, !.end = end])
  /\ UNCHANGED <<text, first, white, quotes, from>>

StringQuote ==
  /\ mode = "string" /\ C(src) = quotes.char
  /\ IF quotes.seen + 1 = quotes.opened THEN StringEnds("string", src + 1)
     ELSE InString(quotes.seen + 1) /\ src' = src + 1
  /\ UNCHANGED position

(* A line break ends a string of one line, and is taken without being       *)
(* counted.  Others go on; the quotes seen so far are not forgotten.        *)
StringBreak ==
  /\ mode = "string" /\ C(src) \in Breaks
  /\ IF SingleLine
     THEN StringEnds("error", src + 1) /\ lost' = TRUE /\ UNCHANGED line
     ELSE InString(quotes.seen) /\ src' = AfterBreak(src) /\ line' = line + 1 /\ UNCHANGED lost
  /\ stale' = TRUE /\ UNCHANGED lineStart

StringEscape ==
  /\ mode = "string" /\ C(src) = "\\" /\ quotes.char = "\""
  /\ InString(0) /\ src' = Min(src + 2, Len(text))
  /\ lost' = (lost \/ C(src + 1) \in Breaks) /\ stale' = (stale \/ C(src + 1) \in Breaks)
  /\ UNCHANGED <<line, lineStart>>

StringOther ==
  /\ mode = "string" /\ C(src) \notin Breaks \cup {"end", quotes.char}
  /\ C(src) = "\\" => quotes.char = "'"
  /\ InString(0) /\ src' = src + 1 /\ UNCHANGED position

StringUnclosed ==
  /\ mode = "string" /\ C(src) = "end"
  /\ StringEnds("error", src) /\ UNCHANGED position

Finished == mode = "end" /\ UNCHANGED vars

Next ==
  \/ Call \/ EndOfInput
  \/ Blank \/ Break \/ LineComment \/ OpenComment \/ CommentStep \/ CommentUnclosed \/ Separator
  \/ Punctuation \/ Simple \/ Name \/ Loanword \/ Number \/ Dot \/ Unknown
  \/ OpenString \/ Character \/ StringQuote \/ StringBreak \/ StringEscape \/ StringOther
  \/ StringUnclosed
  \/ Finished

Spec == Init /\ [][Next]_vars
FairSpec == Spec /\ WF_vars(Next)

-----------------------------------------------------------------------------
(* What the callers of Lexer_Next rely on, each against the text itself.    *)
Returned == mode \in {"idle", "end"} /\ token.kind # "none"

(* The line p is on.  A carriage return and a line feed, in either order,   *)
(* are one line break: those who go through the text that way come by the   *)
(* beginnings of the breaks.                                                *)
LineStep ==
  [i \in Offsets |-> CASE <<C(i), C(i + 1)>> \in {<<"cr", "nl">>, <<"nl", "cr">>} -> i + 2
                       [] C(i) = "end" -> i
                       [] OTHER -> i + 1]
Begins(i) == C(i) \in Breaks /\ Reaches(LineStep, 0, i)
LineOf(p) == 1 + Cardinality({i \in 0 .. p - 1 : Begins(i)})

(* A token's line and the start of its line are those of its first          *)
(* character, however the text is cut into comments, strings and breaks of  *)
(* one or two characters, but for the breaks the lexer takes without        *)
(* counting them, and for lineStart after a comment or a string of several  *)
(* lines (START_TOKEN).                                                     *)
PositionsExact ==
  Returned /\ C(token.start) \notin Breaks =>
    /\ ~lost => token.line = LineOf(token.start)
    /\ ~lost /\ ~stale =>
         /\ \A i \in token.lineStart .. token.start - 1 : C(i) \notin Breaks
         /\ token.lineStart > 0 => C(token.lineStart - 1) \in Breaks

(* The text from p to q is blanks, line breaks, comments and separators.    *)
Closes(j) == C(j) = "*" /\ C(j + 1) = "/"
CommentEnd(p) ==
  LET ends == {j \in p + 2 .. Len(text) : Closes(j)}
  IN IF ends = {} THEN p ELSE 2 + CHOOSE j \in ends : \A k \in ends : j <= k
TriviaStep ==
  [i \in Offsets |->
     CASE C(i) \in Breaks \cup {" "} -> i + 1
       [] <<C(i), C(i + 1)>> \in {<<"/", "/">>, <<"#", "!">>} -> LineEnd(i)
       [] C(i) = "/" /\ C(i + 1) = "*" -> CommentEnd(i)
       [] C(i) \in {"-", "="} /\ RunEnd(i, {C(i)}) >= i + 5 -> RunEnd(i, {C(i)})
       [] OTHER -> i]
Trivia(p, q) == Reaches(TriviaStep, p, q)

(* All that is left of the punctuation at p is exactly four equals signs.   *)
FourEquals(p) ==
  RunEnd(p, {"="}) = p + 4 /\ C(p + 4) \notin PunctChars \cup {"\\"}

(* Tokens come in the order of the text without overlapping, nothing is     *)
(* lost between them, and the parser's loops make progress: what a call     *)
(* passes over before its token is only blanks, line breaks and comments    *)
(* that are closed, and the hash of a loanword, and every token but the end *)
(* of the input takes at least one character, except at punctuation of      *)
(* exactly four equals signs, all of which Lexer_ParsePunctuation gives     *)
(* back (Lexer_Next, Lexer_ParseSlash, Lexer_ParseHyphenOrEquals,           *)
(* Lexer_ParseLoanword).                                                    *)
TextCovered ==
  Returned =>
    /\ from <= token.start /\ token.start <= token.end /\ token.end = src /\ src <= Len(text)
    /\ token.start = token.end => token.kind = "eoi" \/ FourEquals(token.start)
    /\ token.kind # "error" =>
         Trivia(from, IF token.kind = "loanword" THEN token.start - 1 ELSE token.start)

(* A token's marks tell what the call passed over before it.  One marked as *)
(* the first on its line has a line break before it or is the first of the  *)
(* text, which may be marked or not, and one that has a break before it,    *)
(* and no comment that could hold it, is marked (isFirstContentOnLine).  An *)
(* equals sign is marked as glued exactly if it follows the last token at   *)
(* once, which is how the parser tells x += y from x + =y                   *)
(* (Lexer_ParseHyphenOrEquals).                                             *)
MarksExact ==
  Returned =>
    LET gap == from .. token.start - 1
        breaks == \E i \in gap : C(i) \in Breaks
        comment == \E i \in gap : C(i) = "/" /\ C(i + 1) = "*"
    IN /\ token.first => breaks \/ from = 0
       /\ breaks /\ ~comment => token.first
       /\ Part(token.start, token.end) = <<"=">> =>
            (token.kind = "equal without whitespace") = (gap = {})

(* Scanning reaches the end of the text, or exactly four equals signs that  *)
(* it never gets past: whatever is unclosed or unknown is passed over once. *)
Ends == <>(mode = "end" \/ (mode = "scan" /\ FourEquals(src)))
=============================================================================
