# Smile: models and proofs

Smile is an interpreter for a small dynamically typed language with a syntax that
programs extend.  Source text is lexed and parsed into lists; the lists are compiled
to byte code; a stack machine runs it.  Under all of that lie a few hash
dictionaries.  The process is single-threaded; what makes it hard to get right is
long sequences of legal steps: code built from nested blocks whose stack effects must
add up on every path, escapes out of loops and functions (also from functions that
outlive them), arrays without bounds checks whose sizes were computed elsewhere,
tables and caches that are shared until they change, and library methods that hand
control back to the program in the middle of their work.

## Inventory

| Part | State | Operations | Interacts with |
|---|---|---|---|
| Dictionaries (`src/dict`) | node heap, bucket array, free list, mask, count | create, add, set, replace, get, remove, clear, clone; grow and shrink | used by every other part |
| Symbol table, known symbols (`src/env`) | names array, lookup dictionary | get, add | lexer, parser, compiler |
| Modules (`src/env/modules.c`, `parseinclude.c`, `InitModule`) | module array and dictionary, per module its parse and evaluation result | load, register, look up, initialise on first use | parser (`#include`), machine (`Op_LdInclude`) |
| Lexer (`src/parsing/lexer`) | position, ring of 16 tokens, unget count | next, unget, peek | parser |
| Parser (`src/parsing/parser`) | scope chain, syntax tables with caches, follow set, messages | statements, expressions, custom syntax, includes | lexer, modules; produces lists |
| Compiler (`src/eval/compiler.c`, `src/eval/compiler/`) | scopes, current function, blocks, tables | one function per form | takes lists, produces functions and tables |
| Machine (`src/eval/eval.c`, `closure.c`) | closures with stacks, current closure and byte code, exception continuation | one case per instruction, run, continue | tables, external functions, modules |
| List and range methods (`src/smiletypes/smilelist*.c`, `src/smiletypes/range`) | a closure of their own with a state record | each, map, where, any?, all?, count, first, index-of, sort, sort! | called by the machine, call functions of the program through it |
| Other types (`src/smiletypes`) | objects | a virtual table per type | machine |
| Strings, numbers, Unicode, crypto, platform, stdio | values, OS handles | pure functions and I/O | everything |
| Runner (`smilerunner`) | console | read, evaluate, print | all |

What makes the parts correct:

* dictionary: a call does what a map does, whatever sizes the table has gone
  through; its lists are disjoint, acyclic and complete; nothing is written past an
  array;
* compiler and machine together: a program does what its source says; the stack
  balances on every path and never outgrows what was allocated for it; an escape
  goes outwards only; loops that can end do;
* compiler tables: an index keeps meaning what it was handed out for;
* modules: each is run at most once, in spite of failures, and parsed once unless its
  includes come back to it; a failure reaches the line that asked, and the prompt comes
  back;
* lexer: the text is covered by tokens with exact positions; what was put back is
  what is read next, seen with the declarations of now;
* parser: a statement is accepted when the grammar, with the program's own rules,
  derives it; the tree has the structure of the text; rules are visible in their
  scope;
* list and range methods: every item once, the result the answers add up to, a
  stable sort that loses nothing, whatever the program does in between.

`PROJECT.json` lists every part and every hazard with its line.

## Modules

| Module | Models |
|---|---|
| `DictMap` | what a dictionary promises: a set of pairs and the value the last call returned |
| `Int32Dict` | `int32dict.c`, `int32dict.h`, `SMILE_DICT_SEARCH` |
| `Int32DictProofs` | its theorems, the refinement of `DictMap` included |
| `CompiledBlock` | `compiledblock.c` and the inline helpers of `compiler_internal.h` |
| `Compiler` | the `compile_*.c` files, one operator per form |
| `Meaning` | the reference: what an expression means, by recursion on its form, without byte code |
| `Eval` | the machine, running what `Compiler` makes of a program |
| `CompiledTables`, `CompiledTablesProofs` | the growing tables of `compiler.c`; their theorem |
| `Modules` | `parseinclude.c`, `modules.c`, `Op_LdInclude` and `InitModule`, the loop of the prompt |
| `ModulesProofs` | its theorems |
| `TokenStream` | what the lexer promises the parser: a stream with a cursor that moves back |
| `TokenRing` | `lexer.h`, `Lexer_Next`'s ring, `Parser_NextToken` and the like |
| `TokenRingProofs` | its theorems, the refinement of `TokenStream` included |
| `Scanner` | `lexer.c`, `lexpunct.c`, `lexnames.c`, `lexnumbers.c`, `lexloanword.c`, `lexstrings.c`: tokens from characters |
| `ScannerProofs` | its theorems |
| `SyntaxTree` | trees of custom rules, FIRST and FOLLOW sets, transitions, as values |
| `SyntaxTable` | `parsersyntaxtable.c` and scopes: sharing, forking, caches |
| `SyntaxTableProofs` | its theorems |
| `ExprParser` | `parseexpr.c`, `parseterm.c`, `applysyntax.c` |
| `ExprGrammar` | the reference: the grammar by itself, and what it says of the parser |
| `ExprParserProofs` | the theorem about follow sets |
| `StateMachines` | the looping methods and sorts of `smilelist*.c` and the 16-bit range, `Op_StateMach*` |
| `StateMachinesProofs` | the theorems about the loops and the sorts |
| `MC*` | instances: keys and sizes, sets of programs, files, texts, rules and statements |

`Eval` EXTENDS `Meaning` EXTENDS `Compiler` EXTENDS `CompiledBlock`; `SyntaxTable`
and `ExprParser` EXTEND `SyntaxTree`, and `ExprGrammar` EXTENDS `ExprParser`.  A module
of proofs EXTENDS the one it is about.  `Int32Dict` instantiates `DictMap` under the
refinement mapping `pairs <- Contents`; `TokenRing` instantiates `TokenStream` with
`cursor <- tokenIndex`, `furthest <- tokenIndex + ungetCount` and
`current <- tokenBuffer[token].at`.

### Dictionary

The node array is three functions `next`, `key` and `value` over `0 .. size-1`;
`size` is `mask + 1`, a power of two, so `key & mask` is `key % size` (in two's
complement for negative keys too).  Each call is one action.  A resize is the
exception: `StartResize`, then `RehashNode` or `RehashBucket` once per turn of the
two loops, then `FinishResize`, and `FinishAppend` when an `Append` was waiting.
The table is inconsistent meanwhile and no other call can start (`pc # "idle"`),
as in the code.  `MinSize` stands for the 16 of the code.  Sizes given to
`ClearWithSize` are those after clamping and rounding.

`Chain` is the set of nodes a loop over `next` visits, defined as the least set
closed under `next` rather than by recursion: the proofs need its two properties
(it is closed, and it is inside every closed set) and nothing else.

### Compiler and machine

An expression is a tuple, `<<"if", cond, then, else>>` for instance.  A block has
the code's two accounts, `delta` (`finalStackDelta`) and `max` (`maxStackDepth`),
its escape flag, and its instructions; a child is spliced in at once, where the code
keeps it apart until `CompiledBlock_Finish` walks over it.  Operands that number
things become names; what depends on numbers of entries is `CompiledTables`.
Labels, relative branch offsets, absolute till targets and the depth of a variable's
function are kept, because the code gets them by computation.
`Ld`/`St`/`Stp` of arguments and locals at depths 0 to 7 and beyond are one
instruction each with the depth as an operand.

A closure is a record with its function, its declaring and returning closures, its
variables and its own stack.  Till continuations are numbered and remember closure,
stack depth and targets.  The world consists of two external functions: `ask`
answers true or false, `say` takes a value; `log` records the exchange, so two runs
are the same when log, way of ending and value are.  Function values are compared
only as being functions.

C checks nothing.  An instruction with fewer operands on the stack than it takes, or
a read of a variable never set, uses whatever memory holds; the model goes to
`status = "corrupt"` and stops there, which `SameAsSource` never accepts.  Growing
past `tempSize` is not stopped; it is what `StackFits` is about.  An uncaught
exception ends a program (`"throw"`); the language's own `catch` is a stub in the
code, and `Op_Try` is not supported.

`Meaning` says what the language means and is the only part of these that is not
translated from a function of the code: a loop's value is that of the clause that ran
last, a till loop ends with the `when` of the flag it was left through, closing it;
`return` leaves the function; a `scope` resets its variables when entered.

### Modules and includes

The user types a line that includes a file, with or without renaming.  It is parsed
with all the files it leads to, each in a parser of its own inside the one before
(`parsing`), and every file is registered after it has been parsed.  The line is then
compiled and run; every `Op_LdInclude` that meets a module without an `evalResult`
saves the registers and the exception continuation, runs the module and restores them
(`saved`, `reg`, `handler`).  A file is unreadable, malformed, or well-formed; running
it ends, throws, breaks or does not compile.  `stopped` says how the process can be
gone: the C stack is exhausted by a circle of includes, a module is registered twice
and the runtime aborts, or a null closure is read.

A module that exposes no names is never run, and a package that is not a file is not
registered; both are as in the code.

### Lexer

`TokenRing` numbers the tokens of a text and follows slots, `tokenIndex` and
`ungetCount`.  The parser asks with `Lexer_Next` or with `Parser_NextToken`, which
also classifies a name, in the slot, by what the scope of the moment declares; `Peek`
and `Unget` are actions.  Up to 15 tokens can be put back.

`Scanner` makes tokens from characters: one turn of `Lexer_Next`'s loop is one action,
a turn of the loops inside comments and strings too.  Characters are grouped by what
the lexer tells apart.  `from`, `lost` and `stale` are histories: where a call began,
and whether a line break has gone uncounted or `lineStart` fallen behind, which the
code lets happen in the places listed below.

### Parser

`SyntaxTree` represents a node by its path.  `SyntaxTable` has scopes, tables and
classes with their reference counts, forks them as the code does, and fills the two
caches in every order; a clone of a NULL dictionary stops it (`crashed`).

`ExprParser` is the recursive descent as a stack of frames, one for every call of a
level of the expression grammar, of `Parser_ApplyCustomSyntax` and of
`Parser_ParseNonterminalList`; error recovery in parentheses is included.  The
reference is `Derives` in `ExprGrammar`, the grammar by itself: which stretch of the input is derived
from which nonterminal, without any look-ahead or state.  `Complete` and `Sound` compare
the two in both directions, `Structure` compares the tree with the text.

### Methods of lists and ranges

One behaviour is one call of one method.  The machine calls the method's start
function, then its body function once per answer; between two of these the program
runs (`pc = "user"`).  There it may answer anything, assign to `a` or `d` of any cell
of the argument (`d` only to null or to a later cell, so that lists stay finite, and
not during `sort!`), or never come back (`UserEscapes`: an exception or an escape).
The argument is a list of cells `1 .. n` or a range of numbers `-Half .. Half-1` with any
start, end and step; lists given to `sort` may be circular.  A comparison is either a
proper one (`order = "keys"`) or answers anything at all (`"any"`).  The result lists
of map and where are only reachable from the method until it returns and are
sequences.  `sort` clones with a second pointer that notices circles, `sort!` relinks
the argument; both then are the bottom-up merge sort of `smilelist.c`, interrupted at
each comparison, with its merge counter a number below `ByteValues`.

## Runs

| Run | Checks | Instance | States |
|---|---|---|---|
| `dict` | `ListsSound KeysFindable CountExact NoNodeLost ResizeInBounds ResizeEnds ImplementsMap` | keys {-2, 0, 2}, 2 values, sizes 1, 2, 4 | 5,765 |
| `eval` | `StackFits SameAsSource` | 20,301 programs, 3 answers | 602,361 |
| `eval_early` | `SameAsSource EscapesOnlyOutwards Terminates` | 9,802 programs, 3 answers | 593,869 |
| `tables` | `IndexesKept` | 7 tables, 260 entries | 1,826 |
| `modules` | `OnceUnlessCircular FailuresTravelUp InnermostHandles FirstUseIsSafe PromptReturns` | 3 files, 2 lines, 5 nested parsers | 250,277 |
| `syntax_table` | `CountsCover RulesKept CachesOnlyLag OuterTablesKept` | 7 rules of 2 classes, 2 scopes, 3 rules added, 3 questions | 1,747,832 |
| `expressions` | `FollowSetOfInnermost Structure Complete Sound Terminates` | six sets of rules, statements of up to 5 tokens, some longer | 372,111 |
| `tokens` | `HoldsTheLast ExpiresLate ImplementsStream` | 17 tokens, 20 scans, 16 slots | 20,076 |
| `scanner` | `PositionsExact TextCovered MarksExact Ends` | every text of up to 3 to 8 characters from eleven groups | 364,709 |
| `methods` | `ResultAgrees GoesThroughAll SortedStably SortKeeps RemovedNotVisited Ends` | lists of 4, sorts of 7, 2 assignments, 3-bit ranges | 745,959 |
| `return_value` | `SameAsSource`, violated | functions that return a value | |
| `operands` | `OperandsKept`, violated | statements without rules | |

What each property says and of which code is in the comment above it.

*Bounds.*

* `dict`: with `MinSize = 1` a table grows twice and shrinks twice within three keys;
  the keys collide under the masks 0 and 1 and two of them under 3, one is negative,
  and one is 0, which is also what a cleared node holds.
* `eval`, `eval_early`: programs are every one-level expression in every place of
  every place (operand, argument, condition, clause, function body, discarded, last),
  so each form meets each way of being used two levels deep; three answers (`MaxAsks`)
  take a loop through two turns and out, and a program that wants a fourth stops (its
  source must want one too).
* `tables`: 260 entries pass the first growth of the largest table (256) and many of
  the smallest.  `IndexesKept` is about the slots that byte code indexes, in all seven
  tables; the entries that six of them lose when they grow (below) are its exception,
  which the history variable `before` confines to slots filled before the last growth.
* `modules`: three files make chains, diamonds and circles of one, two and three;
  the second line meets what the first has left; five nested parsers are more than any
  include without a circle needs, so only circles reach `MaxDepth`.  `FirstMax = 64`
  keeps the array from growing.
* `syntax_table`: two scopes inside the outermost, and three rules that share nodes,
  classes and repetitions, so that a table is forked under and above one another and
  a cache is filled before, between and after rules.  Three questions are the moves of
  a node, the FOLLOW set below it and what is answered from the two; a symbol has the
  number 3, so that nodes come to share it.
* `expressions`: two operators of every pair of levels, prefixes, parentheses with
  errors in them, rules that are prefixes of one another, lists with and without
  separators, recursive classes, infix rules, ambiguous rules.
* `tokens`: the real 16 slots; the text wraps around them, with a name before, at and
  after the wrap.
* `scanner`: each group holds the characters that interact in one part of the lexer;
  lengths allow every form to be opened, broken, closed and followed by something.
* `methods`: 3-bit ranges have every start, end and step, the ends of the type
  included.  Seven items need three passes; with `ByteValues = 4` the counter of
  merges is met at its limit, as 256 is with 511 items.

*Fairness.*  The C code is sequential and goes on: `Int32Dict` (a started resize),
`Modules` (a typed line), `ExprParser`, `Scanner` and `Eval` (the next step; in `Eval`
also that whoever met a breakpoint continues).  No fairness between alternatives is
assumed, in particular none about answers and failures.  `StateMachines` assumes in
addition that the function of the program returns: `Ends` is about the methods.

*Deadlock* is checked in all runs: what is over, at a bound or waiting for nothing
stutters by an action of its own (`Stop`, `Quit`, `Finished`).

### Disagreements

Two runs show a property of the comments or tests violated by what the code does;
`findings` in `PROJECT.json` quotes each line.

| Run | What happens |
|---|---|
| `return_value` | the value of `return x` is compiled and thrown away |
| `operands` | the third operand of `and` or of `or` is hung on the null object and lost |

The null object's `a` and `d` are itself (`smilenull.c:35`), so what is hung on it
stays there for all of the program.

The models show these too, when the instances are widened to the case given; they
have no run of their own.  The passing runs keep out of these places, and only of these, by their
instances or by a named exception in the property.

Compiler and machine:

* `do .. while c then ..` goes on while `c` is false (`compile_while.c:137`), and a
  loop used for its value needs more stack than is counted (`compile_while.c:209`);
* continuing meets the same breakpoint again (`eval.c:251`);
* a till loop left by `return` can be escaped to afterwards (`compile_return.c:46`);
* `[$if ask x flag]` for its value, where `flag` leaves a till loop: the `if` takes
  its stack delta from the `else` clause alone, so a null is pushed over the value
  (`compile_if.c:104`);
* a till loop with two exits used for its value counts two values, and what uses it
  pops two (`compile_till.c:385`);
* `[$eq [$and ..] x]` for nothing: the child is popped after the parent has counted
  it, and the parent pops again (`compile_standardform.c:188`);
* an operand of `and`/`or` that escapes: the delta corrected by hand at
  `compile_and.c:79` is one too small, and the value of the form is lost;
* `[$not 256]` is true: `Op_Not` looks at the low byte (`eval.c:770`);
* a condition `[not x]` with the program's own function `not` is compiled as the
  built-in negation (`compiler.c:607`);
* six tables of the compiler copy as many bytes as they have entries when they grow
  (`compiler.c:374` and its likes), and so does the module array at the 63rd
  registration (`modules.c:57`).

Modules:

* a module that has failed is read through a NULL closure on a later line
  (`eval.c:698`);
* circular includes recurse in the parser; a circle with a syntax error in it aborts
  with a duplicate module;
* `InitForReal` tests `(*m)->kind`, so its branch for parse errors never matches.

Lexer:

* exactly four equals signs, as a token of their own or left over after an escape or a
  character literal, give an empty token for ever (`lexpunct.c:120` with
  `lexnames.c:357`);
* columns are wrong after comments and strings of several lines, and a string or
  character broken by a line end takes the line break without counting it;
* the first token of a file, and one after a comment of several lines, is not marked as
  first on its line, which is what `lexer.h:49` calls it (`MarksExact` leaves both open);
* a `/` at the end of the text looks one character further;
* the position of a loanword does not include its `#`;
* the 16th unget in a row leaves `lexer->token` wrong, the 17th the next token.

Met while reading, outside the model: `65536s` and `256x` are accepted as 0
(`lexnumbers.c:150`, `:178`); a Unicode character that is no identifier character
disappears after a name (`lexnames.c:146`).

Parser:

* forking a class with only one sort of roots clones a NULL dictionary
  (`parsersyntaxtable.c:152`);
* rules of a scope get into enclosing scopes through shared classes (`:303`), caches are
  not emptied when rules are added (`:621`, `:678`), and a follow set can be stored under
  the number of a symbol (`:656`);
* words that only an outer rule goes on with are taken for operators
  (`applysyntax.c:628`; `k + x m` in the set `Partial`);
* an optional item of a built-in class is never missing, and the value of one that is
  may be uninitialised (`applysyntax.c:479`, `:635`); a `+` list of a class without a separator never matches
  (`:482`); the first operand of an infix rule is not among its values (`:572`);
* rules of the classes PREFIXEXPR and TERM are accepted and never applied;
  left-recursive classes recurse without end.

Methods of lists and ranges:

* a sort with 256 or 257 merges in its first pass ends after it: lists of 511 to 514
  items are left in sorted pairs (`smilelist.c:658`);
* in the middle of a merge the list of `sort!` can be circular, and a comparison that
  throws leaves it so; `sort!` of a circular list never ends;
* each visits a cell that was taken out of the list meanwhile
  (`smilelist_class.c:351`);
* a function without parameters makes the methods of a range, except each, call the
  number (`smileinteger16range_base.generated.c:393`).

Met while reading, outside the model: a Byte range decides its direction unsigned and
its end signed, so `100..200` visits only 100; for 32 and 64 bits `end - step`
overflows; counting a wide range without a function wraps; the fixed-value forms
lack a test of the lower bound, and where with a value returns a count;
`append-list!` of a list to itself never ends (`smilelist_class.c:196`).

## Proofs

The theorems are about `Spec`, of which each fair specification is a strengthening,
and hold for every value of the constants that satisfies the named `ASSUME`s of the
modules.  None of the properties is inductive as it stands; each module of proofs
defines the invariant that is (`IInv`, or `Inv` in `TokenRingProofs`), proves that every
action keeps it, and draws the property from it.

| Theorem | States |
|---|---|
| `Int32DictProofs` | |
| `TypeCorrect` | indices point into their own arrays |
| `ListsStaySound` | no circular list, no node on two lists |
| `KeysStayFindable` | keys are where their search looks, once |
| `CountStaysExact` | `count` is the number of live nodes |
| `NoNodeIsLost` | every node is live or free |
| `ResizeStaysInBounds` | the rehash loop stays inside the new array |
| `TableImplementsMap` | every step is a step of `DictMap` or none: calls do what a map does, resizing does nothing |
| `TokenRingProofs` | |
| `RingTypes` | slots, counts and token numbers stay in their ranges |
| `RingHoldsTheLast` | every slot holds the newest token that belongs in it |
| `TokensExpireLate` | a slot changes only when a token is scanned into it or its name looked up again |
| `RingImplementsStream` | every step of the ring is a step of `TokenStream` or none |
| `ScannerProofs` | |
| `PositionsStayExact` | `PositionsExact`: lines and line starts of tokens |
| `NoTextIsLost` | `TextCovered`: nothing is lost between tokens, and each takes a character |
| `MarksStayExact` | `MarksExact`: first on its line, glued |
| `CompiledTablesProofs` | |
| `IndexesStay` | `IndexesKept`: a slot holds the entry its index was given out for or, in a table other than the locals' that has grown since, nothing |
| `ModulesProofs` | |
| `RunOnce` | `OnceUnlessCircular` |
| `NoFailureLost` | `FailuresTravelUp` |
| `HandlersInStep` | `InnermostHandles` |
| `FirstUseSafe` | `FirstUseIsSafe` |
| `SyntaxTableProofs` | |
| `TablesCounted` | `CountsCover` |
| `RulesStaySeen` | `RulesKept` |
| `OuterTablesStay` | `OuterTablesKept`, an action property |
| `CachesStayBehind` | `CachesOnlyLag`: cached FIRST and FOLLOW sets, moves and ambiguities are at worst old |
| `ExprParserProofs` | |
| `FollowSetRestored` | `FollowSetOfInnermost` |
| `StateMachinesProofs` | |
| `EveryItemOnce` | `GoesThroughAll` |
| `LoopsAgree` | `ResultAgrees` |
| `RemovedStayOut` | `RemovedNotVisited`, an action property |
| `SortsStably` | `SortedStably` |
| `SortsKeep` | `SortKeeps` |

*Dictionary.*  Any set of keys and values, any `MinSize`, any clear sizes (powers of
two or not).  `IInv == TypeOK /\ TableInv /\ RehashInv /\ CallInv`: `TableInv` is the
conjunction of the list, key, count and loss properties of the old table; `RehashInv`
says the same of the half-built one, relates the nodes already copied (`0 .. i-1`) to
those still to visit (their numbers add up to `count`) and says that `count` leaves room
in the new table: a table grows only when full, to twice its size, and shrinks only
when at most a quarter full, to half of it.  Both it and `CallInv` also say that a
waiting `Append` finds room and a key that is not there.  The list lemmas come first
(what a push on the front, an unlink in the middle and a change elsewhere do to
`Chain`), then one lemma per action.  The refinement uses the same invariant: a search
finds the one pair of its key because keys are findable and stored once, and a turn of
the resize loop moves a pair from the part to visit to the part copied, which leaves
`Contents` as it is.

*Token ring.*  Any text.  `Inv == TypeOK /\ HoldsTheLast`: what a slot holds is the
token with the largest number, among those scanned, that is equal to the slot modulo
16.  With at most 15 ungets the slot of `tokenIndex` is then the token of that number.
The refinement also needs `Current`, that `lexer->token` is the slot of the token last
read.

*Scanner.*  Any texts over the characters (`TextsAssumption`), of any length.  Every loop of
the lexer is one function, `Stop(step)`: where one comes to rest that goes on from `i` to
`step[i]`.  The first lemmas show that such a loop, when no step goes backwards, unfolds as
it is written (`StopUnfolds`) and what going by an offset means (`ReachUnfolds`); the rest
uses only these.  Then one lemma for each run of characters (`NameEndIs`, `PunctRunIs`, ..):
it ends inside the text and takes no line break.  `IInv` says at every turn of the loop what
the three properties say of a token: `PositionInv` that line and line start are right for the
place where the lexer is, and that this place is not in the middle of a line break of two
characters; `ScanInv` that what the call has passed over is blanks and closed comments, and
whether a break was among it; `CommentInv` that an open comment has an opening and no end so
far; `StringInv` the same of the token of an open string.  The proof found an
earlier `FourEquals` too narrow: four equals signs that are left over after `\=` or `'=` also
never end, which the texts of the run were too short to show.  They now have a group of texts of their own.

*Compiler tables.*  Any number of entries.  `Kept` is the part of `IndexesKept` about
slots, for all seven tables: growing keeps a slot or empties it (`RoomKeeps`), and empties
none of the locals', whose table copies all of its bytes.  `LookupInv` says of the
dictionary in front of the strings that it knows every string by its own index.  That
nothing is lost is not proved of the other six, because it is false (`compiler.c:374`).

*Modules.*  Any finite set of files with any contents (`DisksAssumption`), any number of
lines, any first size of the array.  `IInv` relates four things: the registry (modules
are numbered as they are registered, and one reads only from lower numbers), the parsers
under way (each is of a file the outer ones lead to; a file parsed is registered or still
being parsed, or on a circle), the frames that run (each runs for the instruction at
which the one before it stands), and the results.  The argument for `RunOnce` is in
`RunInv`: a module that runs has a lower number than those it runs inside, so it is none
of them, and it has no result yet; hence it was not run before.  For `NoFailureLost` the
same part says that what a running module has no longer to read has ended with a value.

*Syntax tables.*  Any rules whose patterns are sequences (`TableAssumption`), any nesting.
`IInv == TypeOK /\ CountsCover /\ Nested /\ AddedInv`.  `CountsCover` makes a table that
is not forked one that no other open scope uses, so that a class put into it reaches
nobody else; `Nested` says that an inner scope has every class of the scopes around it,
the very same one; `AddedInv` that the rules of a scope are in the trees of its own
table.  Trees only grow and keep what ends in a node, so the rules stay visible through
all of them.

The caches need `CacheInv` besides: nodes have numbers of their own, none above `lastId`
(`IdsInv`), and a cache has only keys that were given out or are symbols (`KeysInv`), so
that a new node finds nothing under its number.  FIRST sets come from `Leftmost`, a
recursive function over rounds; it is unfolded and shown to grow with the trees round by
round, and with it the FIRST and FOLLOW sets (`FirstGrows`, `FollowGrows`), so that what
was put into a cache stays inside what the trees say now.  A move stays right for the same
reason: its child is still one, its token can still start it, and two children that
clashed still do (`MoveGrows`).  The exception `NumbersApart(t)` is part of the property
and is per table: `GetFollowSet` keeps its sets in `firstSets` under the node's number
(`parsersyntaxtable.c:656`), and in a table where a nonterminal node has the number of a
nonterminal's symbol a FOLLOW set is taken for a FIRST set, or the other way round.  Node
numbers do get there (`STMT` is 78), in the instance too, where the run fails without the
exception.  Two parts of `TableAssumption` are for
this proof: a nonterminal in a pattern is one there is, and symbols have different numbers.

*Follow sets.*  Any rules and any input.  `IInv` says of the stack of calls that every
`Parser_ApplyCustomSyntax` that waits for a nonterminal has saved the set that is in force
below it, besides that the set in force now is right.  It is stated with `InForce` of the
first `n` frames, so that a call (`SavedPush`, `SavedPushReading`) and a return
(`SavedPop`) are one lemma each, and all actions but two are calm: they neither
touch the set nor wait for a nonterminal.

*Loops.*  Lists of any length, ranges of any numbers that are computed in a wider type, as
those of 16 bits are in an `int` (`Half` is any; 32 and 64 bits overflow at `end - step` and
are outside), any function of the
program and any assignments it makes.  `LoopInv` says that the index counts the answers,
that result, count or the fact of still looking is what the first `m` answers make of it
(`Holds`; `where` collects the kept items at their rank), what is on the stack at each
point, and, as long as nothing was assigned, that the register is at the item of its index
(`Positioned`).  So the test `current <= end - step` is passed exactly when there is
another number, and adding the step never wraps: `Wrap` is the identity there.
`RemovedStayOut` needs `DownTheList`: whatever was assigned, a link leads down the list, so
that as many steps as there are cells reach the end from everywhere, and the rest of a cell
of the list is one too.

*Sorts.*  Lists of any length, any answers of the comparison and any assignments that the
model allows it.  The cells that are sorted are `1 .. n` for `sort!` and the copies
`n+1 .. 2n` for `sort`.  `SortInv` says that at every point they are in some order `s`
(`Order`): the first `w` are linked in the list being made (`Built`), then come the cells of
the left run up to `x` and those of the right run and what follows it (`Merging`, `LeadsOn`).
Taking a cell from the left run leaves `s` as it is; taking one from the right run moves it
in front of the left one (`Moved`), with every cell still there once.  `Memory`, `Copies` and
`Cloning` say that the argument is not touched and that the copies are what there was at the
call.  This is all `SortsKeep` needs.  For `SortsStably` (`Proper`: a comparison of keys, at
most `2 * ByteValues - 2` cells) the same points also say how far the order has come: runs of
`stepSize` cells are sorted and cells of different runs are in the order they had
(`RunsFrom`, `RunsTo`, `Apart`), after `t` merges (`Merged`) and inside one (`InMerge`).  The
counter is `t % ByteValues`; a pass over so many cells has fewer than `ByteValues` merges, so
one or none counted is one or none made, and the list is a single run.

Only model-checked:

* `SameAsSource` and `StackFits` of `Eval`, and `Structure`, `Complete` and `Sound` of
  `ExprGrammar`: their references are RECURSIVE operators over expressions and inputs, with
  which the provers cannot work.  (The recursive functions over a stretch of numbers,
  `Stop`, `Leftmost` and `Ahead`, are unfolded in the proofs by an argument about sets of
  numbers);
* `EscapesOnlyOutwards`, which needs an invariant of compiled code that rests on the same
  recursion;
* all liveness (`ResizeEnds`, `Terminates`, `PromptReturns`, `Ends`).

## Not modelled, and the plan

Most lines of the repository are the vendored decimal library and garbage collector,
generated tables and the arithmetic of the numeric types; they have no protocol of
their own and floating arithmetic is out of TLC's reach.  Also left out: strings,
Unicode, crypto, the operating system, the console.

Within the modelled parts: in the compiler members, properties, methods, `new`,
quoting, op-assignment, argument checks and error blocks, and in the machine the
instructions these need; in the lexer the values of tokens, Unicode and numbers that
start with 0; in the parser statement keywords, assignments, functions, literals,
declarations with initialisers and the templates of rules; of the methods the forms
with a fixed value, joins, slices and ranges of other types.

Next, in order:

1. Methods, properties and op-assignment in `Compiler` and `Eval`.
2. Declarations, assignments and functions in `ExprParser`; templates of rules.
3. `SymbolTable` and `StringBuilder`: growth, in the style of `CompiledTables`.
4. Proofs: lemmas on `CompiledBlock` (`Emit` and `AppendChild` keep `delta <= max`).
