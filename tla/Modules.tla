------------------------------ MODULE Modules ------------------------------
(***************************************************************************)
(* #include: how the interactive loop and the files it includes load       *)
(* modules (parsing/parser/parseinclude.c), number them (env/modules.c)    *)
(* and run them on their first use (Op_LdInclude and InitModule in         *)
(* eval/eval.c).                                                           *)
(*                                                                         *)
(* A line of the interactive loop is parsed, with every file it includes,  *)
(* in nested parsers; then it is compiled and run, and running it runs the *)
(* modules it reads from, each inside the instruction that reads first.    *)
(* All lines share the modules.  A file is its canonical path and a record *)
(* of what matters of its text:                                            *)
(*   readable, wellFormed   the loader opens it; it parses                 *)
(*   includes               what it includes, in order                     *)
(*   names                  how many names it exposes                      *)
(*   body                   what running it does: "ends", "throws",        *)
(*                          "breaks" (at #brk), or "badCompile"            *)
(* MaxLines bounds the lines, MaxDepth is how many nested parsers fit on   *)
(* the C stack.                                                            *)
(***************************************************************************)
EXTENDS Integers, Sequences, FiniteSets, Functions

CONSTANTS Files, Disks, MaxLines, MaxDepth, FirstMax, PointerSize

ASSUME ModulesAssumption ==
  /\ MaxLines \in Nat /\ MaxDepth \in Nat \ {0}
  /\ FirstMax \in Nat \ {0, 1} /\ PointerSize \in Nat \ {0}
  /\ "line" \notin Files /\ "prompt" \notin Files /\ "none" \notin Files

(* There are finitely many files.                                           *)
Contents == [readable : BOOLEAN, wellFormed : BOOLEAN, includes : Seq(Files), names : Nat,
             body : {"ends", "throws", "breaks", "badCompile"}]
ASSUME DisksAssumption == IsFiniteSet(Files) /\ Disks \subseteq [Files -> Contents]

VARIABLES
  disk,        \* the files and what is in them
  line,        \* how many lines were typed
  known,       \* the names declared so far at the prompt, by the file they are from
  id,          \* the number of each registered module, 0 for the others
  moduleArray, \* the registered modules by number
  module,      \* of each registered module, loadedSuccessfully and its expression
  parsing,     \* the parsers at work, the innermost last
  reg,         \* the machine's registers: what runs and what it still has to read
  handler,     \* whose exception continuation is the current one
  saved,       \* what each InitModule in progress saved of reg and handler
  throwing,    \* an exception is on its way from a module to its includer
  evalResult,  \* how the run of a module ended, "none" before
  hasClosure,  \* whether the module has the variables of that run
  stopped,     \* "no", or why the process is gone
  log          \* history: how often each file was parsed and run, when it failed

registry == <<id, moduleArray, module>>
machine == <<reg, handler, saved, throwing, evalResult, hasClosure>>
vars == <<disk, line, known, registry, parsing, machine, stopped, log>>

Idle == [who |-> "prompt", todo |-> <<>>]
Top == parsing[Len(parsing)]
Outer == SubSeq(parsing, 1, Len(parsing) - 1)
NextId == Cardinality({f \in Files : id[f] # 0}) + 1

Init ==
  /\ disk \in Disks
  /\ line = 0 /\ known = {}
  /\ id = [f \in Files |-> 0]
  /\ moduleArray = <<>>
  /\ module = [f \in Files |-> [loaded |-> FALSE, reads |-> <<>>]]
  /\ parsing = <<>>
  /\ reg = Idle /\ handler = "none" /\ saved = <<>> /\ throwing = FALSE
  /\ evalResult = [f \in Files |-> "none"]
  /\ hasClosure = [f \in Files |-> FALSE]
  /\ stopped = "no"
  /\ log = [f \in Files |-> [parsed |-> 0, run |-> 0, failedOn |-> 0]]

Parser(who, includes, renamed, declared) ==
  [who |-> who, rest |-> includes, renamed |-> renamed, declared |-> declared,
   reads |-> <<>>, failed |-> FALSE]

-----------------------------------------------------------------------------
(* Numbering the modules.  The array grows when the number after the new    *)
(* module's would not fit, and takes over MemCpy's count in bytes of it.     *)
Grown ==
  LET max == Len(moduleArray)
  IN [n \in 1 .. 2 * max |->
        IF n <= max \div PointerSize THEN moduleArray[n] ELSE "none"]

Room ==
  IF moduleArray = <<>> THEN [n \in 1 .. FirstMax |-> "none"]
  ELSE IF NextId + 1 >= Len(moduleArray) THEN Grown ELSE moduleArray

(* The slot of number n: the array starts at 0.                             *)
Slot(n) == n + 1

(* As a bug would have it: a module that failed is left out, to be tried    *)
(* again.                                                                   *)
RegisterLoaded(f, ok, reads) ==
  IF ok THEN /\ id' = [id EXCEPT ![f] = NextId]
             /\ moduleArray' = [Room EXCEPT ![Slot(NextId)] = f]
             /\ module' = [module EXCEPT ![f] = [loaded |-> ok, reads |-> reads]]
             /\ UNCHANGED stopped
  ELSE UNCHANGED <<registry, stopped>>

Register(f, ok, reads) ==
  IF id[f] # 0 THEN stopped' = "abort" /\ UNCHANGED registry
  ELSE /\ id' = [id EXCEPT ![f] = NextId]
       /\ moduleArray' = [Room EXCEPT ![Slot(NextId)] = f]
       /\ module' = [module EXCEPT ![f] = [loaded |-> ok, reads |-> reads]]
       /\ UNCHANGED stopped

GetModuleById(n) == IF n < NextId THEN moduleArray[Slot(n)] ELSE "none"

-----------------------------------------------------------------------------
(* Parsing.                                                                 *)

(* What an include of a registered module leaves in the parser p: an error  *)
(* when it did not load, and otherwise an instruction to read each name.    *)
(* A name that is declared already is an error, too, but parsing goes on.   *)
Exposed(p, f, n, m) ==
  LET count == IF p.renamed /\ disk[f].names > 0 THEN 1 ELSE disk[f].names
      clash == ~p.renamed /\ f \in p.declared /\ count > 0
      next  == [p EXCEPT !.rest = Tail(@)]
  IN IF ~m.loaded THEN [next EXCEPT !.failed = TRUE]
     ELSE [next EXCEPT !.reads    = @ \o [k \in 1 .. count |-> n],
                       !.failed   = @ \/ clash,
                       !.declared = IF p.renamed THEN @ ELSE @ \cup {f}]

Parses == stopped = "no" /\ parsing # <<>>

(* A line is one include at the prompt, under the module's own names or     *)
(* under new ones (#include "f": x as y).                                   *)
TypeLine(f, renamed) ==
  /\ stopped = "no" /\ parsing = <<>> /\ reg = Idle
  /\ line < MaxLines
  /\ line' = line + 1
  /\ parsing' = <<Parser("line", <<f>>, renamed, known)>>
  /\ UNCHANGED <<disk, known, registry, machine, stopped, log>>

(* The file is registered, with whatever result.                            *)
IncludeKnown ==
  /\ Parses /\ Top.rest # <<>>
  /\ LET f == Head(Top.rest)
     IN /\ id[f] # 0
        /\ parsing' = Append(Outer, Exposed(Top, f, id[f], module[f]))
  /\ UNCHANGED <<disk, line, known, registry, machine, stopped, log>>

(* A file that cannot be read is registered as a module that did not load.  *)
IncludeUnreadable ==
  /\ Parses /\ Top.rest # <<>>
  /\ LET f == Head(Top.rest)
     IN /\ id[f] = 0 /\ ~disk[f].readable
        /\ Register(f, FALSE, <<>>)
        /\ parsing' = Append(Outer, Exposed(Top, f, id'[f], module'[f]))
  /\ UNCHANGED <<disk, line, known, machine, log>>

(* Another file is parsed by a parser of its own, in a scope of its own,    *)
(* before it is registered.                                                 *)
IncludeNew ==
  /\ Parses /\ Top.rest # <<>>
  /\ LET f == Head(Top.rest)
     IN /\ id[f] = 0 /\ disk[f].readable
        /\ IF Len(parsing) = MaxDepth
           THEN stopped' = "stackOverflow" /\ UNCHANGED <<parsing, log>>
           ELSE /\ parsing' = Append(parsing, [Parser(f, disk[f].includes, FALSE, {})
                                                EXCEPT !.failed = ~disk[f].wellFormed])
                /\ log' = [log EXCEPT ![f].parsed = @ + 1]
                /\ UNCHANGED stopped
  /\ UNCHANGED <<disk, line, known, registry, machine>>

(* Recovery from an error skips to the next bracket, over any includes on   *)
(* the way.                                                                 *)
SkipAfterError ==
  /\ Parses /\ Top.rest # <<>> /\ Top.failed
  /\ parsing' = Append(Outer, [Top EXCEPT !.rest = Tail(@)])
  /\ UNCHANGED <<disk, line, known, registry, machine, stopped, log>>

(* The end of a file: it becomes a module, and its includer goes on.        *)
FileParsed ==
  /\ Parses /\ Top.rest = <<>> /\ Top.who # "line"
  /\ LET f == Top.who
         p == Outer[Len(Outer)]
     IN /\ Register(f, ~Top.failed, Top.reads)
        /\ parsing' = Append(SubSeq(Outer, 1, Len(Outer) - 1),
                             Exposed(p, f, id'[f], module'[f]))
  /\ UNCHANGED <<disk, line, known, machine, log>>

(* Compiling [$include] looks the module up by its number.                  *)
Compilable(reads) == \A k \in DOMAIN reads : GetModuleById(reads[k]) # "none"

(* The end of a line: what it declared stays, and it is run unless it has   *)
(* errors.                                                                  *)
LineParsed ==
  /\ Parses /\ Top.rest = <<>> /\ Top.who = "line"
  /\ parsing' = <<>>
  /\ known' = Top.declared
  /\ IF ~Top.failed /\ Compilable(Top.reads)
     THEN /\ reg' = [who |-> "line", todo |-> Top.reads]
          /\ handler' = "line"
     ELSE UNCHANGED <<reg, handler>>
  /\ UNCHANGED <<disk, line, registry, saved, throwing, evalResult, hasClosure, stopped, log>>

-----------------------------------------------------------------------------
(* Running.                                                                 *)
Runs == stopped = "no" /\ parsing = <<>> /\ reg.who # "prompt"
Asked == moduleArray[Slot(Head(reg.todo))]
Innermost == saved[Len(saved)]

(* As a bug would have it: byteCode++ is forgotten.                         *)
LdIncludeStays ==
  /\ Runs /\ ~throwing /\ reg.todo # <<>>
  /\ evalResult[Asked] # "none"
  /\ stopped' = IF hasClosure[Asked] THEN stopped ELSE "nullClosure"
  /\ UNCHANGED <<disk, line, known, registry, parsing, machine, log>>

(* Op_LdInclude of a module that was run: its variable is pushed, through   *)
(* whatever closure the module has.                                         *)
LdInclude ==
  /\ Runs /\ ~throwing /\ reg.todo # <<>>
  /\ evalResult[Asked] # "none"
  /\ IF hasClosure[Asked]
     THEN reg' = [reg EXCEPT !.todo = Tail(@)] /\ UNCHANGED stopped
     ELSE stopped' = "nullClosure" /\ UNCHANGED reg
  /\ UNCHANGED <<disk, line, known, registry, parsing, handler, saved, throwing,
                 evalResult, hasClosure, log>>

(* Op_LdInclude of a module that was not: it is compiled, and if that works *)
(* the machine goes to it, with its own exception continuation.             *)
InitModule ==
  /\ Runs /\ ~throwing /\ reg.todo # <<>>
  /\ LET f == Asked
     IN /\ evalResult[f] = "none"
        /\ IF disk[f].body # "badCompile" /\ Compilable(module[f].reads)
           THEN /\ saved' = Append(saved, [reg |-> reg, handler |-> handler])
                /\ reg' = [who |-> f, todo |-> module[f].reads]
                /\ handler' = f
                /\ log' = [log EXCEPT ![f].run = @ + 1]
                /\ UNCHANGED <<throwing, evalResult>>
           ELSE /\ evalResult' = [evalResult EXCEPT ![f] = "parseErrors"]
                /\ log' = [log EXCEPT ![f].failedOn = line]
                /\ throwing' = TRUE
                /\ UNCHANGED <<reg, handler, saved>>
  /\ UNCHANGED <<disk, line, known, registry, parsing, hasClosure, stopped>>

(* As a bug would have it: the exception continuation stays the module's.   *)
AfterRecurseKeepsHandler ==
  /\ reg' = Innermost.reg
  /\ saved' = SubSeq(saved, 1, Len(saved) - 1)
  /\ UNCHANGED handler

AfterRecurse ==
  /\ reg' = Innermost.reg
  /\ handler' = Innermost.handler
  /\ saved' = SubSeq(saved, 1, Len(saved) - 1)

(* As a bug would have it: the closure is not kept.                         *)
KeepClosureNever(f) == UNCHANGED hasClosure

(* A run that ends hands its closure to the module, no other does.          *)
KeepClosure(f) == hasClosure' = [hasClosure EXCEPT ![f] = TRUE]

(* The run of a module ends; the instruction that asked for it goes on.     *)
BodyEnds ==
  /\ Runs /\ ~throwing /\ reg.todo = <<>>
  /\ reg.who \in Files /\ disk[reg.who].body = "ends"
  /\ evalResult' = [evalResult EXCEPT ![reg.who] = "value"]
  /\ KeepClosure(reg.who)
  /\ AfterRecurse
  /\ UNCHANGED <<disk, line, known, registry, parsing, throwing, stopped, log>>

(* As a bug would have it: a breakpoint in a module goes unnoticed.         *)
BodyBreaksSilently ==
  /\ Runs /\ ~throwing
  /\ reg.who \in Files /\ disk[reg.who].body = "breaks"
  /\ evalResult' = [evalResult EXCEPT ![reg.who] = "break"]
  /\ KeepClosure(reg.who)
  /\ AfterRecurse
  /\ UNCHANGED <<disk, line, known, registry, parsing, throwing, stopped, log>>

(* The run of a module stops at a breakpoint, which its includer throws as  *)
(* an exception.                                                            *)
BodyBreaks ==
  /\ Runs /\ ~throwing
  /\ reg.who \in Files /\ disk[reg.who].body = "breaks"
  /\ evalResult' = [evalResult EXCEPT ![reg.who] = "break"]
  /\ log' = [log EXCEPT ![reg.who].failedOn = line]
  /\ AfterRecurse
  /\ throwing' = TRUE
  /\ UNCHANGED <<disk, line, known, registry, parsing, hasClosure, stopped>>

(* Smile_Throw, from a module's own code or from InitModule on behalf of a  *)
(* module that failed: the run that set the current continuation ends, and  *)
(* a continuation that is not that of what runs has ended before.           *)
Throw ==
  /\ Runs
  /\ throwing \/ (reg.who \in Files /\ disk[reg.who].body = "throws")
  /\ IF handler # reg.who
     THEN stopped' = "abort" /\ UNCHANGED <<machine, log>>
     ELSE /\ UNCHANGED <<stopped, hasClosure>>
          /\ IF reg.who = "line"
             THEN /\ reg' = Idle /\ throwing' = FALSE
                  /\ UNCHANGED <<handler, saved, evalResult, log>>
             ELSE /\ evalResult' = [evalResult EXCEPT ![reg.who] = "exception"]
                  /\ log' = [log EXCEPT ![reg.who].failedOn = line]
                  /\ AfterRecurse
                  /\ throwing' = TRUE
  /\ UNCHANGED <<disk, line, known, registry, parsing>>

LineEnds ==
  /\ Runs /\ ~throwing /\ reg.who = "line" /\ reg.todo = <<>>
  /\ reg' = Idle
  /\ UNCHANGED <<disk, line, known, registry, parsing, handler, saved, throwing,
                 evalResult, hasClosure, stopped, log>>

-----------------------------------------------------------------------------
(* The user has no more to type, or the process is gone.                    *)
Quit ==
  /\ stopped # "no" \/ (line = MaxLines /\ parsing = <<>> /\ reg = Idle)
  /\ UNCHANGED vars

Work ==
  \/ IncludeKnown \/ IncludeUnreadable \/ IncludeNew \/ SkipAfterError
  \/ FileParsed \/ LineParsed
  \/ LdInclude \/ InitModule \/ BodyEnds \/ BodyBreaks \/ Throw \/ LineEnds

Next == Quit \/ Work \/ \E f \in Files, renamed \in BOOLEAN : TypeLine(f, renamed)

Spec == Init /\ [][Next]_vars

(* The process goes on with a line until it is done with it.                *)
FairSpec == Spec /\ WF_vars(Work)

-----------------------------------------------------------------------------
(* The files f leads to through its includes: the least set that holds      *)
(* those it includes and those they lead to.                                *)
Includes(f) == Range(disk[f].includes)
Closed(S) == \A g \in S : Includes(g) \subseteq S
Leads(f) == {g \in Files : \A S \in SUBSET Files :
               Includes(f) \subseteq S /\ Closed(S) => g \in S}
Circular(f) == f \in Leads(f)

(* A module's code is run at most once, however many lines and modules      *)
(* include it and in whatever order, and whether or not it failed           *)
(* (moduleInfo->evalResult).  Its file is parsed again only by an include   *)
(* that comes back to it, which only its registration could have stopped:   *)
(* LoadUserFile parses first and registers afterwards.  Nothing but such a  *)
(* circle exhausts a stack that has room for a parser for every file, and   *)
(* nothing but such a circle registers a module twice, which aborts.        *)
OnceUnlessCircular ==
  /\ \A f \in Files : log[f].run <= 1 /\ (log[f].parsed > 1 => Circular(f))
  /\ \/ stopped = "abort"
     \/ stopped = "stackOverflow" /\ Cardinality(Files) < MaxDepth
     => \E f \in Files : Circular(f)

(* A module whose run ended has read only from modules whose runs ended:    *)
(* no failure further down is lost on its way up through InitModule.        *)
FailuresTravelUp ==
  \A f \in Files : evalResult[f] = "value" =>
    \A k \in DOMAIN module[f].reads :
      \E g \in Files : id[g] = module[f].reads[k] /\ evalResult[g] = "value"

(* An exception goes to the run that is innermost: the continuation, the    *)
(* registers and the stack of InitModule calls stay in step when a module   *)
(* ends, breaks or throws (Eval_BeforeRecurse, Eval_AfterRecurse).          *)
InnermostHandles ==
  /\ reg.who # "prompt" => handler = reg.who
  /\ \A k \in DOMAIN saved : saved[k].handler = saved[k].reg.who

(* What the first use of a module finds wrong is reported as an exception:  *)
(* only a module that failed on an earlier line is read without a closure.  *)
FirstUseIsSafe ==
  stopped = "nullClosure" => log[Asked].failedOn \in 1 .. line - 1

(* Every line comes to its end, with a result, an error or an exception,    *)
(* unless the process is gone.                                              *)
PromptReturns == [](parsing # <<>> \/ reg # Idle =>
                    <>(stopped # "no" \/ (parsing = <<>> /\ reg = Idle)))
=============================================================================
