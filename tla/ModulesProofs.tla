--------------------------- MODULE ModulesProofs ----------------------------
(***************************************************************************)
(* Proofs about Modules for every set of files, every way of including one *)
(* another, and every number of lines.                                     *)
(***************************************************************************)
EXTENDS Modules, FiniteSetTheorems, SequenceTheorems, TLAPS

Whos == Files \cup {"line", "prompt"}
Regs == [who : Whos, todo : Seq(Nat)]
Results == {"none", "value", "exception", "break", "parseErrors"}
Parsers == [who : Whos, rest : Seq(Files), renamed : BOOLEAN, declared : SUBSET Files,
            reads : Seq(Nat), failed : BOOLEAN]

TypeOK ==
  /\ disk \in [Files -> Contents]
  /\ line \in Nat /\ known \in SUBSET Files
  /\ id \in [Files -> Nat]
  /\ moduleArray \in Seq(Files \cup {"none"})
  /\ module \in [Files -> [loaded : BOOLEAN, reads : Seq(Nat)]]
  /\ parsing \in Seq(Parsers)
  /\ reg \in Regs /\ handler \in Whos \cup {"none"}
  /\ saved \in Seq([reg : Regs, handler : Whos \cup {"none"}])
  /\ throwing \in BOOLEAN
  /\ evalResult \in [Files -> Results]
  /\ hasClosure \in [Files -> BOOLEAN]
  /\ stopped \in {"no", "abort", "stackOverflow", "nullClosure"}
  /\ log \in [Files -> [parsed : Nat, run : Nat, failedOn : Nat]]

(* The numbers of modules.  Every number is below the next one, the array   *)
(* has room for them, and what it has not lost is in the right slot; what a *)
(* module reads from was numbered before it.                                *)
Numbered == {f \in Files : id[f] # 0}
RegistryInv ==
  /\ \A f \in Files : id[f] < NextId
  /\ moduleArray = <<>> => Numbered = {}
  /\ moduleArray # <<>> => Len(moduleArray) >= 2 /\ NextId <= Len(moduleArray)
  /\ \A n \in 1 .. Len(moduleArray) :
       moduleArray[n] # "none" => n > 1 /\ id[moduleArray[n]] = n - 1
  /\ \A f \in Numbered : \A k \in 1 .. Len(module[f].reads) :
       module[f].reads[k] \in 1 .. id[f] - 1

(* The parsers at work: the line's, and inside it those of files, each of   *)
(* which the one before is about to include.                                *)
ParsersInv ==
  /\ parsing # <<>> => reg = Idle /\ line > 0
  /\ \A k \in 1 .. Len(parsing) :
       /\ parsing[k].who = "line" <=> k = 1
       /\ parsing[k].who # "prompt"
       /\ k < Len(parsing) => parsing[k].rest # <<>>
       /\ \A j \in 1 .. Len(parsing[k].reads) : parsing[k].reads[j] \in 1 .. NextId - 1

(* Where they come from: an inner one is of a file that the outer ones lead *)
(* to.  A file that was parsed is registered or still being parsed, or it   *)
(* is on a circle.                                                          *)
IncludesInv ==
  /\ \A k \in 2 .. Len(parsing) :
       /\ disk[parsing[k].who].readable
       /\ \A j \in 1 .. Len(parsing[k].rest) : parsing[k].rest[j] \in Includes(parsing[k].who)
       /\ \A j \in 2 .. k - 1 : parsing[k].who \in Leads(parsing[j].who)
       /\ id[parsing[k].who] # 0 => Circular(parsing[k].who)
  /\ \A f \in Files :
       /\ log[f].parsed > 0 => id[f] # 0 \/ \E k \in 2 .. Len(parsing) : parsing[k].who = f
       /\ log[f].parsed > 1 => Circular(f)
  /\ \/ stopped = "abort"
     \/ stopped = "stackOverflow" /\ Cardinality(Files) < MaxDepth
     => \E f \in Files : Circular(f)

(* What runs inside what: the line, and inside it modules, each for the     *)
(* instruction at which the one before stands.                              *)
Depth == Len(saved) + 1
Frame(k) == IF k <= Len(saved) THEN saved[k].reg ELSE reg

FramesInv ==
  /\ reg.who = "prompt" => reg = Idle /\ saved = <<>> /\ ~throwing
  /\ reg.who # "prompt" => parsing = <<>> /\ line > 0
  /\ \A k \in 1 .. Len(saved) : saved[k].reg.who # "prompt" /\ saved[k].reg.todo # <<>>
  /\ reg.who # "prompt" => \A k \in 1 .. Depth : Frame(k).who = "line" <=> k = 1
  /\ \A k \in 2 .. Depth : id[Frame(k).who] = Head(Frame(k - 1).todo)
  /\ \A k \in 1 .. Depth : \A j \in 1 .. Len(Frame(k).todo) :
       /\ Frame(k).todo[j] \in 1 .. NextId - 1
       /\ moduleArray[Slot(Frame(k).todo[j])] # "none"

(* A module that runs was numbered before the ones it runs inside, so it is *)
(* none of them, and it has read what it has no longer to read.             *)
Consumed(f, todo) == Len(module[f].reads) - Len(todo)
Succeeded(n) == \E g \in Files : id[g] = n /\ evalResult[g] = "value"
RunInv ==
  \A k \in 2 .. Depth :
    LET f == Frame(k).who
        todo == Frame(k).todo
        reads == module[f].reads
    IN /\ evalResult[f] = "none"
       /\ \A j \in 2 .. k - 1 : id[f] < id[Frame(j).who]
       /\ Len(todo) <= Len(reads)
       /\ \A j \in 1 .. Len(todo) : todo[j] = reads[Consumed(f, todo) + j]
       /\ \A j \in 1 .. Consumed(f, todo) : Succeeded(reads[j])

(* A module is run again neither while it runs nor afterwards.              *)
OnceInv ==
  /\ \A f \in Files : log[f].run <= 1
  /\ \A f \in Files : evalResult[f] = "none" /\ log[f].run = 1 =>
       \E k \in 2 .. Depth : Frame(k).who = f
  /\ \A f \in Files : hasClosure[f] <=> evalResult[f] = "value"
  /\ \A f \in Files : evalResult[f] # "none" => id[f] # 0

(* Who failed on this line is being reported, or the line has ended.        *)
FailedInv ==
  /\ \A f \in Files : evalResult[f] \notin {"none", "value"} =>
       /\ log[f].failedOn \in 1 .. line
       /\ log[f].failedOn = line => parsing = <<>> /\ (throwing \/ reg.who = "prompt")
  /\ FirstUseIsSafe

IInv ==
  /\ TypeOK /\ RegistryInv /\ ParsersInv /\ IncludesInv
  /\ InnermostHandles /\ FramesInv /\ RunInv /\ OnceInv /\ FailedInv /\ FailuresTravelUp

-----------------------------------------------------------------------------
(* Sequences used as stacks: pushing.                                       *)
LEMMA Push ==
  ASSUME NEW S, NEW s \in Seq(S), NEW e \in S
  PROVE  /\ Append(s, e) \in Seq(S) /\ Len(Append(s, e)) = Len(s) + 1
         /\ \A k \in 1 .. Len(s) : Append(s, e)[k] = s[k]
         /\ Append(s, e)[Len(s) + 1] = e
  OBVIOUS

(* The bottom n elements of a stack.                                        *)
LEMMA Below ==
  ASSUME NEW S, NEW s \in Seq(S), NEW n \in Nat, n <= Len(s)
  PROVE  LET t == SubSeq(s, 1, n)
         IN t \in Seq(S) /\ Len(t) = n /\ \A k \in 1 .. n : t[k] = s[k]
<1> DEFINE t == SubSeq(s, 1, n)
<1>1. \A i \in 1 .. n : s[i] \in S
  BY ElementOfSeq, LenProperties
<1>2. /\ t \in Seq(S) /\ Len(t) = IF 1 <= n THEN n - 1 + 1 ELSE 0
      /\ \A i \in 1 .. n - 1 + 1 : t[i] = s[1 + i - 1]
  BY <1>1, SubSeqProperties
<1> HIDE DEF t
<1>3. Len(t) = n
  BY <1>2
<1>4. ASSUME NEW k \in 1 .. n  PROVE t[k] = s[k]
  <2>1. k \in 1 .. n - 1 + 1 /\ 1 + k - 1 = k
    OBVIOUS
  <2>2. QED
    BY <1>2, <2>1
<1>5. QED
  BY <1>2, <1>3, <1>4 DEF t

(* The bottom of the bottom of a stack.                                     *)
LEMMA BelowBelow ==
  ASSUME NEW S, NEW s \in Seq(S), NEW n \in Nat \ {0}, n <= Len(s)
  PROVE  SubSeq(SubSeq(s, 1, n), 1, n - 1) = SubSeq(s, 1, n - 1)
<1> DEFINE t == SubSeq(s, 1, n)
           u == SubSeq(t, 1, n - 1)
           v == SubSeq(s, 1, n - 1)
<1>1. t \in Seq(S) /\ Len(t) = n /\ \A k \in 1 .. n : t[k] = s[k]
  BY Below
<1>2. v \in Seq(S) /\ Len(v) = n - 1 /\ \A k \in 1 .. n - 1 : v[k] = s[k]
  BY LenProperties, Below
<1> HIDE DEF t, v
<1>3. u \in Seq(S) /\ Len(u) = n - 1 /\ \A k \in 1 .. n - 1 : u[k] = t[k]
  BY <1>1, Below
<1> HIDE DEF u
<1>4. u = v
  BY <1>1, <1>2, <1>3, SeqEqual
<1>5. QED
  BY <1>4 DEF t, u, v

(* The stack without its top.                                               *)
LEMMA Pop ==
  ASSUME NEW S, NEW s \in Seq(S), s # <<>>
  PROVE  LET t == SubSeq(s, 1, Len(s) - 1)
         IN /\ Len(s) \in Nat \ {0}
            /\ t \in Seq(S) /\ Len(t) = Len(s) - 1
            /\ \A k \in 1 .. Len(s) - 1 : t[k] = s[k]
<1>1. Len(s) \in Nat \ {0}
  BY EmptySeq, LenProperties
<1> DEFINE n == Len(s) - 1
<1>2. n \in Nat /\ n <= Len(s)
  BY <1>1
<1> HIDE DEF n
<1>3. QED
  BY <1>1, <1>2, Below DEF n

(* A stack whose top is replaced.                                           *)
LEMMA ReplaceTop ==
  ASSUME NEW S, NEW s \in Seq(S), s # <<>>, NEW e \in S
  PROVE  LET t == Append(SubSeq(s, 1, Len(s) - 1), e)
         IN /\ Len(s) \in Nat \ {0}
            /\ t \in Seq(S) /\ Len(t) = Len(s)
            /\ \A k \in 1 .. Len(s) - 1 : t[k] = s[k]
            /\ t[Len(s)] = e
  BY Pop, Push

(* A queue without its head.                                                *)
LEMMA TailFacts ==
  ASSUME NEW S, NEW s \in Seq(S), s # <<>>
  PROVE  /\ Len(s) \in Nat \ {0}
         /\ Head(s) \in S /\ Head(s) = s[1]
         /\ Tail(s) \in Seq(S) /\ Len(Tail(s)) = Len(s) - 1
         /\ \A i \in 1 .. Len(s) - 1 : Tail(s)[i] = s[i + 1]
  OBVIOUS

-----------------------------------------------------------------------------
(* What an include leaves in the parser it is in.                           *)
LEMMA ExposedFacts ==
  ASSUME disk \in [Files -> Contents], NEW p \in Parsers, p.rest # <<>>,
         NEW f \in Files, NEW n \in Nat, NEW m \in [loaded : BOOLEAN, reads : Seq(Nat)]
  PROVE  LET q == Exposed(p, f, n, m)
         IN /\ q \in Parsers /\ q.who = p.who /\ q.rest = Tail(p.rest)
            /\ \A j \in 1 .. Len(q.reads) :
                 q.reads[j] = n \/ (j \in 1 .. Len(p.reads) /\ q.reads[j] = p.reads[j])
<1> DEFINE count == IF p.renamed /\ disk[f].names > 0 THEN 1 ELSE disk[f].names
           clash == ~p.renamed /\ f \in p.declared /\ count > 0
           more == [k \in 1 .. count |-> n]
           next == [p EXCEPT !.rest = Tail(@)]
<1>1. count \in Nat
  BY DEF Contents
<1>2. more \in Seq(Nat) /\ Len(more) = count /\ \A k \in 1 .. count : more[k] = n
  BY <1>1
<1>3. Tail(p.rest) \in Seq(Files)
  BY TailFacts DEF Parsers
<1>4. /\ next \in Parsers /\ next.who = p.who /\ next.rest = Tail(p.rest)
      /\ next.reads = p.reads
  BY <1>3 DEF Parsers
<1>5. CASE ~m.loaded
  <2>1. Exposed(p, f, n, m) = [next EXCEPT !.failed = TRUE]
    BY <1>5 DEF Exposed
  <2>2. QED
    BY <2>1, <1>4 DEF Parsers
<1>6. CASE m.loaded
  <2> DEFINE both == p.reads \o more
             q == [next EXCEPT !.reads = @ \o more, !.failed = @ \/ clash,
                               !.declared = IF p.renamed THEN @ ELSE @ \cup {f}]
  <2>1. Exposed(p, f, n, m) = q
    BY <1>6 DEF Exposed
  <2>2. p.reads \in Seq(Nat)
    BY DEF Parsers
  <2>3. /\ both \in Seq(Nat) /\ Len(both) = Len(p.reads) + count
        /\ \A j \in 1 .. Len(both) :
             both[j] = IF j <= Len(p.reads) THEN p.reads[j] ELSE more[j - Len(p.reads)]
    BY <1>1, <1>2, <2>2, ConcatProperties
  <2>4. \A j \in 1 .. Len(both) :
          both[j] = n \/ (j \in 1 .. Len(p.reads) /\ both[j] = p.reads[j])
    BY <1>1, <1>2, <2>2, <2>3
  <2> HIDE DEF both, more, clash
  <2>5. /\ q.who = p.who /\ q.rest = Tail(p.rest) /\ q.reads = both /\ q \in Parsers
    BY <1>3, <2>3 DEF Parsers, both, clash
  <2>6. QED
    BY <2>1, <2>4, <2>5
<1>7. QED
  BY <1>5, <1>6

(* The next number is one more than there are modules.                      *)
LEMMA NextIdFacts ==
  ASSUME id \in [Files -> Nat]
  PROVE  /\ NextId \in Nat \ {0}
         /\ Numbered = {} => NextId = 1
<1>1. IsFiniteSet(Numbered)
  BY DisksAssumption, FS_Subset DEF Numbered
<1>2. Cardinality(Numbered) \in Nat
  BY <1>1, FS_CardinalityType
<1>3. Numbered = {} => Cardinality(Numbered) = 0
  BY FS_EmptySet
<1>4. QED
  BY <1>2, <1>3 DEF NextId, Numbered

(* A file that had no number takes the next one.                            *)
LEMMA NextIdGrows ==
  ASSUME id \in [Files -> Nat], NEW f \in Files, id[f] = 0,
         id' = [id EXCEPT ![f] = NextId]
  PROVE  NextId' = NextId + 1
<1>1. IsFiniteSet(Numbered)
  BY DisksAssumption, FS_Subset DEF Numbered
<1>2. Numbered' = Numbered \cup {f} /\ f \notin Numbered
  BY NextIdFacts DEF Numbered
<1>3. Cardinality(Numbered') = Cardinality(Numbered) + 1
  BY <1>1, <1>2, FS_AddElement
<1>4. Cardinality(Numbered) \in Nat
  BY <1>1, FS_CardinalityType
<1>5. QED
  BY <1>3, <1>4 DEF NextId, Numbered

(* The array keeps its entries in their slots when it grows, or loses them, *)
(* and it has room for one more.                                            *)
LEMMA RoomFacts ==
  ASSUME id \in [Files -> Nat], moduleArray \in Seq(Files \cup {"none"}), RegistryInv
  PROVE  /\ Room \in Seq(Files \cup {"none"})
         /\ Len(Room) >= 2 /\ NextId + 1 <= Len(Room)
         /\ \A n \in 1 .. Len(Room) : Room[n] # "none" => n > 1 /\ id[Room[n]] = n - 1
<1> DEFINE max == Len(moduleArray)
<1>1. max \in Nat /\ NextId \in Nat \ {0}
  BY LenProperties, NextIdFacts
<1>2. CASE moduleArray = <<>>
  <2> DEFINE s == [n \in 1 .. FirstMax |-> "none"]
  <2>1. Room = s
    BY <1>2 DEF Room
  <2>2. s \in Seq(Files \cup {"none"}) /\ Len(s) = FirstMax /\ \A n \in 1 .. FirstMax : s[n] = "none"
    BY ModulesAssumption
  <2>3. NextId = 1
    BY <1>2, NextIdFacts DEF RegistryInv
  <2> HIDE DEF s
  <2>4. QED
    BY <2>1, <2>2, <2>3, ModulesAssumption
<1>3. CASE moduleArray # <<>> /\ NextId + 1 >= max
  <2> DEFINE kept == max \div PointerSize
             s == [n \in 1 .. 2 * max |-> IF n <= kept THEN moduleArray[n] ELSE "none"]
  <2>1. Room = s
    <3>1. Room = Grown
      BY <1>3 DEF Room
    <3>2. QED
      BY <3>1 DEF Grown
  <2>2. kept \in Nat /\ kept <= max
    BY <1>1, ModulesAssumption
  <2> HIDE DEF kept
  <2>3. \A n \in 1 .. max : moduleArray[n] \in Files \cup {"none"}
    BY ElementOfSeq
  <2>4. s \in Seq(Files \cup {"none"}) /\ Len(s) = 2 * max
    BY <1>1, <2>2, <2>3
  <2>5. \A n \in 1 .. 2 * max : s[n] # "none" => n \in 1 .. max /\ s[n] = moduleArray[n]
    BY <1>1, <2>2
  <2> HIDE DEF s
  <2>6. max >= 2 /\ NextId <= max
    BY <1>3 DEF RegistryInv
  <2>7. 2 * max >= 2 /\ NextId + 1 <= 2 * max
    BY <1>1, <2>6
  <2>8. QED
    BY <2>1, <2>4, <2>5, <2>7 DEF RegistryInv
<1>4. CASE moduleArray # <<>> /\ ~(NextId + 1 >= max)
  <2>1. Room = moduleArray
    BY <1>4 DEF Room
  <2>2. QED
    BY <1>1, <1>4, <2>1 DEF RegistryInv
<1>5. QED
  BY <1>2, <1>3, <1>4

(* Registering a file: it takes the next number unless it has one, nothing  *)
(* else changes, and the registry stays in order.                           *)
LEMMA RegisterFacts ==
  ASSUME TypeOK, RegistryInv, NEW f \in Files, NEW ok \in BOOLEAN, NEW reads \in Seq(Nat),
         \A k \in 1 .. Len(reads) : reads[k] \in 1 .. NextId - 1,
         Register(f, ok, reads)
  PROVE  /\ id' \in [Files -> Nat] /\ moduleArray' \in Seq(Files \cup {"none"})
         /\ module' \in [Files -> [loaded : BOOLEAN, reads : Seq(Nat)]]
         /\ RegistryInv'
         /\ NextId \in Nat /\ NextId' \in Nat /\ NextId <= NextId'
         /\ id'[f] \in 1 .. NextId' - 1
         /\ \A g \in Files : id[g] # 0 \/ g # f => id'[g] = id[g] /\ module'[g] = module[g]
         /\ id[f] # 0 => stopped' = "abort"
         /\ id[f] = 0 => stopped' = stopped
<1>1. NextId \in Nat \ {0}
  BY NextIdFacts DEF TypeOK
<1>2. CASE id[f] # 0
  <2>1. UNCHANGED registry /\ stopped' = "abort"
    BY <1>2 DEF Register
  <2>2. RegistryInv' /\ NextId' = NextId
    BY <2>1 DEF RegistryInv, NextId, Numbered, registry
  <2>3. id[f] \in 1 .. NextId - 1
    BY <1>1, <1>2 DEF RegistryInv, TypeOK
  <2>4. QED
    BY <1>1, <1>2, <2>1, <2>2, <2>3 DEF TypeOK, registry
<1>3. CASE id[f] = 0
  <2>1. /\ id' = [id EXCEPT ![f] = NextId]
        /\ moduleArray' = [Room EXCEPT ![NextId + 1] = f]
        /\ module' = [module EXCEPT ![f] = [loaded |-> ok, reads |-> reads]]
        /\ stopped' = stopped
    BY <1>3 DEF Register, Slot
  <2>2. NextId' = NextId + 1
    BY <1>3, <2>1, NextIdGrows DEF TypeOK
  <2>3. /\ Room \in Seq(Files \cup {"none"})
        /\ Len(Room) >= 2 /\ NextId + 1 <= Len(Room)
        /\ \A n \in 1 .. Len(Room) : Room[n] # "none" => n > 1 /\ id[Room[n]] = n - 1
    BY RoomFacts DEF TypeOK
  <2>4. /\ moduleArray' \in Seq(Files \cup {"none"}) /\ Len(moduleArray') = Len(Room)
        /\ moduleArray'[NextId + 1] = f
        /\ \A n \in 1 .. Len(Room) : n # NextId + 1 => moduleArray'[n] = Room[n]
    BY <1>1, <2>1, <2>3, ExceptSeq
  <2>5. id' \in [Files -> Nat] /\ id'[f] = NextId /\ \A g \in Files : g # f => id'[g] = id[g]
    BY <1>1, <2>1 DEF TypeOK
  <2>6. module' \in [Files -> [loaded : BOOLEAN, reads : Seq(Nat)]]
    BY <2>1 DEF TypeOK
  <2>7. RegistryInv'
    <3>1. \A g \in Files : id'[g] < NextId'
      <4>1. \A g \in Files : id[g] \in Nat /\ id[g] < NextId
        BY DEF RegistryInv, TypeOK
      <4>2. QED
        BY <1>1, <2>2, <2>5, <4>1
    <3>2. moduleArray' # <<>> /\ Len(moduleArray') >= 2 /\ NextId' <= Len(moduleArray')
      BY <2>2, <2>3, <2>4, EmptySeq
    <3>3. ASSUME NEW n \in 1 .. Len(moduleArray'), moduleArray'[n] # "none"
          PROVE  n > 1 /\ id'[moduleArray'[n]] = n - 1
      <4>1. CASE n = NextId + 1
        BY <1>1, <2>4, <2>5, <4>1
      <4>2. CASE n # NextId + 1
        <5>1. moduleArray'[n] = Room[n] /\ n \in 1 .. Len(Room)
          BY <2>4, <4>2
        <5>2. n > 1 /\ id[Room[n]] = n - 1 /\ Room[n] \in Files
          BY <2>3, <3>3, <5>1, ElementOfSeq
        <5>3. id[Room[n]] # 0
          BY <5>2
        <5>4. QED
          BY <1>3, <2>5, <5>1, <5>2, <5>3
      <4>3. QED
        BY <4>1, <4>2
    <3>4. ASSUME NEW g \in Numbered', NEW k \in 1 .. Len(module'[g].reads)
          PROVE  module'[g].reads[k] \in 1 .. id'[g] - 1
      <4>1. CASE g = f
        BY <1>1, <2>1, <2>5, <4>1 DEF TypeOK
      <4>2. CASE g # f
        <5>1. g \in Files /\ id'[g] = id[g] /\ id[g] # 0 /\ module'[g] = module[g]
          BY <2>1, <2>5, <4>2 DEF Numbered, TypeOK
        <5>2. QED
          BY <3>4, <5>1 DEF RegistryInv, Numbered
      <4>3. QED
        BY <4>1, <4>2
    <3>5. QED
      BY <3>1, <3>2, <3>3, <3>4 DEF RegistryInv, Numbered
  <2>8. \A g \in Files : id[g] # 0 \/ g # f => id'[g] = id[g] /\ module'[g] = module[g]
    BY <1>3, <2>1, <2>5 DEF TypeOK
  <2>9. QED
    BY <1>1, <1>3, <2>1, <2>2, <2>4, <2>5, <2>6, <2>7, <2>8
<1>4. QED
  BY <1>2, <1>3

-----------------------------------------------------------------------------
(* Where the includes of a file lead.                                       *)
LEMMA LeadsFacts ==
  ASSUME disk \in [Files -> Contents], NEW f \in Files, NEW h \in Files
  PROVE  /\ h \in Includes(f) => h \in Leads(f)
         /\ \A g \in Files : g \in Leads(f) /\ h \in Includes(g) => h \in Leads(f)
  BY DEF Leads, Closed

(* The files on disk stay as they are, and with them where they lead.       *)
LEMMA LeadsKept ==
  ASSUME disk' = disk
  PROVE  \A f : /\ Leads(f)' = Leads(f) /\ (Circular(f)' <=> Circular(f))
                /\ Includes(f)' = Includes(f)
  BY DEF Leads, Closed, Includes, Circular

(* A step of parsing leaves alone what is said about runs, of which there   *)
(* are none in progress.                                                    *)
LEMMA ParsesRest ==
  ASSUME IInv, reg = Idle, stopped = "no", stopped' # "nullClosure", UNCHANGED machine,
         (parsing # <<>> /\ line' = line) \/ line' = line + 1,
         \A f \in Files : /\ log'[f].run = log[f].run
                          /\ log'[f].failedOn = log[f].failedOn
                          /\ id[f] # 0 => id'[f] = id[f] /\ module'[f] = module[f]
  PROVE  /\ InnermostHandles' /\ FramesInv' /\ RunInv'
         /\ OnceInv' /\ FailedInv' /\ FailuresTravelUp'
<1>1. /\ reg' = Idle /\ saved = <<>> /\ saved' = <<>> /\ throwing' = FALSE
      /\ evalResult' = evalResult /\ hasClosure' = hasClosure
  BY DEF IInv, FramesInv, machine, Idle, TypeOK
<1>2. Len(saved) = 0 /\ Depth = 1 /\ Len(saved') = 0 /\ Depth' = 1
  BY <1>1 DEF Depth
<1>3. Frame(1)' = Idle
  BY <1>1, <1>2 DEF Frame
<1>4. InnermostHandles'
  BY <1>1 DEF InnermostHandles, Idle
<1>5. FramesInv'
  <2>1. reg'.who = "prompt" /\ Idle.todo = <<>>
    BY <1>1 DEF Idle
  <2>2. Len(Frame(1)'.todo) = 0
    BY <1>3, <2>1
  <2>3. QED
    BY <1>1, <1>2, <2>1, <2>2 DEF FramesInv
<1>6. RunInv'
  BY <1>2 DEF RunInv
<1>7. OnceInv'
  <2>1. ASSUME NEW f \in Files, evalResult[f] = "none"  PROVE log[f].run # 1
    BY <1>2, <2>1 DEF IInv, OnceInv
  <2>2. \A f \in Files : evalResult[f] # "none" => id'[f] # 0
    BY DEF IInv, OnceInv
  <2>3. QED
    BY <1>1, <2>1, <2>2 DEF IInv, OnceInv
<1>8. FailedInv'
  <2>1. ASSUME NEW f \in Files, evalResult[f] \notin {"none", "value"}
        PROVE  log[f].failedOn \in 1 .. line /\ (parsing # <<>> => log[f].failedOn # line)
    BY <2>1 DEF IInv, FailedInv
  <2>2. ASSUME NEW f \in Files, evalResult[f] \notin {"none", "value"}
        PROVE  log'[f].failedOn \in 1 .. line' /\ log'[f].failedOn # line'
    BY <2>1, <2>2 DEF IInv, TypeOK
  <2>3. QED
    BY <1>1, <2>2 DEF FailedInv, FirstUseIsSafe
<1>9. FailuresTravelUp'
  <2>1. ASSUME NEW f \in Files, evalResult[f] # "none"
        PROVE  id[f] # 0 /\ id'[f] = id[f] /\ module'[f] = module[f]
    BY <2>1 DEF IInv, OnceInv
  <2>2. ASSUME NEW f \in Files, evalResult[f] = "value", NEW k \in DOMAIN module'[f].reads
        PROVE  \E g \in Files : id'[g] = module'[f].reads[k] /\ evalResult[g] = "value"
    <3>1. PICK g \in Files : id[g] = module[f].reads[k] /\ evalResult[g] = "value"
      BY <2>1, <2>2 DEF IInv, FailuresTravelUp
    <3>2. QED
      BY <2>1, <2>2, <3>1
  <2>3. QED
    BY <1>1, <2>2 DEF FailuresTravelUp
<1>10. QED
  BY <1>4, <1>5, <1>6, <1>7, <1>8, <1>9

(* The includer at depth n goes on after an include, or after skipping it:  *)
(* its stack of parsers is as before, up to n.                              *)
LEMMA IncluderGoesOn ==
  ASSUME TypeOK, ParsersInv, NEW n \in 1 .. Len(parsing),
         parsing' \in Seq(Parsers), Len(parsing') = n,
         \A k \in 1 .. n - 1 : parsing'[k] = parsing[k],
         parsing[n].rest # <<>>, parsing'[n].who = parsing[n].who,
         parsing'[n].rest = Tail(parsing[n].rest),
         NextId \in Nat, NextId' \in Nat, NextId <= NextId',
         \A j \in 1 .. Len(parsing'[n].reads) : parsing'[n].reads[j] \in 1 .. NextId' - 1,
         disk' = disk, reg' = reg, line' = line
  PROVE  /\ ParsersInv'
         /\ \A k \in 1 .. n : /\ parsing'[k].who = parsing[k].who
                              /\ \A j \in 1 .. Len(parsing'[k].rest) :
                                   \E i \in 1 .. Len(parsing[k].rest) :
                                     parsing'[k].rest[j] = parsing[k].rest[i]
<1>1. Len(parsing) \in Nat
  BY LenProperties DEF TypeOK
<1>2. \A k \in 1 .. n : parsing[k] \in Parsers /\ parsing'[k] \in Parsers
  BY <1>1, ElementOfSeq DEF TypeOK
<1>3. \A k \in 1 .. n : parsing'[k].who = parsing[k].who
  BY <1>1
<1>4. ASSUME NEW k \in 1 .. n, NEW j \in 1 .. Len(parsing'[k].reads)
      PROVE  parsing'[k].reads[j] \in 1 .. NextId' - 1
  <2>1. CASE k = n
    BY <1>4, <2>1
  <2>2. CASE k # n
    <3>1. parsing'[k] = parsing[k] /\ k \in 1 .. Len(parsing)
      BY <1>1, <2>2
    <3>2. parsing[k].reads[j] \in 1 .. NextId - 1
      BY <3>1, <1>4 DEF ParsersInv
    <3>3. QED
      BY <3>1, <3>2
  <2>3. QED
    BY <2>1, <2>2
<1>5. ParsersInv'
  <2>1. parsing # <<>>
    BY <1>1, EmptySeq
  <2>2. reg' = Idle /\ line' > 0
    BY <2>1 DEF ParsersInv
  <2>3. ASSUME NEW k \in 1 .. n
        PROVE  /\ parsing'[k].who = "line" <=> k = 1
               /\ parsing'[k].who # "prompt"
               /\ k < n => parsing'[k].rest # <<>>
    BY <1>1, <1>3 DEF ParsersInv
  <2>4. QED
    BY <1>4, <2>2, <2>3 DEF ParsersInv
<1>6. ASSUME NEW k \in 1 .. n, NEW j \in 1 .. Len(parsing'[k].rest)
      PROVE  \E i \in 1 .. Len(parsing[k].rest) : parsing'[k].rest[j] = parsing[k].rest[i]
  <2>1. CASE k = n
    <3>1. parsing[n].rest \in Seq(Files)
      BY <1>2 DEF Parsers
    <3>2. /\ Len(parsing[n].rest) \in Nat \ {0}
          /\ Len(Tail(parsing[n].rest)) = Len(parsing[n].rest) - 1
          /\ \A i \in 1 .. Len(parsing[n].rest) - 1 :
               Tail(parsing[n].rest)[i] = parsing[n].rest[i + 1]
      BY <3>1, TailFacts
    <3>3. /\ j \in 1 .. Len(parsing[n].rest) - 1 /\ j + 1 \in 1 .. Len(parsing[n].rest)
          /\ parsing'[k].rest[j] = parsing[n].rest[j + 1]
      <4> DEFINE all == parsing[n].rest
                 less == Tail(all)
      <4>1. parsing'[k].rest = less /\ j \in 1 .. Len(less)
        BY <1>6, <2>1
      <4> HIDE DEF less, all
      <4>2. /\ Len(all) \in Nat \ {0} /\ Len(less) = Len(all) - 1
            /\ \A i \in 1 .. Len(all) - 1 : less[i] = all[i + 1]
        BY <3>2 DEF less, all
      <4>3. j \in 1 .. Len(all) - 1 /\ j + 1 \in 1 .. Len(all) /\ less[j] = all[j + 1]
        BY <4>1, <4>2
      <4>4. QED
        BY <4>1, <4>3 DEF all
    <3>4. QED
      BY <2>1, <3>3
  <2>2. CASE k # n
    BY <1>1, <1>6, <2>2
  <2>3. QED
    BY <2>1, <2>2
<1>7. QED
  BY <1>3, <1>5, <1>6

(* A file that is on the stack of parsers twice is on a circle.             *)
LEMMA TwiceOnStack ==
  ASSUME TypeOK, IncludesInv, NEW k \in 2 .. Len(parsing), NEW j \in 2 .. k - 1,
         parsing[j].who = parsing[k].who
  PROVE  Circular(parsing[k].who)
  BY DEF IncludesInv, Circular

(* What the innermost parser is about to include, all of the stack leads    *)
(* to.                                                                      *)
LEMMA NextInclude ==
  ASSUME TypeOK, ParsersInv, IncludesInv, parsing # <<>>, Top.rest # <<>>
  PROVE  /\ Head(Top.rest) \in Files
         /\ \A k \in 2 .. Len(parsing) : Head(Top.rest) \in Leads(parsing[k].who)
         /\ \A k \in 2 .. Len(parsing) : parsing[k].who \in Files
<1>1. Len(parsing) \in Nat \ {0}
  BY LenProperties, EmptySeq DEF TypeOK
<1>2. \A k \in 1 .. Len(parsing) : parsing[k] \in Parsers
  BY <1>1, ElementOfSeq DEF TypeOK
<1>3. /\ Top.rest \in Seq(Files) /\ Head(Top.rest) \in Files /\ Head(Top.rest) = Top.rest[1]
      /\ 1 \in 1 .. Len(Top.rest)
  <2>1. Top.rest \in Seq(Files)
    BY <1>1, <1>2 DEF Top, Parsers
  <2>2. QED
    BY <2>1, TailFacts
<1>4. \A k \in 2 .. Len(parsing) : parsing[k].who \in Files
  BY <1>1, <1>2 DEF ParsersInv, Parsers, Whos
<1>5. ASSUME NEW k \in 2 .. Len(parsing)  PROVE Head(Top.rest) \in Leads(parsing[k].who)
  <2>1. Len(parsing) \in 2 .. Len(parsing)
    BY <1>1
  <2>2. Head(Top.rest) \in Includes(Top.who)
    BY <1>3, <2>1 DEF IncludesInv, Top
  <2>3. CASE k = Len(parsing)
    BY <1>3, <1>4, <2>2, <2>3, LeadsFacts DEF Top, TypeOK
  <2>4. CASE k # Len(parsing)
    <3>1. k \in 2 .. Len(parsing) - 1
      BY <1>1, <2>4
    <3>2. Top.who \in Leads(parsing[k].who)
      BY <2>1, <3>1 DEF IncludesInv, Top
    <3>3. Top.who \in Files
      BY <1>4, <2>1 DEF Top
    <3>4. QED
      BY <1>3, <1>4, <2>2, <3>2, <3>3, LeadsFacts DEF TypeOK
  <2>5. QED
    BY <2>3, <2>4
<1>6. QED
  BY <1>3, <1>4, <1>5

(* With it, where the parsers come from stays as it is.                     *)
LEMMA IncludesGoOn ==
  ASSUME TypeOK, IncludesInv, NEW n \in 1 .. Len(parsing), Len(parsing') = n,
         \A k \in 1 .. n : /\ parsing'[k].who = parsing[k].who
                           /\ \A j \in 1 .. Len(parsing'[k].rest) :
                                \E i \in 1 .. Len(parsing[k].rest) :
                                  parsing'[k].rest[j] = parsing[k].rest[i],
         disk' = disk, log' = log, stopped' = stopped \/ \E f \in Files : Circular(f),
         \A f \in Files : id[f] # 0 => id'[f] # 0,
         \A k \in 2 .. n : id'[parsing[k].who] # 0 => Circular(parsing[k].who),
         \A k \in 2 .. Len(parsing) : k > n => id'[parsing[k].who] # 0
  PROVE  IncludesInv'
<1>1. Len(parsing) \in Nat
  BY LenProperties DEF TypeOK
<1>2. \A f : /\ Leads(f)' = Leads(f) /\ (Circular(f)' <=> Circular(f))
             /\ Includes(f)' = Includes(f)
  BY LeadsKept
<1>3. ASSUME NEW k \in 2 .. n
      PROVE  (/\ disk[parsing[k].who].readable
              /\ \A j \in 1 .. Len(parsing[k].rest) : parsing[k].rest[j] \in Includes(parsing[k].who)
              /\ \A j \in 2 .. k - 1 : parsing[k].who \in Leads(parsing[j].who)
              /\ id[parsing[k].who] # 0 => Circular(parsing[k].who))'
  <2>1. k \in 2 .. Len(parsing) /\ k \in 1 .. n /\ \A j \in 2 .. k - 1 : j \in 1 .. n
    BY <1>1
  <2>2. disk'[parsing'[k].who].readable
    BY <2>1 DEF IncludesInv
  <2>3. ASSUME NEW j \in 1 .. Len(parsing'[k].rest)
        PROVE  parsing'[k].rest[j] \in Includes(parsing[k].who)
    <3>1. PICK i \in 1 .. Len(parsing[k].rest) : parsing'[k].rest[j] = parsing[k].rest[i]
      BY <2>1
    <3>2. QED
      BY <2>1, <3>1 DEF IncludesInv
  <2>4. \A j \in 2 .. k - 1 : parsing'[k].who \in Leads(parsing'[j].who)
    BY <2>1 DEF IncludesInv
  <2>5. id'[parsing'[k].who] # 0 => Circular(parsing'[k].who)
    BY <2>1
  <2>6. /\ parsing'[k].who = parsing[k].who
        /\ Includes(parsing[k].who)' = Includes(parsing'[k].who)
        /\ Circular(parsing[k].who)' <=> Circular(parsing'[k].who)
    BY <2>1 DEF Includes, Circular, Leads, Closed
  <2>7. \A j \in 2 .. k - 1 : Leads(parsing[j].who)' = Leads(parsing'[j].who)
    BY DEF Includes, Leads, Closed
  <2>8. QED
    BY <2>2, <2>3, <2>4, <2>5, <2>6, <2>7
<1>4. ASSUME NEW f \in Files, log[f].parsed > 0
      PROVE  id'[f] # 0 \/ \E k \in 2 .. n : parsing'[k].who = f
  <2>1. CASE id[f] # 0
    BY <2>1
  <2>2. CASE \E k \in 2 .. Len(parsing) : parsing[k].who = f
    <3>1. PICK k \in 2 .. Len(parsing) : parsing[k].who = f
      BY <2>2
    <3>2. CASE k > n
      BY <3>1, <3>2
    <3>3. CASE ~(k > n)
      BY <1>1, <3>1, <3>3
    <3>4. QED
      BY <3>2, <3>3
  <2>3. QED
    BY <1>4, <2>1, <2>2 DEF IncludesInv
<1>5. \A f \in Files : log[f].parsed > 1 => Circular(f)'
  BY <1>2 DEF IncludesInv
<1>6. \/ stopped' = "abort"
      \/ stopped' = "stackOverflow" /\ Cardinality(Files) < MaxDepth
      => \E f \in Files : Circular(f)'
  BY <1>2 DEF IncludesInv
<1>7. QED
  BY <1>3, <1>4, <1>5, <1>6 DEF IncludesInv

-----------------------------------------------------------------------------
(* The user types a line.                                                   *)
LEMMA TypeLineKeeps ==
  ASSUME IInv, NEW f \in Files, NEW renamed \in BOOLEAN, TypeLine(f, renamed)
  PROVE  IInv'
<1> DEFINE p == Parser("line", <<f>>, renamed, known)
<1>1. p \in Parsers /\ p.who = "line" /\ p.reads = <<>>
  BY DEF Parser, Parsers, Whos, IInv, TypeOK
<1>2. parsing' = <<p>> /\ parsing = <<>> /\ reg = Idle /\ stopped = "no" /\ line' = line + 1
  BY DEF TypeLine
<1> HIDE DEF p
<1>3. parsing' \in Seq(Parsers) /\ Len(parsing') = 1 /\ parsing'[1] = p /\ Len(parsing) = 0
  BY <1>1, <1>2
<1>4. TypeOK'
  BY <1>3 DEF TypeLine, IInv, TypeOK, registry, machine
<1>5. RegistryInv' /\ NextId' = NextId
  BY DEF TypeLine, IInv, RegistryInv, NextId, Numbered, registry
<1>6. ParsersInv'
  <2>1. reg' = Idle /\ line' > 0
    BY <1>2 DEF TypeLine, machine, IInv, TypeOK
  <2>2. Len(p.reads) = 0
    BY <1>1
  <2>3. QED
    BY <1>1, <1>3, <2>1, <2>2 DEF ParsersInv
<1>7. IncludesInv'
  <2>1. /\ disk' = disk /\ id' = id /\ log' = log /\ stopped' = stopped
    BY DEF TypeLine, registry
  <2>2. \A g : (Circular(g)' <=> Circular(g))
    BY <2>1, LeadsKept
  <2>3. \A g \in Files : log[g].parsed > 0 => id[g] # 0
    BY <1>3 DEF IInv, IncludesInv
  <2>4. QED
    BY <1>3, <2>1, <2>2, <2>3 DEF IInv, IncludesInv
<1>8. /\ InnermostHandles' /\ FramesInv' /\ RunInv'
      /\ OnceInv' /\ FailedInv' /\ FailuresTravelUp'
  <2>1. stopped' # "nullClosure" /\ UNCHANGED machine
    BY <1>2 DEF TypeLine
  <2>2. \A g \in Files : log'[g] = log[g] /\ id'[g] = id[g] /\ module'[g] = module[g]
    BY DEF TypeLine, registry
  <2>3. QED
    BY <1>2, <2>1, <2>2, ParsesRest
<1>9. QED
  BY <1>4, <1>5, <1>6, <1>7, <1>8 DEF IInv

(* The innermost parser, and the one it has become.                         *)
LEMMA TopFacts ==
  ASSUME TypeOK, parsing # <<>>
  PROVE  /\ Len(parsing) \in Nat \ {0} /\ Top \in Parsers
         /\ \A q \in Parsers : parsing' = Append(Outer, q) =>
              /\ parsing' \in Seq(Parsers) /\ Len(parsing') = Len(parsing)
              /\ \A k \in 1 .. Len(parsing) - 1 : parsing'[k] = parsing[k]
              /\ parsing'[Len(parsing)] = q
<1>1. parsing \in Seq(Parsers) /\ Len(parsing) \in Nat \ {0}
  BY LenProperties, EmptySeq DEF TypeOK
<1>2. Top \in Parsers
  BY <1>1, ElementOfSeq DEF Top
<1>3. ASSUME NEW q \in Parsers, parsing' = Append(Outer, q)
      PROVE  /\ parsing' \in Seq(Parsers) /\ Len(parsing') = Len(parsing)
             /\ \A k \in 1 .. Len(parsing) - 1 : parsing'[k] = parsing[k]
             /\ parsing'[Len(parsing)] = q
  BY <1>1, <1>3, ReplaceTop DEF Outer
<1>4. QED
  BY <1>1, <1>2, <1>3

(* The reads of a parser stay numbers of modules when one more is read.     *)
LEMMA ReadsStay ==
  ASSUME TypeOK, ParsersInv, NEW k \in 1 .. Len(parsing), NEW q \in Parsers, NEW n,
         NextId \in Nat, NextId' \in Nat, NextId <= NextId', n \in 1 .. NextId' - 1,
         \A j \in 1 .. Len(q.reads) :
           q.reads[j] = n \/ (j \in 1 .. Len(parsing[k].reads) /\ q.reads[j] = parsing[k].reads[j])
  PROVE  \A j \in 1 .. Len(q.reads) : q.reads[j] \in 1 .. NextId' - 1
<1>1. \A j \in 1 .. Len(parsing[k].reads) : parsing[k].reads[j] \in 1 .. NextId - 1
  BY DEF ParsersInv
<1>2. ASSUME NEW j \in 1 .. Len(q.reads)  PROVE q.reads[j] \in 1 .. NextId' - 1
  <2>1. CASE q.reads[j] = n
    BY <2>1
  <2>2. CASE j \in 1 .. Len(parsing[k].reads) /\ q.reads[j] = parsing[k].reads[j]
    <3>1. q.reads[j] \in 1 .. NextId - 1
      BY <1>1, <2>2
    <3>2. QED
      BY <3>1
  <2>3. QED
    BY <1>2, <2>1, <2>2
<1>3. QED
  BY <1>2

(* #include of a registered file, and skipping over one after an error.     *)
LEMMA IncludeKnownKeeps ==
  ASSUME IInv, IncludeKnown \/ SkipAfterError
  PROVE  IInv'
<1>1. /\ parsing # <<>> /\ Top.rest # <<>> /\ stopped = "no"
      /\ UNCHANGED <<disk, line, known, registry, machine, stopped, log>>
  BY DEF IncludeKnown, SkipAfterError, Parses
<1>2. /\ Len(parsing) \in Nat \ {0} /\ Top \in Parsers /\ Head(Top.rest) \in Files
      /\ NextId \in Nat \ {0} /\ NextId' = NextId
  BY <1>1, TopFacts, NextInclude, NextIdFacts DEF IInv, TypeOK, registry, NextId
<1>3. PICK q \in Parsers :
        /\ parsing' = Append(Outer, q) /\ q.who = Top.who /\ q.rest = Tail(Top.rest)
        /\ \A j \in 1 .. Len(q.reads) : q.reads[j] \in 1 .. NextId - 1
  <2>1. CASE IncludeKnown
    <3> DEFINE f == Head(Top.rest)
               q == Exposed(Top, f, id[f], module[f])
    <3>1. parsing' = Append(Outer, q) /\ id[f] # 0
      BY <2>1 DEF IncludeKnown
    <3>2. id[f] \in Nat /\ id[f] \in 1 .. NextId - 1 /\ module[f] \in [loaded : BOOLEAN, reads : Seq(Nat)]
      BY <1>2, <3>1 DEF IInv, TypeOK, RegistryInv
    <3>3. /\ q \in Parsers /\ q.who = Top.who /\ q.rest = Tail(Top.rest)
          /\ \A j \in 1 .. Len(q.reads) :
               q.reads[j] = id[f] \/ (j \in 1 .. Len(Top.reads) /\ q.reads[j] = Top.reads[j])
      BY <1>1, <1>2, <3>2, ExposedFacts, SMTT(20) DEF IInv, TypeOK
    <3> HIDE DEF q
    <3>4. \A j \in 1 .. Len(q.reads) : q.reads[j] \in 1 .. NextId - 1
      <4>1. Len(parsing) \in 1 .. Len(parsing) /\ Top = parsing[Len(parsing)]
        BY <1>2 DEF Top
      <4>2. NextId' \in Nat /\ NextId <= NextId' /\ id[f] \in 1 .. NextId' - 1
        BY <1>2, <3>2
      <4>3. \A j \in 1 .. Len(q.reads) : q.reads[j] \in 1 .. NextId' - 1
        BY <1>2, <3>3, <4>1, <4>2, ReadsStay DEF IInv
      <4>4. QED
        BY <1>2, <4>3
    <3>5. QED
      BY <3>1, <3>3, <3>4
  <2>2. CASE SkipAfterError
    <3> DEFINE q == [Top EXCEPT !.rest = Tail(@)]
    <3>1. parsing' = Append(Outer, q)
      BY <2>2 DEF SkipAfterError
    <3>2. Tail(Top.rest) \in Seq(Files)
      BY <1>1, <1>2, TailFacts DEF Parsers
    <3>3. q \in Parsers /\ q.who = Top.who /\ q.rest = Tail(Top.rest) /\ q.reads = Top.reads
      BY <1>2, <3>2 DEF Parsers
    <3> HIDE DEF q
    <3>4. \A j \in 1 .. Len(Top.reads) : Top.reads[j] \in 1 .. NextId - 1
      BY <1>2 DEF IInv, ParsersInv, Top
    <3>5. QED
      BY <3>1, <3>3, <3>4
  <2>3. QED
    BY <2>1, <2>2
<1>4. /\ parsing' \in Seq(Parsers) /\ Len(parsing') = Len(parsing)
      /\ \A k \in 1 .. Len(parsing) - 1 : parsing'[k] = parsing[k]
      /\ parsing'[Len(parsing)] = q
  BY <1>1, <1>3, TopFacts DEF IInv
<1>5. TypeOK'
  BY <1>1, <1>4 DEF IInv, TypeOK, registry, machine
<1>6. RegistryInv'
  BY <1>1 DEF IInv, RegistryInv, NextId, Numbered, registry
<1>7. /\ ParsersInv'
      /\ \A k \in 1 .. Len(parsing) :
           /\ parsing'[k].who = parsing[k].who
           /\ \A j \in 1 .. Len(parsing'[k].rest) :
                \E i \in 1 .. Len(parsing[k].rest) : parsing'[k].rest[j] = parsing[k].rest[i]
  <2>1. Len(parsing) \in 1 .. Len(parsing) /\ Top = parsing[Len(parsing)]
    BY <1>2 DEF Top
  <2>2. disk' = disk /\ reg' = reg /\ line' = line
    BY <1>1 DEF machine
  <2>3. /\ parsing[Len(parsing)].rest # <<>>
        /\ parsing'[Len(parsing)].who = parsing[Len(parsing)].who
        /\ parsing'[Len(parsing)].rest = Tail(parsing[Len(parsing)].rest)
    BY <1>1, <1>3, <1>4, <2>1
  <2>4. /\ NextId' \in Nat /\ NextId <= NextId'
        /\ \A j \in 1 .. Len(parsing'[Len(parsing)].reads) :
             parsing'[Len(parsing)].reads[j] \in 1 .. NextId' - 1
    BY <1>2, <1>3, <1>4
  <2>5. QED
    BY <1>2, <1>4, <2>1, <2>2, <2>3, <2>4, IncluderGoesOn DEF IInv
<1>8. IncludesInv'
  <2>1. Len(parsing) \in 1 .. Len(parsing)
    BY <1>2
  <2>2. disk' = disk /\ log' = log /\ stopped' = stopped /\ id' = id
    BY <1>1 DEF registry
  <2>3. \A k \in 2 .. Len(parsing) : id[parsing[k].who] # 0 => Circular(parsing[k].who)
    BY DEF IInv, IncludesInv
  <2> DEFINE n == Len(parsing)
  <2>4. n \in 1 .. Len(parsing) /\ Len(parsing') = n /\ TypeOK /\ IncludesInv
    BY <1>4, <2>1 DEF IInv
  <2>5. \A k \in 1 .. n : /\ parsing'[k].who = parsing[k].who
                          /\ \A j \in 1 .. Len(parsing'[k].rest) :
                               \E i \in 1 .. Len(parsing[k].rest) :
                                 parsing'[k].rest[j] = parsing[k].rest[i]
    BY <1>7
  <2>6. /\ \A f \in Files : id[f] # 0 => id'[f] # 0
        /\ \A k \in 2 .. n : id'[parsing[k].who] # 0 => Circular(parsing[k].who)
    BY <2>2, <2>3
  <2>7. \A k \in 2 .. Len(parsing) : k > n => id'[parsing[k].who] # 0
    BY <2>1
  <2> HIDE DEF n
  <2>8. QED
    BY ONLY <2>2, <2>4, <2>5, <2>6, <2>7, IncludesGoOn
<1>9. /\ InnermostHandles' /\ FramesInv' /\ RunInv'
      /\ OnceInv' /\ FailedInv' /\ FailuresTravelUp'
  <2>1. reg = Idle
    BY <1>1 DEF IInv, ParsersInv
  <2>2. \A g \in Files : log'[g] = log[g] /\ id'[g] = id[g] /\ module'[g] = module[g]
    BY <1>1 DEF registry
  <2>3. QED
    BY <1>1, <2>1, <2>2, ParsesRest
<1>10. QED
  BY <1>5, <1>6, <1>7, <1>8, <1>9 DEF IInv

(* The parser n that included f goes on, the inner ones have ended.         *)
GoesOn(n, f) == parsing' = Append(SubSeq(parsing, 1, n - 1), Exposed(parsing[n], f, id'[f], module'[f]))

(* A file is registered, and the parser at depth n goes on.                 *)
LEMMA RegisteredKeeps ==
  ASSUME IInv, parsing # <<>>, stopped = "no", NEW n \in 1 .. Len(parsing), parsing[n].rest # <<>>,
         NEW f \in Files, NEW ok \in BOOLEAN, NEW reads \in Seq(Nat),
         \A k \in 1 .. Len(reads) : reads[k] \in 1 .. NextId - 1,
         Register(f, ok, reads),
         GoesOn(n, f),
         id[f] # 0 => Circular(f),
         \A k \in 2 .. n : parsing[k].who = f => Circular(f),
         \A k \in 2 .. Len(parsing) : k > n => parsing[k].who = f,
         UNCHANGED <<disk, line, known, machine, log>>
  PROVE  IInv'
<1> DEFINE q == Exposed(parsing[n], f, id'[f], module'[f])
<1>1. /\ id' \in [Files -> Nat] /\ moduleArray' \in Seq(Files \cup {"none"})
      /\ module' \in [Files -> [loaded : BOOLEAN, reads : Seq(Nat)]]
      /\ RegistryInv'
      /\ NextId \in Nat /\ NextId' \in Nat /\ NextId <= NextId'
      /\ id'[f] \in 1 .. NextId' - 1
      /\ \A g \in Files : id[g] # 0 \/ g # f => id'[g] = id[g] /\ module'[g] = module[g]
      /\ id[f] # 0 => stopped' = "abort"
      /\ id[f] = 0 => stopped' = stopped
  BY RegisterFacts DEF IInv
<1>2. Len(parsing) \in Nat /\ parsing[n] \in Parsers
  BY LenProperties, ElementOfSeq DEF IInv, TypeOK
<1>3. /\ q \in Parsers /\ q.who = parsing[n].who /\ q.rest = Tail(parsing[n].rest)
      /\ \A j \in 1 .. Len(q.reads) :
           q.reads[j] = id'[f] \/ (j \in 1 .. Len(parsing[n].reads) /\ q.reads[j] = parsing[n].reads[j])
  <2>1. id'[f] \in Nat /\ module'[f] \in [loaded : BOOLEAN, reads : Seq(Nat)]
    BY <1>1
  <2>2. disk \in [Files -> Contents]
    BY DEF IInv, TypeOK
  <2>3. QED
    BY <1>2, <2>1, <2>2, ExposedFacts
<1> HIDE DEF q
<1>4. \A j \in 1 .. Len(q.reads) : q.reads[j] \in 1 .. NextId' - 1
  <2>1. TypeOK /\ ParsersInv
    BY DEF IInv
  <2>2. ASSUME NEW j \in 1 .. Len(q.reads)  PROVE q.reads[j] \in 1 .. NextId' - 1
    <3>1. CASE q.reads[j] = id'[f]
      BY <1>1, <3>1
    <3>2. CASE j \in 1 .. Len(parsing[n].reads) /\ q.reads[j] = parsing[n].reads[j]
      <4>1. q.reads[j] \in 1 .. NextId - 1
        BY <2>1, <3>2 DEF ParsersInv
      <4>2. QED
        BY <1>1, <4>1
    <3>3. QED
      BY <1>3, <2>2, <3>1, <3>2
  <2>3. QED
    BY <2>2
<1>5. /\ parsing' \in Seq(Parsers) /\ Len(parsing') = n
      /\ \A k \in 1 .. n - 1 : parsing'[k] = parsing[k]
      /\ parsing'[n] = q
  <2> DEFINE below == SubSeq(parsing, 1, n - 1)
  <2>1. below \in Seq(Parsers) /\ Len(below) = n - 1 /\ \A k \in 1 .. n - 1 : below[k] = parsing[k]
    BY <1>2, Below DEF IInv, TypeOK
  <2>2. parsing' = Append(below, q)
    BY DEF q, GoesOn
  <2> HIDE DEF below
  <2>3. QED
    BY ONLY n \in 1 .. Len(parsing), <1>2, <1>3, <2>1, <2>2, Push
<1>6. TypeOK'
  <2>1. stopped' \in {"no", "abort", "stackOverflow", "nullClosure"}
    BY <1>1
  <2>2. QED
    BY <1>1, <1>5, <2>1 DEF IInv, TypeOK, machine
<1>7. /\ ParsersInv'
      /\ \A k \in 1 .. n :
           /\ parsing'[k].who = parsing[k].who
           /\ \A j \in 1 .. Len(parsing'[k].rest) :
                \E i \in 1 .. Len(parsing[k].rest) : parsing'[k].rest[j] = parsing[k].rest[i]
  <2>1. disk' = disk /\ reg' = reg /\ line' = line
    BY DEF machine
  <2>2. parsing'[n].who = parsing[n].who /\ parsing'[n].rest = Tail(parsing[n].rest)
    BY <1>3, <1>5
  <2>3. \A j \in 1 .. Len(parsing'[n].reads) : parsing'[n].reads[j] \in 1 .. NextId' - 1
    BY <1>4, <1>5
  <2>4. QED
    BY <1>1, <1>5, <2>1, <2>2, <2>3, IncluderGoesOn DEF IInv
<1>8. IncludesInv'
  <2>1. disk' = disk /\ log' = log /\ (stopped' = stopped \/ \E g \in Files : Circular(g))
    BY <1>1
  <2>2. \A k \in 2 .. Len(parsing) : parsing[k].who \in Files
    <3>1. \A k \in 1 .. Len(parsing) : parsing[k] \in Parsers
      BY ElementOfSeq DEF IInv, TypeOK
    <3>2. QED
      BY <1>2, <3>1 DEF IInv, ParsersInv, Parsers, Whos
  <2>3. ASSUME NEW k \in 2 .. n, id'[parsing[k].who] # 0  PROVE Circular(parsing[k].who)
    <3>1. k \in 2 .. Len(parsing)
      BY <1>2
    <3>2. CASE parsing[k].who = f
      BY <3>2
    <3>3. CASE parsing[k].who # f
      BY <1>1, <2>2, <2>3, <3>1, <3>3 DEF IInv, IncludesInv
    <3>4. QED
      BY <3>2, <3>3
  <2>4. \A g \in Files : id[g] # 0 => id'[g] # 0
    BY <1>1
  <2>5. \A k \in 2 .. Len(parsing) : k > n => id'[parsing[k].who] # 0
    BY <1>1
  <2>6. QED
    BY <1>5, <1>7, <2>1, <2>3, <2>4, <2>5, IncludesGoOn DEF IInv
<1>9. /\ InnermostHandles' /\ FramesInv' /\ RunInv'
      /\ OnceInv' /\ FailedInv' /\ FailuresTravelUp'
  <2>1. reg = Idle /\ line' = line
    BY DEF IInv, ParsersInv
  <2>2. \A g \in Files : log'[g] = log[g] /\ (id[g] # 0 => id'[g] = id[g] /\ module'[g] = module[g])
    BY <1>1
  <2>3. stopped' # "nullClosure" /\ UNCHANGED machine
    BY <1>1
  <2>4. QED
    BY <2>1, <2>2, <2>3, ParsesRest
<1>10. QED
  BY <1>1, <1>6, <1>7, <1>8, <1>9 DEF IInv

(* #include of a file that cannot be read.                                  *)
LEMMA IncludeUnreadableKeeps ==
  ASSUME IInv, IncludeUnreadable
  PROVE  IInv'
<1> DEFINE f == Head(Top.rest)
           n == Len(parsing)
<1>1. /\ parsing # <<>> /\ Top.rest # <<>> /\ stopped = "no"
      /\ id[f] = 0 /\ ~disk[f].readable /\ Register(f, FALSE, <<>>)
      /\ parsing' = Append(Outer, Exposed(Top, f, id'[f], module'[f]))
      /\ UNCHANGED <<disk, line, known, machine, log>>
  BY DEF IncludeUnreadable, Parses
<1>2. n \in Nat \ {0} /\ f \in Files
  BY <1>1, TopFacts, NextInclude DEF IInv
<1>3. n \in 1 .. Len(parsing) /\ parsing[n].rest # <<>> /\ <<>> \in Seq(Nat) /\ FALSE \in BOOLEAN
  BY <1>1, <1>2 DEF Top
<1>4. GoesOn(n, f)
  BY <1>1 DEF Top, Outer, GoesOn
<1>5. \A k \in 2 .. n : parsing[k].who # f
  BY <1>1 DEF IInv, IncludesInv
<1> DEFINE reads == <<>>
           ok == FALSE
<1>6. /\ reads \in Seq(Nat) /\ (\A k \in 1 .. Len(reads) : reads[k] \in 1 .. NextId - 1)
      /\ ok \in BOOLEAN
  OBVIOUS
<1>7. Register(f, ok, reads)
  BY <1>1, Zenon
<1>8. /\ id[f] # 0 => Circular(f)
      /\ \A k \in 2 .. n : parsing[k].who = f => Circular(f)
      /\ \A k \in 2 .. Len(parsing) : k > n => parsing[k].who = f
  BY <1>1, <1>2, <1>5
<1> HIDE DEF f, reads, ok, n
<1>9. QED
  BY <1>1, <1>2, <1>3, <1>4, <1>6, <1>7, <1>8, RegisteredKeeps

(* The end of a file.                                                       *)
LEMMA FileParsedKeeps ==
  ASSUME IInv, FileParsed
  PROVE  IInv'
<1> DEFINE f == Top.who
           n == Len(parsing) - 1
           ok == ~Top.failed
           reads == Top.reads
<1>1. parsing # <<>> /\ stopped = "no" /\ Top.who # "line"
      /\ UNCHANGED <<disk, line, known, machine, log>>
  BY DEF FileParsed, Parses
<1>2. Len(parsing) \in Nat \ {0} /\ Top \in Parsers
  BY <1>1, TopFacts DEF IInv
<1>3. Len(parsing) # 1 /\ f # "prompt"
  BY <1>1, <1>2 DEF IInv, ParsersInv, Top
<1>4. n \in Nat \ {0} /\ n \in 1 .. Len(parsing) /\ n + 1 = Len(parsing) /\ f \in Files
  <2>1. n \in Nat \ {0} /\ n \in 1 .. Len(parsing) /\ n + 1 = Len(parsing)
    <3>1. \A m \in Nat \ {0} : m # 1 => m - 1 \in Nat \ {0} /\ m - 1 \in 1 .. m /\ m - 1 + 1 = m
      OBVIOUS
    <3>2. QED
      BY <1>2, <1>3, <3>1
  <2>2. Top.who \in Whos
    BY <1>2 DEF Parsers
  <2>3. QED
    BY <1>1, <1>3, <2>1, <2>2 DEF Whos
<1>5. ok \in BOOLEAN /\ reads \in Seq(Nat) /\ \A k \in 1 .. Len(reads) : reads[k] \in 1 .. NextId - 1
  BY <1>2 DEF IInv, ParsersInv, Parsers, Top
<1>6. parsing[n].rest # <<>>
  BY <1>4 DEF IInv, ParsersInv
<1>7. Register(f, ok, reads) /\ GoesOn(n, f)
  <2>1. Outer = SubSeq(parsing, 1, n) /\ Len(Outer) = n /\ Outer[n] = parsing[n]
    BY <1>1, <1>4, Pop DEF Outer, IInv, TypeOK
  <2>2. SubSeq(SubSeq(parsing, 1, n), 1, n - 1) = SubSeq(parsing, 1, n - 1)
    BY <1>4, BelowBelow DEF IInv, TypeOK
  <2>3. QED
    BY <2>1, <2>2 DEF FileParsed, GoesOn
<1>8. Len(parsing) \in 2 .. Len(parsing) /\ Top = parsing[Len(parsing)]
  BY <1>4 DEF Top
<1>9. id[f] # 0 => Circular(f)
  BY <1>8 DEF IInv, IncludesInv
<1>10. ASSUME NEW k \in 2 .. n, parsing[k].who = f  PROVE Circular(f)
  BY <1>4, <1>8, <1>10, TwiceOnStack DEF IInv
<1>11. \A k \in 2 .. Len(parsing) : k > n => parsing[k].who = f
  BY <1>4, <1>8
<1> HIDE DEF f, ok, reads, n
<1>12. QED
  BY <1>1, <1>4, <1>5, <1>6, <1>7, <1>9, <1>10, <1>11, RegisteredKeeps

(* More parsers than files: one of the files is on a circle.                *)
LEMMA StackOverflows ==
  ASSUME TypeOK, ParsersInv, IncludesInv, parsing # <<>>, Top.rest # <<>>,
         Len(parsing) = MaxDepth, Cardinality(Files) < MaxDepth
  PROVE  \E f \in Files : Circular(f)
<1> DEFINE f == Head(Top.rest)
           h == [k \in 1 .. MaxDepth |-> IF k < MaxDepth THEN parsing[k + 1].who ELSE f]
<1>1. /\ MaxDepth \in Nat \ {0} /\ f \in Files
      /\ \A k \in 2 .. MaxDepth : f \in Leads(parsing[k].who) /\ parsing[k].who \in Files
  BY ModulesAssumption, NextInclude
<1> HIDE DEF f
<1>2. h \in [1 .. MaxDepth -> Files]
  <2>1. \A k \in 1 .. MaxDepth : k < MaxDepth => k + 1 \in 2 .. MaxDepth
    BY <1>1
  <2>2. QED
    BY <1>1, <2>1
<1>3. IsFiniteSet(1 .. MaxDepth) /\ Cardinality(1 .. MaxDepth) = MaxDepth
  BY <1>1, FS_Interval
<1>4. PICK x \in 1 .. MaxDepth, y \in 1 .. MaxDepth : x # y /\ h[x] = h[y]
  <2> HIDE DEF h
  <2>1. QED
    BY <1>2, <1>3, DisksAssumption, FS_PigeonHole
<1>5. ASSUME NEW a \in 1 .. MaxDepth, NEW b \in 1 .. MaxDepth, a < b, h[a] = h[b]
      PROVE  Circular(h[b])
  <2>1. a < MaxDepth /\ a + 1 \in 2 .. MaxDepth /\ h[a] = parsing[a + 1].who
    BY <1>1, <1>5
  <2>2. CASE b = MaxDepth
    <3>1. h[b] = f
      BY <2>2
    <3>2. f \in Leads(parsing[a + 1].who)
      BY <1>1, <2>1
    <3>3. QED
      BY <1>5, <2>1, <3>1, <3>2 DEF Circular
  <2>3. CASE b < MaxDepth
    <3>1. /\ h[b] = parsing[b + 1].who
          /\ b + 1 \in 2 .. Len(parsing) /\ a + 1 \in 2 .. (b + 1) - 1
      BY <1>1, <1>5, <2>1, <2>3
    <3>2. parsing[a + 1].who = parsing[b + 1].who
      BY <1>5, <2>1, <3>1
    <3>3. QED
      BY <3>1, <3>2, TwiceOnStack
  <2>4. QED
    BY <1>1, <2>2, <2>3
<1>6. h[x] \in Files /\ h[y] \in Files
  BY <1>2, <1>4
<1> HIDE DEF h
<1>7. CASE x < y
  BY <1>4, <1>5, <1>6, <1>7
<1>8. CASE y < x
  BY <1>4, <1>5, <1>6, <1>8
<1>9. QED
  BY <1>1, <1>4, <1>7, <1>8

(* #include of a file that is not registered.                               *)
LEMMA IncludeNewKeeps ==
  ASSUME IInv, IncludeNew
  PROVE  IInv'
<1> DEFINE f == Head(Top.rest)
           n == Len(parsing)
           p == [Parser(f, disk[f].includes, FALSE, {}) EXCEPT !.failed = ~disk[f].wellFormed]
<1>1. /\ parsing # <<>> /\ Top.rest # <<>> /\ stopped = "no"
      /\ id[f] = 0 /\ disk[f].readable
      /\ UNCHANGED <<disk, line, known, registry, machine>>
  BY DEF IncludeNew, Parses
<1>2. /\ n \in Nat \ {0} /\ f \in Files
      /\ \A k \in 2 .. n : f \in Leads(parsing[k].who) /\ parsing[k].who \in Files
  BY <1>1, TopFacts, NextInclude DEF IInv
<1>3. /\ p \in Parsers /\ p.who = f /\ p.rest = disk[f].includes /\ p.reads = <<>>
  <2> HIDE DEF f
  <2>1. disk[f] \in Contents
    BY <1>2 DEF IInv, TypeOK
  <2> DEFINE bad == ~disk[f].wellFormed
  <2>2. disk[f].includes \in Seq(Files) /\ bad \in BOOLEAN
    BY <2>1 DEF Contents
  <2> DEFINE no == FALSE
             p0 == Parser(f, disk[f].includes, no, {})
  <2>3. p = [p0 EXCEPT !.failed = bad] /\ no \in BOOLEAN
    OBVIOUS
  <2> HIDE DEF bad, p, no
  <2>4. p0 \in Parsers /\ p0.who = f /\ p0.rest = disk[f].includes /\ p0.reads = <<>>
    BY <1>2, <2>2, <2>3 DEF Parser, Parsers, Whos
  <2> HIDE DEF p0
  <2>5. QED
    BY <2>2, <2>3, <2>4 DEF Parsers
<1>4. CASE n = MaxDepth
  <2>1. stopped' = "stackOverflow" /\ UNCHANGED <<parsing, log>>
    BY <1>4 DEF IncludeNew
  <2>2. TypeOK'
    BY <1>1, <2>1 DEF IInv, TypeOK, registry, machine
  <2>3. RegistryInv' /\ NextId' = NextId
    BY <1>1 DEF IInv, RegistryInv, NextId, Numbered, registry
  <2>4. ParsersInv'
    BY <1>1, <2>1, <2>3 DEF IInv, ParsersInv, machine
  <2>5. IncludesInv'
    <3>1. Cardinality(Files) < MaxDepth => \E g \in Files : Circular(g)
      BY <1>1, <1>4, StackOverflows DEF IInv
    <3>2. \A g : (Circular(g)' <=> Circular(g))
      BY <1>1, LeadsKept
    <3>3. id' = id /\ disk' = disk
      BY <1>1 DEF registry
    <3>4. Cardinality(Files) < MaxDepth => \E g \in Files : Circular(g)'
      BY <3>1, <3>2
    <3>5. ASSUME NEW k \in 2 .. n
          PROVE  (/\ disk[parsing[k].who].readable
                  /\ \A j \in 1 .. Len(parsing[k].rest) : parsing[k].rest[j] \in Includes(parsing[k].who)
                  /\ \A j \in 2 .. k - 1 : parsing[k].who \in Leads(parsing[j].who)
                  /\ id[parsing[k].who] # 0 => Circular(parsing[k].who))'
      <4>1. /\ disk[parsing[k].who].readable
            /\ \A j \in 1 .. Len(parsing[k].rest) : parsing[k].rest[j] \in Includes(parsing[k].who)
            /\ \A j \in 2 .. k - 1 : parsing[k].who \in Leads(parsing[j].who)
            /\ id[parsing[k].who] # 0 => Circular(parsing[k].who)
        BY DEF IInv, IncludesInv
      <4>2. parsing' = parsing
        BY <2>1
      <4>3. Includes(parsing[k].who)' = Includes(parsing[k].who)
        BY <3>3, <4>2 DEF Includes
      <4>4. Circular(parsing[k].who)' <=> Circular(parsing[k].who)
        BY <3>3, <4>2 DEF Circular, Leads, Includes, Closed
      <4>5. \A j \in 2 .. k - 1 : Leads(parsing[j].who)' = Leads(parsing[j].who)
        BY <3>3, <4>2 DEF Leads, Includes, Closed
      <4>. QED
        BY ONLY <3>3, <4>1, <4>2, <4>3, <4>4, <4>5
    <3>6. \A g \in Files :
            /\ log[g].parsed > 0 => id[g] # 0 \/ \E k \in 2 .. n : parsing[k].who = g
            /\ log[g].parsed > 1 => Circular(g)'
      BY <3>2 DEF IInv, IncludesInv
    <3>7. QED
      BY <2>1, <3>3, <3>4, <3>5, <3>6 DEF IncludesInv
  <2>6. /\ InnermostHandles' /\ FramesInv' /\ RunInv'
        /\ OnceInv' /\ FailedInv' /\ FailuresTravelUp'
    <3>1. reg = Idle
      BY <1>1 DEF IInv, ParsersInv
    <3>2. \A g \in Files : log'[g] = log[g] /\ id'[g] = id[g] /\ module'[g] = module[g]
      BY <1>1, <2>1 DEF registry
    <3>3. stopped' # "nullClosure" /\ UNCHANGED machine /\ line' = line
      BY <1>1, <2>1
    <3>4. QED
      BY <1>1, <3>1, <3>2, <3>3, ParsesRest
  <2>7. QED
    BY <2>2, <2>3, <2>4, <2>5, <2>6 DEF IInv
<1>5. CASE n # MaxDepth
  <2>1. /\ parsing' = Append(parsing, p) /\ log' = [log EXCEPT ![f].parsed = @ + 1]
        /\ stopped' = stopped
    BY <1>5 DEF IncludeNew
  <2> HIDE DEF f, p
  <2>2. /\ parsing' \in Seq(Parsers) /\ Len(parsing') = n + 1
        /\ \A k \in 1 .. n : parsing'[k] = parsing[k]
        /\ parsing'[n + 1] = p
    BY <1>3, <2>1, Push DEF IInv, TypeOK
  <2>3. /\ log' \in [Files -> [parsed : Nat, run : Nat, failedOn : Nat]]
        /\ log'[f].parsed = log[f].parsed + 1 /\ \A g \in Files : g # f => log'[g] = log[g]
        /\ \A g \in Files : log'[g].run = log[g].run /\ log'[g].failedOn = log[g].failedOn
    <3>1. log \in [Files -> [parsed : Nat, run : Nat, failedOn : Nat]]
      BY DEF IInv, TypeOK
    <3> DEFINE r == [log[f] EXCEPT !.parsed = @ + 1]
    <3>2. /\ r \in [parsed : Nat, run : Nat, failedOn : Nat] /\ r.parsed = log[f].parsed + 1
          /\ r.run = log[f].run /\ r.failedOn = log[f].failedOn
      BY <1>2, <3>1, SMTT(20)
    <3>3. log' = [log EXCEPT ![f] = r]
      BY <2>1
    <3> HIDE DEF r
    <3>4. log'[f] = r /\ \A g \in Files : g # f => log'[g] = log[g]
      BY <1>2, <3>1, <3>3
    <3>5. QED
      BY <1>2, <3>1, <3>2, <3>3, <3>4
  <2>4. TypeOK'
    BY <1>1, <2>1, <2>2, <2>3 DEF IInv, TypeOK, registry, machine
  <2>5. RegistryInv' /\ NextId' = NextId
    BY <1>1 DEF IInv, RegistryInv, NextId, Numbered, registry
  <2>6. ParsersInv'
    <3>1. reg' = Idle /\ line' > 0
      BY <1>1 DEF IInv, ParsersInv, machine
    <3>2. ASSUME NEW k \in 1 .. n + 1
          PROVE  /\ parsing'[k].who = "line" <=> k = 1
                 /\ parsing'[k].who # "prompt"
                 /\ k < n + 1 => parsing'[k].rest # <<>>
                 /\ \A j \in 1 .. Len(parsing'[k].reads) : parsing'[k].reads[j] \in 1 .. NextId' - 1
      <4>1. CASE k = n + 1
        <5>1. f # "line" /\ f # "prompt" /\ Len(p.reads) = 0 /\ k # 1
          BY <1>2, <1>3, <4>1, ModulesAssumption
        <5>2. QED
          BY <1>3, <2>2, <4>1, <5>1
      <4>2. CASE k \in 1 .. n
        <5>1. /\ parsing[k].who = "line" <=> k = 1
              /\ parsing[k].who # "prompt"
              /\ parsing[k].rest # <<>>
              /\ \A j \in 1 .. Len(parsing[k].reads) : parsing[k].reads[j] \in 1 .. NextId - 1
          BY <1>1, <1>2, <4>2 DEF IInv, ParsersInv, Top
        <5>2. QED
          BY <2>2, <2>5, <4>2, <5>1
      <4>3. QED
        BY <1>2, <4>1, <4>2
    <3>3. QED
      BY <2>2, <3>1, <3>2 DEF ParsersInv
  <2>7. IncludesInv'
    <3>1. disk' = disk /\ id' = id
      BY <1>1 DEF registry
    <3>2. ASSUME NEW k \in 2 .. n + 1
          PROVE  /\ disk[parsing'[k].who].readable
                 /\ \A j \in 1 .. Len(parsing'[k].rest) : parsing'[k].rest[j] \in Includes(parsing'[k].who)
                 /\ \A j \in 2 .. k - 1 : parsing'[k].who \in Leads(parsing'[j].who)
                 /\ id[parsing'[k].who] # 0 => Circular(parsing'[k].who)
      <4>1. CASE k = n + 1
        <5>1. parsing'[k] = p /\ \A j \in 2 .. k - 1 : parsing'[j] = parsing[j] /\ j \in 2 .. n
          BY <1>2, <2>2, <4>1
        <5>2. \A j \in 1 .. Len(p.rest) : p.rest[j] \in Includes(f)
          <6>1. disk[f].includes \in Seq(Files)
            BY <1>2 DEF IInv, TypeOK, Contents
          <6>2. QED
            BY <1>3, <6>1 DEF Includes, Range
        <5>3. QED
          BY <1>1, <1>2, <1>3, <5>1, <5>2 DEF f
      <4>2. CASE k \in 2 .. n
        <5>1. parsing'[k] = parsing[k] /\ \A j \in 2 .. k - 1 : parsing'[j] = parsing[j]
          BY <1>2, <2>2, <4>2
        <5>2. QED
          BY <4>2, <5>1 DEF IInv, IncludesInv
      <4>3. QED
        BY <1>2, <4>1, <4>2
    <3>3. ASSUME NEW g \in Files
          PROVE  /\ log'[g].parsed > 0 => id[g] # 0 \/ \E k \in 2 .. n + 1 : parsing'[k].who = g
                 /\ log'[g].parsed > 1 => Circular(g)
      <4>1. CASE g = f
        <5>1. n + 1 \in 2 .. n + 1 /\ parsing'[n + 1].who = f
          BY <1>2, <1>3, <2>2
        <5>2. ASSUME log'[f].parsed > 1  PROVE Circular(f)
          <6>1. log[f].parsed > 0
            BY <1>2, <2>3, <5>2 DEF IInv, TypeOK
          <6>2. PICK k \in 2 .. n : parsing[k].who = f
            BY <1>1, <1>2, <6>1 DEF IInv, IncludesInv, f
          <6>3. QED
            BY <1>2, <6>2 DEF Circular
        <5>3. QED
          BY <4>1, <5>1, <5>2
      <4>2. CASE g # f
        <5>1. \A k \in 2 .. n : k \in 2 .. n + 1 /\ parsing'[k] = parsing[k]
          BY <1>2, <2>2
        <5>2. log'[g] = log[g]
          BY <2>3, <4>2
        <5>3. QED
          BY <5>1, <5>2 DEF IInv, IncludesInv
      <4>3. QED
        BY <4>1, <4>2
    <3>4. /\ \A k \in 2 .. n + 1 :
               (/\ disk[parsing[k].who].readable
                /\ \A j \in 1 .. Len(parsing[k].rest) : parsing[k].rest[j] \in Includes(parsing[k].who)
                /\ \A j \in 2 .. k - 1 : parsing[k].who \in Leads(parsing[j].who)
                /\ id[parsing[k].who] # 0 => Circular(parsing[k].who))'
          /\ \A g : (Circular(g)' <=> Circular(g))
      BY <3>1, <3>2 DEF Includes, Leads, Closed, Circular
    <3>5. \/ stopped' = "abort"
          \/ stopped' = "stackOverflow" /\ Cardinality(Files) < MaxDepth
          => \E g \in Files : Circular(g)'
      BY <1>1, <2>1
    <3>6. QED
      BY <2>2, <3>1, <3>3, <3>4, <3>5 DEF IncludesInv
  <2>8. /\ InnermostHandles' /\ FramesInv' /\ RunInv'
        /\ OnceInv' /\ FailedInv' /\ FailuresTravelUp'
    <3>1. reg = Idle
      BY <1>1 DEF IInv, ParsersInv
    <3>2. \A g \in Files : id'[g] = id[g] /\ module'[g] = module[g]
      BY <1>1 DEF registry
    <3>3. stopped' # "nullClosure" /\ UNCHANGED machine /\ line' = line
      BY <1>1, <2>1
    <3>4. QED
      BY <1>1, <2>3, <3>1, <3>2, <3>3, ParsesRest
  <2>9. QED
    BY <2>4, <2>5, <2>6, <2>7, <2>8 DEF IInv
<1>6. QED
  BY <1>4, <1>5

(* The end of a line, which is run or not.                                  *)
LEMMA LineParsedKeeps ==
  ASSUME IInv, LineParsed
  PROVE  IInv'
<1> DEFINE reads == Top.reads
<1>1. /\ parsing # <<>> /\ stopped = "no" /\ Top.who = "line"
      /\ parsing' = <<>> /\ known' = Top.declared
      /\ UNCHANGED <<disk, line, registry, saved, throwing, evalResult, hasClosure, stopped, log>>
      /\ \/ reg' = [who |-> "line", todo |-> reads] /\ handler' = "line" /\ Compilable(reads)
         \/ UNCHANGED <<reg, handler>>
  BY DEF LineParsed, Parses
<1>2. Len(parsing) \in Nat \ {0} /\ Top \in Parsers /\ reads \in Seq(Nat) /\ Top.declared \in SUBSET Files
  BY <1>1, TopFacts DEF IInv, Parsers
<1>3. Len(parsing) = 1
  <2>1. Len(parsing) \in 1 .. Len(parsing) /\ parsing[Len(parsing)].who = "line"
    BY <1>1, <1>2 DEF Top
  <2>2. QED
    BY <2>1 DEF IInv, ParsersInv
<1>4. /\ reg = Idle /\ saved = <<>> /\ throwing = FALSE /\ line > 0
      /\ \A j \in 1 .. Len(reads) : reads[j] \in 1 .. NextId - 1
  <2>1. reg = Idle /\ line > 0
    BY <1>1 DEF IInv, ParsersInv
  <2>2. saved = <<>> /\ throwing = FALSE
    BY <2>1 DEF IInv, FramesInv, TypeOK, Idle
  <2>3. Len(parsing) \in 1 .. Len(parsing) /\ reads = parsing[Len(parsing)].reads
    BY <1>2 DEF Top
  <2>4. \A j \in 1 .. Len(reads) : reads[j] \in 1 .. NextId - 1
    BY <2>3 DEF IInv, ParsersInv
  <2>5. QED
    BY <2>1, <2>2, <2>4
<1>5. /\ Len(saved) = 0 /\ Depth = 1 /\ Len(saved') = 0 /\ Depth' = 1 /\ Frame(1)' = reg'
      /\ Len(parsing') = 0
  BY <1>1, <1>4 DEF Depth, Frame
<1>6. \/ reg' = [who |-> "line", todo |-> reads] /\ handler' = "line" /\ Compilable(reads)
      \/ reg' = Idle /\ handler' = handler
  BY <1>1, <1>4
<1> HIDE DEF reads
<1>7. TypeOK'
  <2>1. reg' \in Regs /\ handler' \in Whos \cup {"none"}
    <3>1. Idle \in Regs /\ [who |-> "line", todo |-> reads] \in Regs
      BY <1>2 DEF Regs, Whos, Idle
    <3>2. handler \in Whos \cup {"none"} /\ "line" \in Whos
      BY DEF IInv, TypeOK, Whos
    <3>3. QED
      BY <1>6, <3>1, <3>2
  <2>2. parsing' \in Seq(Parsers)
    BY <1>1
  <2>3. QED
    BY <1>1, <1>2, <2>1, <2>2 DEF IInv, TypeOK, registry
<1>8. RegistryInv' /\ NextId' = NextId /\ NextId \in Nat
  BY <1>1, NextIdFacts DEF IInv, TypeOK, RegistryInv, NextId, Numbered, registry
<1>9. ParsersInv'
  BY <1>1, <1>5 DEF ParsersInv
<1>10. IncludesInv'
  <2>1. disk' = disk /\ id' = id /\ log' = log /\ stopped' = stopped
    BY <1>1 DEF registry
  <2>2. \A g : (Circular(g)' <=> Circular(g))
    BY <2>1, LeadsKept
  <2>3. \A g \in Files : log[g].parsed > 0 => id[g] # 0
    BY <1>3 DEF IInv, IncludesInv
  <2>4. QED
    BY <1>5, <2>1, <2>2, <2>3 DEF IInv, IncludesInv
<1>11. InnermostHandles'
  <2>1. reg'.who # "prompt" => handler' = reg'.who
    BY <1>6 DEF Idle
  <2>2. DOMAIN saved' = {}
    BY <1>1, <1>4
  <2>3. QED
    BY <2>1, <2>2 DEF InnermostHandles
<1>12. FramesInv'
  <2>1. reg'.who = "prompt" => reg' = Idle
    BY <1>6
  <2>2. reg'.who # "prompt" => reg'.who = "line"
    BY <1>6 DEF Idle
  <2>3. ASSUME NEW j \in 1 .. Len(reg'.todo)
        PROVE  /\ reg'.todo[j] \in 1 .. NextId - 1
               /\ moduleArray[Slot(reg'.todo[j])] # "none"
    <3>1. CASE reg' = Idle
      BY <3>1, <2>3 DEF Idle
    <3>2. CASE reg' = [who |-> "line", todo |-> reads] /\ Compilable(reads)
      <4>1. reg'.todo = reads /\ j \in DOMAIN reads /\ reads[j] \in 1 .. NextId - 1
        BY <1>2, <1>4, <2>3, <3>2
      <4>2. GetModuleById(reads[j]) # "none" /\ reads[j] < NextId
        BY <1>8, <3>2, <4>1 DEF Compilable
      <4>3. QED
        BY <4>1, <4>2 DEF GetModuleById
    <3>3. QED
      BY <1>6, <3>1, <3>2
  <2>4. moduleArray' = moduleArray /\ throwing' = FALSE /\ saved' = <<>> /\ line' > 0
    BY <1>1, <1>4 DEF registry
  <2>5. QED
    BY <1>1, <1>5, <1>8, <2>1, <2>2, <2>3, <2>4 DEF FramesInv, Slot
<1>13. RunInv'
  BY <1>5 DEF RunInv
<1>14. OnceInv'
  BY <1>1, <1>5 DEF IInv, OnceInv, registry
<1>15. FailedInv'
  <2>1. \A f \in Files : evalResult[f] \notin {"none", "value"} =>
          log[f].failedOn \in 1 .. line /\ log[f].failedOn # line
    BY <1>1 DEF IInv, FailedInv
  <2>2. QED
    BY <1>1, <2>1 DEF FailedInv, FirstUseIsSafe
<1>16. FailuresTravelUp'
  BY <1>1 DEF IInv, FailuresTravelUp, registry
<1>17. QED
  BY <1>7, <1>8, <1>9, <1>10, <1>11, <1>12, <1>13, <1>14, <1>15, <1>16 DEF IInv

-----------------------------------------------------------------------------
(* What is running: the innermost frame, and the module it asks for.        *)
LEMMA FrameFacts ==
  ASSUME IInv, Runs
  PROVE  /\ Len(saved) \in Nat /\ Depth \in Nat \ {0} /\ Frame(Depth) = reg
         /\ \A k \in 1 .. Depth : Frame(k) \in Regs /\ Frame(k).who # "prompt"
         /\ \A k \in 1 .. Len(saved) : Frame(k) = saved[k].reg /\ k \in 1 .. Depth /\ k # Depth
         /\ \A k \in 2 .. Depth : Frame(k).who \in Files /\ id[Frame(k).who] # 0
         /\ reg.who = "line" <=> Depth = 1
         /\ reg.who # "line" => reg.who \in Files /\ Depth \in 2 .. Depth
<1>1. Len(saved) \in Nat /\ Depth = Len(saved) + 1
  BY LenProperties DEF IInv, TypeOK, Depth
<1>2. Depth \in Nat \ {0} /\ Frame(Depth) = reg
  BY <1>1 DEF Frame
<1>3. \A k \in 1 .. Len(saved) : Frame(k) = saved[k].reg /\ k \in 1 .. Depth /\ k # Depth
  BY <1>1 DEF Frame
<1>4. ASSUME NEW k \in 1 .. Depth  PROVE Frame(k) \in Regs /\ Frame(k).who # "prompt"
  <2>1. CASE k = Depth
    BY <1>2, <2>1 DEF IInv, TypeOK, Runs
  <2>2. CASE k \in 1 .. Len(saved)
    <3>1. saved[k] \in [reg : Regs, handler : Whos \cup {"none"}]
      BY <2>2, ElementOfSeq DEF IInv, TypeOK
    <3>2. QED
      BY <1>3, <2>2, <3>1 DEF IInv, FramesInv
  <2>3. QED
    BY <1>1, <2>1, <2>2
<1>5. reg.who # "prompt"
  BY DEF Runs
<1>6. \A k \in 1 .. Depth : Frame(k).who = "line" <=> k = 1
  BY <1>5 DEF IInv, FramesInv
<1>7. ASSUME NEW k \in 2 .. Depth  PROVE Frame(k).who \in Files /\ id[Frame(k).who] # 0
  <2>1. k \in 1 .. Depth /\ k # 1 /\ k - 1 \in 1 .. Len(saved) /\ k - 1 \in 1 .. Depth
    BY <1>1
  <2>2. Frame(k).who \in Files
    BY <1>4, <1>6, <2>1 DEF Regs, Whos
  <2>3. Frame(k - 1).todo \in Seq(Nat) /\ Frame(k - 1).todo # <<>>
    BY <1>3, <1>4, <2>1 DEF IInv, FramesInv, Regs
  <2>4. Head(Frame(k - 1).todo) = Frame(k - 1).todo[1] /\ 1 \in 1 .. Len(Frame(k - 1).todo)
    BY <2>3, TailFacts
  <2>5. Frame(k - 1).todo[1] \in 1 .. NextId - 1
    BY <2>1, <2>4 DEF IInv, FramesInv
  <2>6. id[Frame(k).who] = Head(Frame(k - 1).todo)
    BY DEF IInv, FramesInv
  <2>7. QED
    BY <2>2, <2>4, <2>5, <2>6
<1>8. reg.who = "line" <=> Depth = 1
  BY <1>2, <1>6
<1>9. reg.who # "line" => reg.who \in Files /\ Depth \in 2 .. Depth
  BY <1>2, <1>7, <1>8
<1>10. QED
  BY <1>1, <1>2, <1>3, <1>4, <1>7, <1>8, <1>9

(* The module that is asked for is none of those that run: it was numbered  *)
(* before all of them.                                                      *)
LEMMA AskedFacts ==
  ASSUME IInv, Runs, reg.todo # <<>>
  PROVE  /\ Asked \in Files /\ id[Asked] = Head(reg.todo) /\ id[Asked] # 0
         /\ \A k \in 2 .. Depth : id[Asked] < id[Frame(k).who] /\ Frame(k).who # Asked
<1>1. /\ Depth \in Nat \ {0} /\ Frame(Depth) = reg /\ reg \in Regs
      /\ \A k \in 2 .. Depth : Frame(k).who \in Files
  BY FrameFacts DEF IInv, TypeOK
<1>2. /\ reg.todo \in Seq(Nat) /\ Head(reg.todo) = reg.todo[1] /\ 1 \in 1 .. Len(reg.todo)
      /\ Len(reg.todo) \in Nat \ {0}
  BY <1>1, TailFacts DEF Regs
<1>3. reg.todo[1] \in 1 .. NextId - 1 /\ moduleArray[Slot(reg.todo[1])] # "none"
  BY <1>1, <1>2 DEF IInv, FramesInv
<1>4. NextId \in Nat
  BY NextIdFacts DEF IInv, TypeOK
<1>5. moduleArray # <<>> /\ NextId <= Len(moduleArray) /\ Len(moduleArray) \in Nat
  <2>1. moduleArray = <<>> => NextId = 1
    BY NextIdFacts DEF IInv, RegistryInv, TypeOK
  <2>2. moduleArray # <<>>
    BY <1>3, <2>1
  <2>3. QED
    BY <2>2, LenProperties DEF IInv, RegistryInv, TypeOK
<1>6. reg.todo[1] + 1 \in 1 .. Len(moduleArray)
  BY <1>3, <1>4, <1>5
<1>7. Asked = moduleArray[reg.todo[1] + 1] /\ Asked # "none"
  BY <1>2, <1>3 DEF Asked, Slot
<1>8. Asked \in Files /\ id[Asked] = reg.todo[1]
  <2>1. moduleArray \in Seq(Files \cup {"none"})
    BY DEF IInv, TypeOK
  <2>2. Asked \in Files \cup {"none"}
    BY <1>6, <1>7, <2>1, ElementOfSeq
  <2>3. \A n \in 1 .. Len(moduleArray) : moduleArray[n] # "none" => id[moduleArray[n]] = n - 1
    BY DEF IInv, RegistryInv
  <2> DEFINE n == reg.todo[1] + 1
  <2>4. n \in 1 .. Len(moduleArray) /\ Asked = moduleArray[n]
    BY <1>6, <1>7
  <2> HIDE DEF n
  <2>5. Asked \in Files /\ id[Asked] = n - 1
    BY <1>7, <2>2, <2>3, <2>4
  <2>6. reg.todo[1] \in Int
    BY <1>3, <1>4
  <2>7. n - 1 = reg.todo[1]
    BY <2>6 DEF n
  <2>8. QED
    BY <2>5, <2>7
<1>9. id[Asked] = Head(reg.todo) /\ id[Asked] # 0
  BY <1>2, <1>3, <1>8
<1>10. \A f \in Files : id[f] \in Nat
  BY DEF IInv, TypeOK
<1>11. ASSUME NEW k \in 2 .. Depth  PROVE id[Asked] < id[Frame(k).who]
  <2> DEFINE f == reg.who
  <2>1. Depth \in 2 .. Depth /\ f \in Files /\ f = Frame(Depth).who
    BY <1>1
  <2>2. id[Asked] < id[f]
    <3> DEFINE reads == module[f].reads
               at == Len(reads) - Len(reg.todo) + 1
    <3>1. /\ Len(reg.todo) <= Len(reads)
          /\ reg.todo[1] = reads[at]
      BY <1>1, <1>2, <2>1 DEF IInv, RunInv, Consumed
    <3>2. reads \in Seq(Nat)
      BY <2>1 DEF IInv, TypeOK
    <3>3. at \in 1 .. Len(reads)
      <4>1. Len(reads) \in Nat
        BY <3>2, LenProperties
      <4>2. \A m \in Nat, n \in Nat \ {0} : n <= m => m - n + 1 \in 1 .. m
        OBVIOUS
      <4>3. QED
        BY <1>2, <3>1, <4>1, <4>2
    <3>4. id[f] # 0
      BY <2>1, FrameFacts
    <3>5. \A i \in 1 .. Len(reads) : reads[i] \in 1 .. id[f] - 1
      BY <2>1, <3>4 DEF IInv, RegistryInv, Numbered
    <3>6. id[Asked] = reads[at]
      BY <1>2, <1>9, <3>1
    <3> HIDE DEF reads, at, f
    <3>7. id[f] \in Nat /\ id[Asked] \in 1 .. id[f] - 1
      BY <1>10, <2>1, <3>3, <3>5, <3>6
    <3>8. QED
      BY <3>7
  <2>3. CASE k = Depth
    BY <2>1, <2>2, <2>3
  <2>4. CASE k # Depth
    <3>1. k \in 2 .. Depth - 1
      BY <1>1, <2>4
    <3>2. id[f] < id[Frame(k).who]
      BY <2>1, <3>1 DEF IInv, RunInv
    <3>3. QED
      BY <1>1, <1>8, <1>10, <2>1, <2>2, <3>2
  <2>5. QED
    BY <2>3, <2>4
<1>12. QED
  BY <1>1, <1>8, <1>9, <1>10, <1>11

(* A step of a run leaves alone what is said about parsing.                 *)
LEMMA RunsRest ==
  ASSUME IInv, Runs, UNCHANGED <<disk, line, registry, parsing>>,
         stopped' = stopped \/ stopped' = "nullClosure",
         \A f \in Files : log'[f].parsed = log[f].parsed
  PROVE  NextId' = NextId /\ RegistryInv' /\ ParsersInv' /\ IncludesInv'
<1>1. /\ parsing = <<>> /\ parsing' = <<>> /\ Len(parsing) = 0 /\ Len(parsing') = 0
      /\ disk' = disk /\ id' = id
  BY DEF Runs, registry
<1>2. RegistryInv' /\ NextId' = NextId
  BY DEF IInv, RegistryInv, NextId, Numbered, registry
<1>3. ParsersInv'
  BY <1>1 DEF ParsersInv
<1>4. IncludesInv'
  <2>1. \A g : (Circular(g)' <=> Circular(g))
    BY <1>1, LeadsKept
  <2>2. QED
    BY <1>1, <2>1 DEF IInv, IncludesInv
<1>5. QED
  BY <1>2, <1>3, <1>4

(* Op_LdInclude of a module that was run.                                   *)
LEMMA LdIncludeKeeps ==
  ASSUME IInv, LdInclude
  PROVE  IInv'
<1>1. /\ Runs /\ throwing = FALSE /\ reg.todo # <<>> /\ evalResult[Asked] # "none"
      /\ UNCHANGED <<disk, line, known, registry, parsing, handler, saved, throwing,
                     evalResult, hasClosure, log>>
      /\ stopped = "no" /\ reg.who # "prompt" /\ parsing = <<>>
  BY DEF LdInclude, IInv, TypeOK, Runs
<1>2. /\ Len(saved) \in Nat /\ Depth \in Nat \ {0} /\ Frame(Depth) = reg /\ reg \in Regs
      /\ \A k \in 1 .. Len(saved) : Frame(k) = saved[k].reg
      /\ Depth = Len(saved) + 1
  BY <1>1, FrameFacts DEF IInv, TypeOK, Depth
<1>3. Asked \in Files /\ id[Asked] = Head(reg.todo)
  BY <1>1, AskedFacts
<1>4. CASE ~hasClosure[Asked]
  <2>1. stopped' = "nullClosure" /\ UNCHANGED reg
    BY <1>4 DEF LdInclude
  <2>2. NextId' = NextId /\ RegistryInv' /\ ParsersInv' /\ IncludesInv'
    BY <1>1, <2>1, RunsRest
  <2>3. TypeOK'
    BY <1>1, <2>1 DEF IInv, TypeOK, registry
  <2>4. InnermostHandles' /\ FramesInv' /\ RunInv' /\ OnceInv' /\ FailuresTravelUp'
    <3>1. /\ InnermostHandles' /\ FailuresTravelUp' /\ Depth' = Depth
          /\ \A k : Frame(k)' = Frame(k) /\ (Succeeded(k)' <=> Succeeded(k))
      BY <1>1, <2>1 DEF IInv, InnermostHandles, FailuresTravelUp, Depth, Frame, Succeeded, registry
    <3>2. FramesInv'
      BY <1>1, <2>1, <2>2, <3>1 DEF IInv, FramesInv, Slot, registry
    <3>3. RunInv'
      BY <1>1, <2>1, <3>1 DEF IInv, RunInv, Consumed, registry
    <3>4. OnceInv'
      BY <1>1, <2>1, <3>1 DEF IInv, OnceInv, registry
    <3>5. QED
      BY <3>1, <3>2, <3>3, <3>4
  <2>5. FailedInv'
    <3>1. evalResult[Asked] \notin {"none", "value"}
      BY <1>1, <1>3, <1>4 DEF IInv, OnceInv
    <3>2. log[Asked].failedOn \in 1 .. line /\ log[Asked].failedOn # line
      BY <1>1, <1>3, <3>1 DEF IInv, FailedInv
    <3>3. Asked' = Asked /\ line \in Nat
      BY <1>1, <2>1 DEF Asked, registry, IInv, TypeOK
    <3>4. log[Asked].failedOn \in 1 .. line - 1
      BY <3>2, <3>3
    <3>5. FirstUseIsSafe'
      BY <1>1, <3>3, <3>4 DEF FirstUseIsSafe
    <3>6. QED
      BY <1>1, <2>1, <3>5 DEF IInv, FailedInv
  <2>6. QED
    BY <2>2, <2>3, <2>4, <2>5 DEF IInv
<1>5. CASE hasClosure[Asked]
  <2> DEFINE rest == Tail(reg.todo)
  <2>1. reg' = [reg EXCEPT !.todo = rest] /\ stopped' = stopped
    BY <1>5 DEF LdInclude
  <2>2. /\ reg.todo \in Seq(Nat) /\ rest \in Seq(Nat) /\ Len(reg.todo) \in Nat \ {0}
        /\ Len(rest) = Len(reg.todo) - 1 /\ Head(reg.todo) = reg.todo[1]
        /\ \A i \in 1 .. Len(reg.todo) - 1 : rest[i] = reg.todo[i + 1]
    BY <1>1, <1>2, TailFacts DEF Regs
  <2>3. reg' \in Regs /\ reg'.who = reg.who /\ reg'.todo = rest
    BY <1>2, <2>1, <2>2 DEF Regs
  <2> HIDE DEF rest
  <2>4. NextId' = NextId /\ RegistryInv' /\ ParsersInv' /\ IncludesInv'
    BY <1>1, <2>1, RunsRest
  <2>5. TypeOK'
    BY <1>1, <2>1, <2>3 DEF IInv, TypeOK, registry
  <2>6. InnermostHandles'
    BY <1>1, <2>3 DEF IInv, InnermostHandles
  <2>7. /\ Depth' = Depth /\ Len(saved') = Len(saved)
        /\ \A k \in 1 .. Len(saved) : Frame(k)' = Frame(k)
        /\ Frame(Depth)' = reg'
    BY <1>1, <1>2 DEF Depth, Frame
  <2>8. \A k \in 1 .. Depth : /\ Frame(k)'.who = Frame(k).who
                              /\ k # Depth => Frame(k)' = Frame(k)
    BY <1>2, <2>3, <2>7
  <2>9. FramesInv'
    <3>1. ASSUME NEW k \in 1 .. Depth, NEW j \in 1 .. Len(Frame(k)'.todo)
          PROVE  Frame(k)'.todo[j] \in 1 .. NextId - 1 /\ moduleArray[Slot(Frame(k)'.todo[j])] # "none"
      <4>1. CASE k = Depth
        <5>1. Frame(k)'.todo = rest /\ j \in 1 .. Len(rest)
          BY <2>3, <2>7, <3>1, <4>1
        <5>2. j + 1 \in 1 .. Len(reg.todo) /\ rest[j] = reg.todo[j + 1]
          BY <2>2, <5>1
        <5>3. QED
          BY <1>2, <4>1, <5>1, <5>2 DEF IInv, FramesInv
      <4>2. CASE k # Depth
        BY <2>8, <3>1, <4>2 DEF IInv, FramesInv
      <4>3. QED
        BY <4>1, <4>2
    <3>2. ASSUME NEW k \in 2 .. Depth  PROVE id[Frame(k)'.who] = Head(Frame(k - 1)'.todo)
      <4>1. k \in 1 .. Depth /\ k - 1 \in 1 .. Depth /\ k - 1 # Depth
        BY <1>2
      <4>2. QED
        BY <2>8, <4>1 DEF IInv, FramesInv
    <3>3. \A k \in 1 .. Depth : Frame(k)'.who = "line" <=> k = 1
      BY <1>1, <2>8 DEF IInv, FramesInv
    <3>4. /\ \A k \in 1 .. Len(saved) : saved[k].reg.who # "prompt" /\ saved[k].reg.todo # <<>>
          /\ line > 0
      BY <1>1 DEF IInv, FramesInv
    <3>5. id' = id /\ moduleArray' = moduleArray
      BY <1>1 DEF registry
    <3>6. QED
      BY <1>1, <2>3, <2>4, <2>7, <3>1, <3>2, <3>3, <3>4, <3>5 DEF FramesInv, Slot
  <2>10. RunInv'
    <3>1. ASSUME NEW k \in 2 .. Depth
          PROVE  LET f == Frame(k)'.who
                     todo == Frame(k)'.todo
                     reads == module[f].reads
                 IN /\ evalResult[f] = "none"
                    /\ \A j \in 2 .. k - 1 : id[f] < id[Frame(j)'.who]
                    /\ Len(todo) <= Len(reads)
                    /\ \A j \in 1 .. Len(todo) : todo[j] = reads[Len(reads) - Len(todo) + j]
                    /\ \A j \in 1 .. Len(reads) - Len(todo) : Succeeded(reads[j])
      <4> DEFINE f == Frame(k).who
                 reads == module[f].reads
                 todo == Frame(k).todo
      <4>1. k \in 1 .. Depth /\ \A j \in 2 .. k - 1 : j \in 1 .. Depth
        BY <1>2
      <4>2. /\ evalResult[f] = "none"
            /\ \A j \in 2 .. k - 1 : id[f] < id[Frame(j).who]
            /\ Len(todo) <= Len(reads)
            /\ \A j \in 1 .. Len(todo) : todo[j] = reads[Len(reads) - Len(todo) + j]
            /\ \A j \in 1 .. Len(reads) - Len(todo) : Succeeded(reads[j])
        BY DEF IInv, RunInv, Consumed
      <4>3. Frame(k)'.who = f /\ \A j \in 2 .. k - 1 : id[f] < id[Frame(j)'.who]
        BY <2>8, <4>1, <4>2
      <4>4. CASE k # Depth
        <5>1. Frame(k)' = Frame(k)
          BY <2>8, <4>1, <4>4
        <5>2. QED
          BY <4>2, <4>3, <5>1
      <4>5. CASE k = Depth
        <5>1. todo = reg.todo /\ Frame(k)'.todo = rest
          BY <1>2, <2>3, <2>7, <4>5
        <5>2. f \in Files
          BY <1>1, FrameFacts
        <5>3. Len(reads) \in Nat
          BY <5>2, LenProperties DEF IInv, TypeOK
        <5>4. Succeeded(Head(reg.todo))
          BY <1>3, <1>5 DEF IInv, OnceInv, Succeeded
        <5> DEFINE R == Len(reads)
                   T == Len(todo)
                   U == Len(rest)
        <5>5. R \in Nat /\ T \in Nat \ {0} /\ T <= R /\ U = T - 1
          BY <2>2, <4>2, <5>1, <5>3
        <5>6. /\ \A i \in 1 .. T - 1 : rest[i] = todo[i + 1]
              /\ todo[1] = Head(reg.todo)
              /\ \A j \in 1 .. T : todo[j] = reads[R - T + j]
              /\ \A j \in 1 .. R - T : Succeeded(reads[j])
          BY <2>2, <4>2, <5>1
        <5> HIDE DEF f, reads, todo, R, T, U
        <5>7. ASSUME NEW j \in 1 .. U  PROVE rest[j] = reads[R - U + j]
          <6>1. j \in 1 .. T - 1 /\ j + 1 \in 1 .. T /\ R - T + (j + 1) = R - U + j
            BY <5>5
          <6>2. rest[j] = todo[j + 1] /\ todo[j + 1] = reads[R - T + (j + 1)]
            BY <5>6, <6>1
          <6>3. QED
            BY <6>1, <6>2
        <5>8. ASSUME NEW j \in 1 .. R - U  PROVE Succeeded(reads[j])
          <6>1. CASE j \in 1 .. R - T
            BY <5>6, <6>1
          <6>2. CASE j = R - T + 1
            <7>1. todo[1] = reads[R - T + 1]
              BY <5>5, <5>6
            <7>2. QED
              BY <5>4, <5>6, <6>2, <7>1
          <6>3. QED
            BY <5>5, <6>1, <6>2
        <5>9. U <= R
          BY <5>5
        <5>10. QED
          BY <4>2, <4>3, <5>1, <5>7, <5>8, <5>9 DEF reads, f, R, U
      <4>6. QED
        BY <4>4, <4>5
    <3>2. /\ evalResult' = evalResult /\ id' = id /\ module' = module
          /\ \A n : (Succeeded(n)' <=> Succeeded(n))
      BY <1>1 DEF registry, Succeeded
    <3>3. QED
      BY <2>7, <3>1, <3>2 DEF RunInv, Consumed
  <2>11. OnceInv'
    <3>1. ASSUME NEW f \in Files, evalResult[f] = "none", log[f].run = 1
          PROVE  \E k \in 2 .. Depth : Frame(k)'.who = f
      <4>1. PICK k \in 2 .. Depth : Frame(k).who = f
        BY <3>1 DEF IInv, OnceInv
      <4>2. QED
        BY <1>2, <2>8, <4>1
    <3>2. QED
      BY <1>1, <2>7, <3>1 DEF IInv, OnceInv, registry
  <2>12. FailedInv' /\ FailuresTravelUp'
    BY <1>1, <2>1, <2>3 DEF IInv, FailedInv, FirstUseIsSafe, FailuresTravelUp, registry
  <2>13. QED
    BY <2>4, <2>5, <2>6, <2>9, <2>10, <2>11, <2>12 DEF IInv
<1>6. QED
  BY <1>4, <1>5

(* The log of one file is written, in one place.                            *)
LEMMA LogFacts ==
  ASSUME TypeOK, NEW f \in Files, NEW n \in Nat
  PROVE  /\ LET m == [log EXCEPT ![f].run = @ + 1]
            IN /\ m \in [Files -> [parsed : Nat, run : Nat, failedOn : Nat]]
               /\ m[f].run = log[f].run + 1 /\ m[f].parsed = log[f].parsed
               /\ m[f].failedOn = log[f].failedOn
               /\ \A g \in Files : g # f => m[g] = log[g]
         /\ LET m == [log EXCEPT ![f].failedOn = n]
            IN /\ m \in [Files -> [parsed : Nat, run : Nat, failedOn : Nat]]
               /\ m[f].run = log[f].run /\ m[f].parsed = log[f].parsed
               /\ m[f].failedOn = n
               /\ \A g \in Files : g # f => m[g] = log[g]
<1>1. log \in [Files -> [parsed : Nat, run : Nat, failedOn : Nat]]
  BY DEF TypeOK
<1>2. ASSUME NEW r \in [parsed : Nat, run : Nat, failedOn : Nat]
      PROVE  LET m == [log EXCEPT ![f] = r]
             IN /\ m \in [Files -> [parsed : Nat, run : Nat, failedOn : Nat]] /\ m[f] = r
                /\ \A g \in Files : g # f => m[g] = log[g]
  BY <1>1
<1> DEFINE r == [log[f] EXCEPT !.run = @ + 1]
           s == [log[f] EXCEPT !.failedOn = n]
<1>3. /\ r \in [parsed : Nat, run : Nat, failedOn : Nat] /\ r.parsed = log[f].parsed
      /\ r.run = log[f].run + 1 /\ r.failedOn = log[f].failedOn
  BY <1>1
<1>4. /\ s \in [parsed : Nat, run : Nat, failedOn : Nat] /\ s.parsed = log[f].parsed
      /\ s.run = log[f].run /\ s.failedOn = n
  BY <1>1
<1>5. [log EXCEPT ![f].run = @ + 1] = [log EXCEPT ![f] = r]
  OBVIOUS
<1>6. [log EXCEPT ![f].failedOn = n] = [log EXCEPT ![f] = s]
  OBVIOUS
<1> HIDE DEF r, s
<1>7. QED
  BY <1>2, <1>3, <1>4, <1>5, <1>6

(* Op_LdInclude of a module that was not run.                               *)
LEMMA InitModuleKeeps ==
  ASSUME IInv, InitModule
  PROVE  IInv'
<1> DEFINE f == Asked
           reads == module[f].reads
<1>1. /\ Runs /\ throwing = FALSE /\ reg.todo # <<>> /\ evalResult[f] = "none"
      /\ UNCHANGED <<disk, line, known, registry, parsing, hasClosure, stopped>>
      /\ stopped = "no" /\ reg.who # "prompt" /\ parsing = <<>>
  BY DEF InitModule, IInv, TypeOK, Runs
<1>2. /\ Len(saved) \in Nat /\ Depth \in Nat \ {0} /\ Frame(Depth) = reg /\ reg \in Regs
      /\ \A k \in 1 .. Len(saved) : Frame(k) = saved[k].reg
      /\ Depth = Len(saved) + 1
      /\ \A k \in 2 .. Depth : Frame(k).who \in Files /\ id[Frame(k).who] # 0
  BY <1>1, FrameFacts DEF IInv, TypeOK, Depth
<1>3. /\ f \in Files /\ id[f] = Head(reg.todo) /\ id[f] # 0
      /\ \A k \in 2 .. Depth : id[f] < id[Frame(k).who] /\ Frame(k).who # f
  BY <1>1, AskedFacts
<1>4. TypeOK /\ line \in Nat /\ line > 0
  BY <1>1 DEF IInv, TypeOK, FramesInv
<1>5. CASE ~(disk[f].body # "badCompile" /\ Compilable(reads))
  <2>1. /\ evalResult' = [evalResult EXCEPT ![f] = "parseErrors"]
        /\ log' = [log EXCEPT ![f].failedOn = line]
        /\ throwing' = TRUE
        /\ UNCHANGED <<reg, handler, saved>>
    BY <1>5 DEF InitModule
  <2> HIDE DEF f
  <2>2. /\ log' \in [Files -> [parsed : Nat, run : Nat, failedOn : Nat]]
        /\ log'[f].run = log[f].run /\ log'[f].parsed = log[f].parsed /\ log'[f].failedOn = line
        /\ \A g \in Files : g # f => log'[g] = log[g]
    BY <1>3, <1>4, <2>1, LogFacts
  <2>3. /\ evalResult' \in [Files -> Results] /\ evalResult'[f] = "parseErrors"
        /\ \A g \in Files : g # f => evalResult'[g] = evalResult[g]
    BY <1>3, <2>1 DEF IInv, TypeOK, Results
  <2>4. NextId' = NextId /\ RegistryInv' /\ ParsersInv' /\ IncludesInv'
    BY <1>1, <2>2, RunsRest
  <2>5. TypeOK'
    BY <1>1, <2>1, <2>2, <2>3 DEF IInv, TypeOK, registry
  <2>6. /\ InnermostHandles' /\ Depth' = Depth /\ \A k : Frame(k)' = Frame(k)
    BY <2>1 DEF IInv, InnermostHandles, Depth, Frame
  <2>7. FramesInv'
    BY <1>1, <2>1, <2>4, <2>6 DEF IInv, FramesInv, Slot, registry
  <2>8. \A n : Succeeded(n) => Succeeded(n)'
    BY <1>1, <2>3 DEF Succeeded, registry
  <2>9. RunInv'
    <3>1. \A k \in 2 .. Depth : evalResult'[Frame(k).who] = evalResult[Frame(k).who]
      BY <1>2, <1>3, <2>3
    <3>2. id' = id /\ module' = module
      BY <1>1 DEF registry
    <3>3. QED
      BY <2>6, <2>8, <3>1, <3>2 DEF IInv, RunInv, Consumed
  <2>10. OnceInv'
    <3>1. id' = id /\ hasClosure' = hasClosure
      BY <1>1 DEF registry
    <3>2. \A g \in Files : log'[g].run = log[g].run
      BY <2>2
    <3>3. \A g \in Files : hasClosure[g] <=> evalResult'[g] = "value"
      BY <1>1, <2>3 DEF IInv, OnceInv
    <3>4. \A g \in Files : evalResult'[g] # "none" => id[g] # 0
      BY <1>3, <2>3 DEF IInv, OnceInv
    <3>5. \A g \in Files : evalResult'[g] = "none" => evalResult[g] = "none"
      BY <1>1, <2>3
    <3>6. QED
      BY <2>6, <3>1, <3>2, <3>3, <3>4, <3>5 DEF IInv, OnceInv
  <2>11. FailedInv'
    <3>1. ASSUME NEW g \in Files, evalResult'[g] \notin {"none", "value"}
          PROVE  log'[g].failedOn \in 1 .. line
      <4>1. CASE g = f
        BY <1>4, <2>2, <4>1
      <4>2. CASE g # f
        BY <2>2, <2>3, <3>1, <4>2 DEF IInv, FailedInv
      <4>3. QED
        BY <4>1, <4>2
    <3>2. QED
      BY <1>1, <2>1, <3>1 DEF FailedInv, FirstUseIsSafe
  <2>12. FailuresTravelUp'
    <3>1. module' = module /\ id' = id
      BY <1>1 DEF registry
    <3>2. \A g \in Files : evalResult'[g] = "value" <=> evalResult[g] = "value"
      BY <1>1, <2>3
    <3>3. QED
      BY <3>1, <3>2 DEF IInv, FailuresTravelUp
  <2>13. QED
    BY <2>4, <2>5, <2>6, <2>7, <2>9, <2>10, <2>11, <2>12 DEF IInv
<1>6. CASE disk[f].body # "badCompile" /\ Compilable(reads)
  <2> DEFINE e == [reg |-> reg, handler |-> handler]
  <2>1. /\ saved' = Append(saved, e)
        /\ reg' = [who |-> f, todo |-> reads] /\ handler' = f
        /\ log' = [log EXCEPT ![f].run = @ + 1]
        /\ UNCHANGED <<throwing, evalResult>>
    BY <1>6 DEF InitModule
  <2> HIDE DEF f
  <2>2. /\ log' \in [Files -> [parsed : Nat, run : Nat, failedOn : Nat]]
        /\ log'[f].run = log[f].run + 1 /\ log'[f].parsed = log[f].parsed
        /\ log'[f].failedOn = log[f].failedOn
        /\ \A g \in Files : g # f => log'[g] = log[g]
    BY <1>3, <1>4, <2>1, LogFacts
  <2>3. e \in [reg : Regs, handler : Whos \cup {"none"}] /\ e.reg = reg /\ e.handler = handler
    BY DEF IInv, TypeOK
  <2> HIDE DEF e
  <2>4. /\ saved' \in Seq([reg : Regs, handler : Whos \cup {"none"}]) /\ Len(saved') = Len(saved) + 1
        /\ \A k \in 1 .. Len(saved) : saved'[k] = saved[k]
        /\ saved'[Len(saved) + 1] = e
    BY <2>1, <2>3, Push DEF IInv, TypeOK
  <2>5. reads \in Seq(Nat)
    BY <1>3 DEF IInv, TypeOK
  <2> HIDE DEF reads
  <2>6. reg' \in Regs /\ reg'.who = f /\ reg'.todo = reads /\ f # "prompt" /\ f # "line"
    BY <1>3, <2>1, <2>5, ModulesAssumption DEF Regs, Whos
  <2>7. NextId' = NextId /\ RegistryInv' /\ ParsersInv' /\ IncludesInv'
    BY <1>1, <2>2, RunsRest
  <2>8. TypeOK'
    BY <1>1, <1>3, <2>1, <2>2, <2>4, <2>6 DEF IInv, TypeOK, registry, Whos
  <2>9. InnermostHandles'
    <3>1. ASSUME NEW k \in DOMAIN saved'  PROVE saved'[k].handler = saved'[k].reg.who
      <4>1. k \in 1 .. Len(saved) + 1
        BY <2>4
      <4>2. CASE k = Len(saved) + 1
        BY <1>1, <2>3, <2>4, <4>2 DEF IInv, InnermostHandles
      <4>3. CASE k \in 1 .. Len(saved)
        <5>1. k \in DOMAIN saved
          BY <4>3 DEF IInv, TypeOK
        <5>2. QED
          BY <2>4, <4>3, <5>1 DEF IInv, InnermostHandles
      <4>4. QED
        BY <1>2, <4>1, <4>2, <4>3
    <3>2. QED
      BY <2>1, <2>6, <3>1 DEF InnermostHandles
  <2>10. /\ Depth' = Depth + 1 /\ \A k \in Nat : k = Depth + 1 => Frame(k)' = reg'
         /\ \A k \in 1 .. Depth : Frame(k)' = Frame(k)
    <3>1. Depth' = Depth + 1
      BY <1>2, <2>4 DEF Depth
    <3>2. \A k \in Nat : k = Depth + 1 => Frame(k)' = reg'
      BY <1>2, <2>4 DEF Frame
    <3>3. ASSUME NEW k \in 1 .. Depth  PROVE Frame(k)' = Frame(k)
      <4>1. k <= Len(saved') /\ Frame(k)' = saved'[k].reg
        BY <1>2, <2>4 DEF Frame
      <4>2. CASE k = Depth
        BY <1>2, <2>3, <2>4, <4>1, <4>2
      <4>3. CASE k \in 1 .. Len(saved)
        BY <1>2, <2>4, <4>1, <4>3
      <4>4. QED
        BY <1>2, <4>2, <4>3
    <3>4. QED
      BY <3>1, <3>2, <3>3
  <2>11. FramesInv'
    <3>1. ASSUME NEW k \in 1 .. Depth + 1, NEW j \in 1 .. Len(Frame(k)'.todo)
          PROVE  Frame(k)'.todo[j] \in 1 .. NextId - 1 /\ moduleArray[Slot(Frame(k)'.todo[j])] # "none"
      <4>1. CASE k = Depth + 1
        <5>1. Frame(k)'.todo = reads /\ j \in 1 .. Len(reads)
          BY <2>6, <2>10, <3>1, <4>1
        <5>2. reads[j] \in 1 .. id[f] - 1
          BY <1>3, <5>1 DEF IInv, RegistryInv, Numbered, reads
        <5>3. id[f] \in Nat /\ id[f] < NextId /\ NextId \in Nat
          BY <1>3, NextIdFacts DEF IInv, TypeOK, RegistryInv
        <5>4. reads[j] \in 1 .. NextId - 1 /\ reads[j] < NextId
          BY <5>2, <5>3
        <5>5. j \in DOMAIN reads
          BY <2>5, <5>1
        <5>6. GetModuleById(reads[j]) # "none"
          BY <1>6, <5>5 DEF Compilable
        <5>7. QED
          BY <5>1, <5>4, <5>6 DEF GetModuleById
      <4>2. CASE k \in 1 .. Depth
        BY <2>10, <3>1, <4>2 DEF IInv, FramesInv
      <4>3. QED
        BY <1>2, <4>1, <4>2
    <3>2. ASSUME NEW k \in 2 .. Depth + 1  PROVE id[Frame(k)'.who] = Head(Frame(k - 1)'.todo)
      <4>1. CASE k = Depth + 1
        <5>1. k - 1 = Depth /\ Depth \in 1 .. Depth
          BY <1>2, <4>1
        <5>2. QED
          BY <1>2, <1>3, <2>6, <2>10, <4>1, <5>1
      <4>2. CASE k \in 2 .. Depth
        <5>1. k \in 1 .. Depth /\ k - 1 \in 1 .. Depth
          BY <1>2, <4>2
        <5>2. QED
          BY <2>10, <4>2, <5>1 DEF IInv, FramesInv
      <4>3. QED
        BY <1>2, <4>1, <4>2
    <3>3. ASSUME NEW k \in 1 .. Depth + 1  PROVE Frame(k)'.who = "line" <=> k = 1
      <4>1. CASE k = Depth + 1
        BY <1>2, <2>6, <2>10, <4>1
      <4>2. CASE k \in 1 .. Depth
        BY <1>1, <2>10, <4>2 DEF IInv, FramesInv
      <4>3. QED
        BY <1>2, <4>1, <4>2
    <3>4. ASSUME NEW k \in 1 .. Len(saved) + 1
          PROVE  saved'[k].reg.who # "prompt" /\ saved'[k].reg.todo # <<>>
      <4>1. CASE k = Len(saved) + 1
        BY <1>1, <2>3, <2>4, <4>1
      <4>2. CASE k \in 1 .. Len(saved)
        BY <2>4, <4>2 DEF IInv, FramesInv
      <4>3. QED
        BY <1>2, <4>1, <4>2
    <3>5. id' = id /\ moduleArray' = moduleArray /\ parsing' = <<>> /\ line' > 0
      BY <1>1, <1>4 DEF registry
    <3>6. QED
      BY <2>4, <2>6, <2>7, <2>10, <3>1, <3>2, <3>3, <3>4, <3>5 DEF FramesInv, Slot
  <2>12. RunInv'
    <3>1. ASSUME NEW k \in 2 .. Depth + 1
          PROVE  LET g == Frame(k)'.who
                     todo == Frame(k)'.todo
                     from == module[g].reads
                 IN /\ evalResult[g] = "none"
                    /\ \A j \in 2 .. k - 1 : id[g] < id[Frame(j)'.who]
                    /\ Len(todo) <= Len(from)
                    /\ \A j \in 1 .. Len(todo) : todo[j] = from[Len(from) - Len(todo) + j]
                    /\ \A j \in 1 .. Len(from) - Len(todo) : Succeeded(from[j])
      <4>1. CASE k = Depth + 1
        <5>1. Frame(k)'.who = f /\ Frame(k)'.todo = reads /\ module[f].reads = reads
          BY <2>6, <2>10, <4>1 DEF reads
        <5>2. \A j \in 2 .. k - 1 : j \in 2 .. Depth /\ Frame(j)' = Frame(j)
          BY <1>2, <2>10, <4>1
        <5>3. Len(reads) \in Nat
          BY <2>5, LenProperties
        <5>4. \A j \in 1 .. Len(reads) : Len(reads) - Len(reads) + j = j
          BY <5>3
        <5>5. 1 .. Len(reads) - Len(reads) = {}
          BY <5>3
        <5>6. \A j \in 2 .. k - 1 : id[f] < id[Frame(j)'.who]
          BY <1>3, <5>2
        <5>7. QED
          BY <1>1, <5>1, <5>3, <5>4, <5>5, <5>6
      <4>2. CASE k \in 2 .. Depth
        <5>1. Frame(k)' = Frame(k) /\ \A j \in 2 .. k - 1 : Frame(j)' = Frame(j)
          BY <1>2, <2>10, <4>2
        <5> DEFINE g == Frame(k).who
                   todo == Frame(k).todo
                   from == module[g].reads
        <5>2. /\ evalResult[g] = "none"
              /\ \A j \in 2 .. k - 1 : id[g] < id[Frame(j).who]
              /\ Len(todo) <= Len(from)
              /\ \A j \in 1 .. Len(todo) : todo[j] = from[Len(from) - Len(todo) + j]
              /\ \A j \in 1 .. Len(from) - Len(todo) : Succeeded(from[j])
          BY <4>2 DEF IInv, RunInv, Consumed
        <5>3. QED
          BY <5>1, <5>2
      <4>3. k = Depth + 1 \/ k \in 2 .. Depth
        BY <1>2
      <4>4. QED
        BY <4>1, <4>2, <4>3
    <3>2. /\ evalResult' = evalResult /\ id' = id /\ module' = module
          /\ \A n : (Succeeded(n)' <=> Succeeded(n))
      BY <1>1, <2>1 DEF registry, Succeeded
    <3>3. QED
      BY <2>10, <3>1, <3>2 DEF RunInv, Consumed
  <2>13. OnceInv'
    <3>1. log[f].run = 0 /\ log'[f].run = 1
      <4>1. log[f].run # 1
        BY <1>1, <1>3 DEF IInv, OnceInv
      <4>2. log[f].run \in Nat /\ log[f].run <= 1
        BY <1>3 DEF IInv, OnceInv, TypeOK
      <4>3. QED
        BY <2>2, <4>1, <4>2
    <3>2. \A g \in Files : log'[g].run <= 1
      BY <2>2, <3>1 DEF IInv, OnceInv
    <3>3. ASSUME NEW g \in Files, evalResult[g] = "none", log'[g].run = 1
          PROVE  \E k \in 2 .. Depth + 1 : Frame(k)'.who = g
      <4>1. CASE g = f
        BY <1>2, <2>6, <2>10, <4>1
      <4>2. CASE g # f
        <5>1. PICK k \in 2 .. Depth : Frame(k).who = g
          BY <2>2, <3>3, <4>2 DEF IInv, OnceInv
        <5>2. QED
          BY <1>2, <2>10, <5>1
      <4>3. QED
        BY <4>1, <4>2
    <3>4. QED
      BY <1>1, <2>1, <2>10, <3>2, <3>3 DEF IInv, OnceInv, registry
  <2>14. FailedInv'
    <3>1. \A g \in Files : log'[g].failedOn = log[g].failedOn
      BY <2>2
    <3>2. \A g \in Files : evalResult[g] \notin {"none", "value"} =>
            log[g].failedOn \in 1 .. line /\ log[g].failedOn # line
      BY <1>1 DEF IInv, FailedInv
    <3>3. QED
      BY <1>1, <2>1, <3>1, <3>2 DEF FailedInv, FirstUseIsSafe
  <2>15. FailuresTravelUp'
    BY <1>1, <2>1 DEF IInv, FailuresTravelUp, registry
  <2>16. QED
    BY <2>7, <2>8, <2>9, <2>11, <2>12, <2>13, <2>14, <2>15 DEF IInv
<1>7. QED
  BY <1>5, <1>6

(* The run of a module is over, with result r: what asked for it goes on,   *)
(* or fails in turn.                                                        *)
LEMMA AfterRecurseKeeps ==
  ASSUME IInv, Runs, reg.who \in Files, AfterRecurse,
         NEW r \in Results \ {"none"}, evalResult' = [evalResult EXCEPT ![reg.who] = r],
         UNCHANGED <<disk, line, known, registry, parsing, stopped>>,
         \/ /\ r = "value" /\ reg.todo = <<>> /\ throwing = FALSE /\ throwing' = FALSE
            /\ hasClosure' = [hasClosure EXCEPT ![reg.who] = TRUE] /\ log' = log
         \/ /\ r # "value" /\ throwing' = TRUE
            /\ hasClosure' = hasClosure /\ log' = [log EXCEPT ![reg.who].failedOn = line]
  PROVE  IInv'
<1> DEFINE f == reg.who
<1>1. /\ reg.who # "prompt" /\ parsing = <<>> /\ stopped = "no"
      /\ TypeOK /\ line \in Nat /\ line > 0
  BY DEF Runs, IInv, TypeOK, FramesInv
<1>2. /\ Len(saved) \in Nat /\ Depth \in Nat \ {0} /\ Frame(Depth) = reg /\ reg \in Regs
      /\ Depth = Len(saved) + 1
      /\ \A k \in 1 .. Depth : Frame(k) \in Regs /\ Frame(k).who # "prompt"
      /\ \A k \in 1 .. Len(saved) : Frame(k) = saved[k].reg /\ k \in 1 .. Depth
      /\ \A k \in 2 .. Depth : Frame(k).who \in Files /\ id[Frame(k).who] # 0
      /\ Depth \in 2 .. Depth
  BY FrameFacts, ModulesAssumption DEF IInv, TypeOK, Depth
<1>3. Len(saved) \in Nat \ {0} /\ saved # <<>> /\ Len(saved) = Depth - 1
  BY <1>2, EmptySeq
<1>4. /\ reg' = saved[Len(saved)].reg /\ handler' = saved[Len(saved)].handler
      /\ saved' = SubSeq(saved, 1, Len(saved) - 1)
  BY DEF AfterRecurse, Innermost
<1>5. /\ saved' \in Seq([reg : Regs, handler : Whos \cup {"none"}]) /\ Len(saved') = Len(saved) - 1
      /\ \A k \in 1 .. Len(saved) - 1 : saved'[k] = saved[k]
  BY <1>3, <1>4, Pop DEF IInv, TypeOK
<1>6. /\ saved[Len(saved)] \in [reg : Regs, handler : Whos \cup {"none"}]
      /\ reg' \in Regs /\ handler' \in Whos \cup {"none"} /\ reg'.who # "prompt"
      /\ handler' = reg'.who
  <2>1. saved[Len(saved)] \in [reg : Regs, handler : Whos \cup {"none"}]
    <3>1. Len(saved) \in 1 .. Len(saved) /\ saved \in Seq([reg : Regs, handler : Whos \cup {"none"}])
      BY <1>3 DEF IInv, TypeOK
    <3>2. QED
      BY <3>1, ElementOfSeq
  <2>2. Len(saved) \in 1 .. Len(saved) /\ Len(saved) \in DOMAIN saved
    BY <1>3 DEF IInv, TypeOK
  <2>3. saved[Len(saved)].reg.who # "prompt"
    BY <1>2, <2>2
  <2>4. saved[Len(saved)].handler = saved[Len(saved)].reg.who
    BY <2>2 DEF IInv, InnermostHandles
  <2>5. QED
    BY <1>4, <2>1, <2>3, <2>4
<1>7. Depth' = Depth - 1 /\ \A k \in 1 .. Depth - 1 : Frame(k)' = Frame(k) /\ k \in 1 .. Depth
  <2>1. Depth' = Depth - 1
    BY <1>2, <1>5 DEF Depth
  <2>2. ASSUME NEW k \in 1 .. Depth - 1  PROVE Frame(k)' = Frame(k)
    <3>1. Frame(k) = saved[k].reg /\ k \in 1 .. Len(saved)
      BY <1>2, <1>3
    <3>2. CASE k = Len(saved)
      BY <1>3, <1>4, <1>5, <3>1, <3>2 DEF Frame
    <3>3. CASE k \in 1 .. Len(saved) - 1
      BY <1>3, <1>5, <3>1, <3>3 DEF Frame
    <3>4. QED
      BY <1>3, <3>1, <3>2, <3>3
  <2>3. QED
    BY <1>2, <2>1, <2>2
<1>8. /\ evalResult' \in [Files -> Results] /\ evalResult'[f] = r
      /\ \A g \in Files : g # f => evalResult'[g] = evalResult[g]
  BY DEF IInv, TypeOK
<1>9. evalResult[f] = "none" /\ id[f] # 0
  BY <1>2 DEF IInv, RunInv
<1>10. /\ log' \in [Files -> [parsed : Nat, run : Nat, failedOn : Nat]]
       /\ \A g \in Files : log'[g].run = log[g].run /\ log'[g].parsed = log[g].parsed
       /\ \A g \in Files : g # f => log'[g] = log[g]
       /\ r # "value" => log'[f].failedOn = line
  <2>1. CASE log' = log /\ r = "value"
    BY <2>1 DEF IInv, TypeOK
  <2>2. CASE log' = [log EXCEPT ![f].failedOn = line]
    <3> HIDE DEF f
    <3>1. /\ log' \in [Files -> [parsed : Nat, run : Nat, failedOn : Nat]]
          /\ log'[f].run = log[f].run /\ log'[f].parsed = log[f].parsed
          /\ log'[f].failedOn = line
          /\ \A g \in Files : g # f => log'[g] = log[g]
      <4>1. TypeOK /\ f \in Files /\ line \in Nat
        BY <1>1 DEF f
      <4>. QED
        BY ONLY <2>2, <4>1, LogFacts
    <3>2. QED
      BY <3>1
  <2>3. QED
    BY <2>1, <2>2
<1>11. /\ hasClosure' \in [Files -> BOOLEAN]
       /\ \A g \in Files : hasClosure'[g] <=> evalResult'[g] = "value"
  <2>1. hasClosure \in [Files -> BOOLEAN] /\ \A g \in Files : hasClosure[g] <=> evalResult[g] = "value"
    BY DEF IInv, TypeOK, OnceInv
  <2>2. CASE r = "value" /\ hasClosure' = [hasClosure EXCEPT ![f] = TRUE]
    BY <1>8, <2>1, <2>2
  <2>3. CASE r # "value" /\ hasClosure' = hasClosure
    BY <1>8, <1>9, <2>1, <2>3
  <2>4. QED
    BY <2>2, <2>3
<1>12. throwing' \in BOOLEAN
  OBVIOUS
<1>13. id' = id /\ module' = module /\ moduleArray' = moduleArray
  BY DEF registry
<1>14. NextId' = NextId /\ RegistryInv' /\ ParsersInv' /\ IncludesInv'
  BY <1>10, RunsRest
<1>15. TypeOK'
  BY <1>5, <1>6, <1>8, <1>10, <1>11, <1>12, <1>13 DEF IInv, TypeOK
<1>16. InnermostHandles'
  <2>1. ASSUME NEW k \in DOMAIN saved'  PROVE saved'[k].handler = saved'[k].reg.who
    <3>1. k \in 1 .. Len(saved) - 1 /\ k \in DOMAIN saved
      BY <1>3, <1>5 DEF IInv, TypeOK
    <3>2. QED
      BY <1>5, <3>1 DEF IInv, InnermostHandles
  <2>2. QED
    BY <1>6, <2>1 DEF InnermostHandles
<1>17. FramesInv'
  <2>1. \A k \in 1 .. Depth - 1 : \A j \in 1 .. Len(Frame(k)'.todo) :
          Frame(k)'.todo[j] \in 1 .. NextId - 1 /\ moduleArray[Slot(Frame(k)'.todo[j])] # "none"
    BY <1>7 DEF IInv, FramesInv
  <2>2. ASSUME NEW k \in 2 .. Depth - 1  PROVE id[Frame(k)'.who] = Head(Frame(k - 1)'.todo)
    <3>1. k \in 1 .. Depth - 1 /\ k - 1 \in 1 .. Depth - 1 /\ k \in 2 .. Depth
      BY <1>2
    <3>2. QED
      BY <1>7, <3>1 DEF IInv, FramesInv
  <2>3. \A k \in 1 .. Depth - 1 : Frame(k)'.who = "line" <=> k = 1
    BY <1>1, <1>7 DEF IInv, FramesInv
  <2>4. \A k \in 1 .. Len(saved) - 1 : saved'[k].reg.who # "prompt" /\ saved'[k].reg.todo # <<>>
    BY <1>3, <1>5 DEF IInv, FramesInv
  <2>5. parsing' = <<>> /\ line' > 0
    BY <1>1
  <2>6. QED
    BY <1>5, <1>6, <1>7, <1>13, <1>14, <2>1, <2>2, <2>3, <2>4, <2>5 DEF FramesInv, Slot
<1>19. \A k \in 2 .. Depth - 1 : Frame(k).who \in Files /\ Frame(k).who # f
  <2>1. \A k \in 2 .. Depth - 1 : id[f] < id[Frame(k).who] /\ k \in 2 .. Depth
    BY <1>2 DEF IInv, RunInv
  <2>2. \A g \in Files : id[g] \in Nat
    BY DEF IInv, TypeOK
  <2>3. QED
    BY <1>2, <2>1, <2>2
<1>20. RunInv'
  <2>1. ASSUME NEW k \in 2 .. Depth - 1
        PROVE  LET g == Frame(k)'.who
                   todo == Frame(k)'.todo
                   from == module[g].reads
               IN /\ evalResult'[g] = "none"
                  /\ \A j \in 2 .. k - 1 : id[g] < id[Frame(j)'.who]
                  /\ Len(todo) <= Len(from)
                  /\ \A j \in 1 .. Len(todo) : todo[j] = from[Len(from) - Len(todo) + j]
                  /\ \A j \in 1 .. Len(from) - Len(todo) :
                       \E h \in Files : id[h] = from[j] /\ evalResult'[h] = "value"
    <3> DEFINE g == Frame(k).who
               todo == Frame(k).todo
               from == module[g].reads
    <3>1. /\ k \in 2 .. Depth /\ Frame(k)' = Frame(k) /\ \A j \in 2 .. k - 1 : Frame(j)' = Frame(j)
      BY <1>2, <1>7
    <3>2. /\ evalResult[g] = "none"
          /\ \A j \in 2 .. k - 1 : id[g] < id[Frame(j).who]
          /\ Len(todo) <= Len(from)
          /\ \A j \in 1 .. Len(todo) : todo[j] = from[Len(from) - Len(todo) + j]
          /\ \A j \in 1 .. Len(from) - Len(todo) : Succeeded(from[j])
      BY <3>1 DEF IInv, RunInv, Consumed
    <3>3. evalResult'[g] = "none"
      BY <1>8, <1>19, <3>2
    <3>4. \A j \in 1 .. Len(from) - Len(todo) :
            \E h \in Files : id[h] = from[j] /\ evalResult'[h] = "value"
      BY <1>8, <1>9, <3>2 DEF Succeeded
    <3>5. Frame(k)'.who = g /\ Frame(k)'.todo = todo
      BY <3>1
    <3>6. \A j \in 2 .. k - 1 : id[g] < id[Frame(j)'.who]
      BY <3>1, <3>2
    <3>7. module[Frame(k)'.who].reads = from
      BY <3>5
    <3> HIDE DEF g, todo, from
    <3>8. QED
      BY <3>2, <3>3, <3>4, <3>5, <3>6, <3>7
  <2>2. ASSUME NEW k \in 2 .. Depth'
        PROVE  (LET g == Frame(k).who
                    todo == Frame(k).todo
                    reads == module[g].reads
                IN /\ evalResult[g] = "none"
                   /\ \A j \in 2 .. k - 1 : id[g] < id[Frame(j).who]
                   /\ Len(todo) <= Len(reads)
                   /\ \A j \in 1 .. Len(todo) : todo[j] = reads[Consumed(g, todo) + j]
                   /\ \A j \in 1 .. Consumed(g, todo) : Succeeded(reads[j]))'
    <3>1. k \in 2 .. Depth - 1
      BY <1>7
    <3>2. QED
      BY ONLY <1>13, <2>1, <3>1 DEF Consumed, Succeeded
  <2>3. QED
    BY <2>2 DEF RunInv
<1>21. OnceInv'
  <2>1. ASSUME NEW g \in Files, evalResult'[g] = "none", log'[g].run = 1
        PROVE  \E k \in 2 .. Depth - 1 : Frame(k)'.who = g
    <3>1. g # f /\ evalResult[g] = "none" /\ log[g].run = 1
      BY <1>8, <1>10, <2>1
    <3>2. PICK k \in 2 .. Depth : Frame(k).who = g
      BY <3>1 DEF IInv, OnceInv
    <3>3. k # Depth
      BY <1>2, <3>1, <3>2
    <3>4. k \in 2 .. Depth - 1 /\ k \in 1 .. Depth - 1
      BY <1>2, <3>3
    <3>5. QED
      BY <1>7, <3>2, <3>4
  <2>2. \A g \in Files : evalResult'[g] # "none" => id[g] # 0
    BY <1>8, <1>9 DEF IInv, OnceInv
  <2>3. \A g \in Files : log'[g].run <= 1
    BY <1>10 DEF IInv, OnceInv
  <2>4. QED
    BY <1>7, <1>11, <1>13, <2>1, <2>2, <2>3 DEF OnceInv
<1>22. FailedInv'
  <2>1. ASSUME NEW g \in Files, evalResult'[g] \notin {"none", "value"}
        PROVE  log'[g].failedOn \in 1 .. line /\ (log'[g].failedOn = line => throwing')
    <3>1. CASE g = f
      BY <1>1, <1>8, <1>10, <2>1, <3>1
    <3>2. CASE g # f
      <4>1. evalResult[g] \notin {"none", "value"} /\ log'[g] = log[g]
        BY <1>8, <1>10, <2>1, <3>2
      <4>2. log[g].failedOn \in 1 .. line /\ (log[g].failedOn = line => throwing)
        BY <1>1, <4>1 DEF IInv, FailedInv
      <4>3. throwing => throwing'
        OBVIOUS
      <4>4. QED
        BY <4>1, <4>2, <4>3
    <3>3. QED
      BY <3>1, <3>2
  <2>2. QED
    BY <1>1, <2>1 DEF FailedInv, FirstUseIsSafe
<1>23. FailuresTravelUp'
  <2>1. ASSUME NEW g \in Files, evalResult'[g] = "value", NEW k \in DOMAIN module[g].reads
        PROVE  Succeeded(module[g].reads[k])
    <3>1. CASE g = f
      <4> DEFINE reads == module[f].reads
      <4>1. reg.todo = <<>> /\ Len(reg.todo) = 0
        BY <1>8, <2>1, <3>1
      <4>2. \A j \in 1 .. Len(reads) - Len(reg.todo) : Succeeded(reads[j])
        BY <1>2 DEF IInv, RunInv, Consumed
      <4>3. Len(reads) \in Nat /\ DOMAIN reads = 1 .. Len(reads)
        BY LenProperties DEF IInv, TypeOK
      <4>4. Len(reads) - Len(reg.todo) = Len(reads)
        BY <4>1, <4>3
      <4>5. QED
        BY <2>1, <3>1, <4>2, <4>3, <4>4
    <3>2. CASE g # f
      BY <1>8, <2>1, <3>2 DEF IInv, FailuresTravelUp, Succeeded
    <3>3. QED
      BY <3>1, <3>2
  <2>2. ASSUME NEW g \in Files, evalResult'[g] = "value", NEW k \in DOMAIN module[g].reads
        PROVE  \E h \in Files : id[h] = module[g].reads[k] /\ evalResult'[h] = "value"
    <3>1. PICK h \in Files : id[h] = module[g].reads[k] /\ evalResult[h] = "value"
      BY <2>1, <2>2 DEF Succeeded
    <3>2. QED
      BY <1>8, <1>9, <3>1
  <2>3. QED
    BY <1>13, <2>2 DEF FailuresTravelUp
<1>24. QED
  BY <1>14, <1>15, <1>16, <1>17, <1>20, <1>21, <1>22, <1>23 DEF IInv

(* The line ends, by itself or by an exception.                             *)
LEMMA LineOverKeeps ==
  ASSUME IInv, Runs, reg.who = "line", reg' = Idle, throwing' = FALSE,
         UNCHANGED <<disk, line, known, registry, parsing, handler, saved,
                     evalResult, hasClosure, stopped, log>>
  PROVE  IInv'
<1>1. /\ Depth = 1 /\ Len(saved) = 0 /\ saved = <<>> /\ saved' = <<>> /\ parsing = <<>>
      /\ stopped = "no"
  <2>1. Depth = 1 /\ Len(saved) \in Nat /\ Depth = Len(saved) + 1
    BY FrameFacts DEF Depth
  <2>2. Len(saved) = 0
    BY <2>1
  <2>3. saved = <<>>
    BY <2>2, EmptySeq DEF IInv, TypeOK
  <2>4. QED
    BY <2>1, <2>2, <2>3 DEF Runs
<1>2. Depth' = 1 /\ Frame(1)' = Idle /\ Len(saved') = 0
  BY <1>1 DEF Depth, Frame
<1>3. NextId' = NextId /\ RegistryInv' /\ ParsersInv' /\ IncludesInv'
  BY RunsRest
<1>4. TypeOK'
  <2>1. Idle \in Regs
    BY DEF Idle, Regs, Whos
  <2>2. QED
    BY <2>1 DEF IInv, TypeOK, registry
<1>5. InnermostHandles'
  BY <1>1 DEF InnermostHandles, Idle
<1>6. FramesInv'
  <2>1. reg'.who = "prompt" /\ Idle.todo = <<>> /\ Len(Frame(1)'.todo) = 0
    BY <1>2 DEF Idle
  <2>2. QED
    BY <1>1, <1>2, <2>1 DEF FramesInv
<1>7. RunInv'
  BY <1>2 DEF RunInv
<1>8. OnceInv'
  BY <1>1, <1>2 DEF IInv, OnceInv, registry
<1>9. FailedInv'
  BY <1>1 DEF IInv, FailedInv, FirstUseIsSafe, Idle
<1>10. FailuresTravelUp'
  BY DEF IInv, FailuresTravelUp, registry
<1>11. QED
  BY <1>3, <1>4, <1>5, <1>6, <1>7, <1>8, <1>9, <1>10 DEF IInv

(* The line has read all it had to read.                                    *)
LEMMA LineEndsKeeps ==
  ASSUME IInv, LineEnds
  PROVE  IInv'
<1>1. throwing' = FALSE
  BY DEF LineEnds, IInv, TypeOK
<1>2. QED
  BY <1>1, LineOverKeeps DEF LineEnds

(* The run of a module ends.                                                *)
LEMMA BodyEndsKeeps ==
  ASSUME IInv, BodyEnds
  PROVE  IInv'
<1>1. /\ Runs /\ reg.who \in Files /\ AfterRecurse /\ reg.todo = <<>>
      /\ throwing = FALSE /\ throwing' = FALSE
      /\ evalResult' = [evalResult EXCEPT ![reg.who] = "value"]
      /\ hasClosure' = [hasClosure EXCEPT ![reg.who] = TRUE] /\ log' = log
      /\ UNCHANGED <<disk, line, known, registry, parsing, stopped>>
  BY DEF BodyEnds, KeepClosure, IInv, TypeOK
<1>2. "value" \in Results \ {"none"}
  BY DEF Results
<1>3. QED
  BY <1>1, <1>2, AfterRecurseKeeps

(* The run of a module stops at a breakpoint.                               *)
LEMMA BodyBreaksKeeps ==
  ASSUME IInv, BodyBreaks
  PROVE  IInv'
<1>1. /\ Runs /\ reg.who \in Files /\ AfterRecurse /\ throwing' = TRUE
      /\ evalResult' = [evalResult EXCEPT ![reg.who] = "break"]
      /\ hasClosure' = hasClosure /\ log' = [log EXCEPT ![reg.who].failedOn = line]
      /\ UNCHANGED <<disk, line, known, registry, parsing, stopped>>
  BY DEF BodyBreaks
<1>2. "break" \in Results \ {"none"} /\ "break" # "value"
  BY DEF Results
<1>3. QED
  BY <1>1, <1>2, AfterRecurseKeeps

(* An exception ends the innermost run, whose continuation it reaches.      *)
LEMMA ThrowKeeps ==
  ASSUME IInv, Throw
  PROVE  IInv'
<1>1. Runs /\ handler = reg.who /\ UNCHANGED <<disk, line, known, registry, parsing>>
  BY DEF Throw, Runs, IInv, InnermostHandles
<1>2. CASE reg.who = "line"
  <2>1. /\ reg' = Idle /\ throwing' = FALSE
        /\ UNCHANGED <<handler, saved, evalResult, hasClosure, stopped, log>>
    BY <1>1, <1>2 DEF Throw
  <2>2. QED
    BY <1>1, <1>2, <2>1, LineOverKeeps
<1>3. CASE reg.who # "line"
  <2>1. /\ AfterRecurse /\ throwing' = TRUE /\ UNCHANGED <<stopped, hasClosure>>
        /\ evalResult' = [evalResult EXCEPT ![reg.who] = "exception"]
        /\ log' = [log EXCEPT ![reg.who].failedOn = line]
    BY <1>1, <1>3 DEF Throw
  <2>2. reg.who \in Files
    BY <1>1, <1>3, FrameFacts
  <2>3. "exception" \in Results \ {"none"} /\ "exception" # "value"
    BY DEF Results
  <2>4. QED
    BY <1>1, <2>1, <2>2, <2>3, AfterRecurseKeeps
<1>4. QED
  BY <1>2, <1>3

-----------------------------------------------------------------------------
(* The invariant holds when the process starts.                             *)
LEMMA InitIInv == Init => IInv
<1> SUFFICES ASSUME Init  PROVE IInv
  OBVIOUS
<1>1. TypeOK
  <2>1. /\ disk \in [Files -> Contents] /\ line \in Nat /\ known \in SUBSET Files
        /\ id \in [Files -> Nat] /\ moduleArray \in Seq(Files \cup {"none"})
        /\ parsing \in Seq(Parsers) /\ saved \in Seq([reg : Regs, handler : Whos \cup {"none"}])
    BY DisksAssumption DEF Init
  <2>2. module \in [Files -> [loaded : BOOLEAN, reads : Seq(Nat)]]
    <3>1. [loaded |-> FALSE, reads |-> <<>>] \in [loaded : BOOLEAN, reads : Seq(Nat)]
      OBVIOUS
    <3>2. QED
      BY <3>1 DEF Init
  <2>3. reg \in Regs /\ handler \in Whos \cup {"none"}
    BY DEF Init, Idle, Regs, Whos
  <2>4. /\ throwing \in BOOLEAN /\ evalResult \in [Files -> Results]
        /\ stopped \in {"no", "abort", "stackOverflow", "nullClosure"}
        /\ hasClosure \in [Files -> BOOLEAN]
        /\ log \in [Files -> [parsed : Nat, run : Nat, failedOn : Nat]]
    BY DEF Init, Results
  <2>5. QED
    BY <2>1, <2>2, <2>3, <2>4 DEF TypeOK
<1>2. /\ saved = <<>> /\ Len(saved) = 0 /\ Depth = 1 /\ Len(parsing) = 0 /\ parsing = <<>>
      /\ Len(moduleArray) = 0 /\ Frame(1) = Idle /\ Numbered = {}
  BY DEF Init, Depth, Frame, Numbered
<1>3. NextId = 1
  BY <1>1, <1>2, NextIdFacts DEF TypeOK
<1>4. RegistryInv
  BY <1>2, <1>3 DEF RegistryInv, Init
<1>5. ParsersInv /\ InnermostHandles
  BY <1>2 DEF ParsersInv, InnermostHandles, Init, Idle
<1>6. IncludesInv
  BY <1>2 DEF IncludesInv, Init
<1>7. FramesInv
  <2>1. Idle.who = "prompt" /\ Idle.todo = <<>> /\ Len(Frame(1).todo) = 0
    BY <1>2 DEF Idle
  <2>2. QED
    BY <1>2, <2>1 DEF FramesInv, Init
<1>8. RunInv /\ OnceInv /\ FailedInv /\ FailuresTravelUp
  BY <1>2 DEF RunInv, OnceInv, FailedInv, FirstUseIsSafe, FailuresTravelUp, Init
<1>9. QED
  BY <1>1, <1>4, <1>5, <1>6, <1>7, <1>8 DEF IInv

(* It is about the variables alone.                                         *)
LEMMA StutterKeeps == IInv /\ UNCHANGED vars => IInv'
<1> SUFFICES ASSUME IInv, UNCHANGED vars  PROVE IInv'
  OBVIOUS
<1> USE DEF vars, registry, machine
<1>1. TypeOK'
  BY DEF IInv, TypeOK
<1>2. NextId' = NextId /\ Depth' = Depth /\ Numbered' = Numbered
  BY DEF NextId, Depth, Numbered
<1>3. \A k : /\ Frame(k)' = Frame(k) /\ (Succeeded(k)' <=> Succeeded(k))
             /\ Leads(k)' = Leads(k) /\ (Circular(k)' <=> Circular(k)) /\ Includes(k)' = Includes(k)
  BY DEF Frame, Succeeded, Leads, Circular, Includes, Closed
<1>4. RegistryInv'
  BY <1>2 DEF IInv, RegistryInv
<1>5. ParsersInv'
  BY <1>2 DEF IInv, ParsersInv
<1>6. IncludesInv'
  <2>1. ASSUME NEW k \in 2 .. Len(parsing)
        PROVE  (/\ disk[parsing[k].who].readable
                /\ \A j \in 1 .. Len(parsing[k].rest) : parsing[k].rest[j] \in Includes(parsing[k].who)
                /\ \A j \in 2 .. k - 1 : parsing[k].who \in Leads(parsing[j].who)
                /\ id[parsing[k].who] # 0 => Circular(parsing[k].who))'
    <3>1. /\ disk[parsing[k].who].readable
          /\ \A j \in 1 .. Len(parsing[k].rest) : parsing[k].rest[j] \in Includes(parsing[k].who)
          /\ \A j \in 2 .. k - 1 : parsing[k].who \in Leads(parsing[j].who)
          /\ id[parsing[k].who] # 0 => Circular(parsing[k].who)
      BY DEF IInv, IncludesInv
    <3>2. Includes(parsing[k].who)' = Includes(parsing[k].who)
      BY DEF Includes
    <3>3. Circular(parsing[k].who)' <=> Circular(parsing[k].who)
      BY DEF Circular, Leads, Includes, Closed
    <3>4. \A j \in 2 .. k - 1 : Leads(parsing[j].who)' = Leads(parsing[j].who)
      BY DEF Leads, Includes, Closed
    <3>5. parsing' = parsing /\ disk' = disk /\ id' = id
      OBVIOUS
    <3>. QED
      BY ONLY <3>1, <3>2, <3>3, <3>4, <3>5
  <2>2. \A f \in Files :
          /\ log[f].parsed > 0 => id[f] # 0 \/ \E k \in 2 .. Len(parsing) : parsing[k].who = f
          /\ log[f].parsed > 1 => Circular(f)'
    BY <1>3 DEF IInv, IncludesInv
  <2>3. \/ stopped = "abort"
        \/ stopped = "stackOverflow" /\ Cardinality(Files) < MaxDepth
        => \E f \in Files : Circular(f)'
    BY <1>3 DEF IInv, IncludesInv
  <2>4. QED
    BY <2>1, <2>2, <2>3 DEF IncludesInv
<1>7. InnermostHandles' /\ FailuresTravelUp'
  BY DEF IInv, InnermostHandles, FailuresTravelUp
<1>8. FramesInv'
  BY <1>2, <1>3 DEF IInv, FramesInv, Slot
<1>9. RunInv'
  BY <1>2, <1>3 DEF IInv, RunInv, Consumed
<1>10. OnceInv'
  BY <1>2, <1>3 DEF IInv, OnceInv
<1>11. FailedInv'
  BY DEF IInv, FailedInv, FirstUseIsSafe, Asked, Slot
<1>12. QED
  BY <1>1, <1>4, <1>5, <1>6, <1>7, <1>8, <1>9, <1>10, <1>11 DEF IInv

(* Every step keeps it.                                                     *)
LEMMA NextIInv == IInv /\ [Next]_vars => IInv'
<1> SUFFICES ASSUME IInv, [Next]_vars  PROVE IInv'
  OBVIOUS
<1>1. CASE UNCHANGED vars
  BY <1>1, StutterKeeps
<1>2. CASE Next
  <2>1. CASE Quit
    BY <2>1, StutterKeeps DEF Quit
  <2>2. CASE Work
    BY <2>2, IncludeKnownKeeps, IncludeUnreadableKeeps, IncludeNewKeeps, FileParsedKeeps,
       LineParsedKeeps, LdIncludeKeeps, InitModuleKeeps, BodyEndsKeeps, BodyBreaksKeeps,
       ThrowKeeps, LineEndsKeeps DEF Work
  <2>3. CASE \E f \in Files, renamed \in BOOLEAN : TypeLine(f, renamed)
    BY <2>3, TypeLineKeeps
  <2>4. QED
    BY <1>2, <2>1, <2>2, <2>3 DEF Next
<1>3. QED
  BY <1>1, <1>2

(* What is said of numbers, parsers and runs together is invariant.         *)
THEOREM ModulesIInv == Spec => []IInv
<1>1. Init => IInv
  BY InitIInv
<1>2. IInv /\ [Next]_vars => IInv'
  BY NextIInv
<1>3. QED
  BY <1>1, <1>2, PTL DEF Spec

(* Whoever includes a module, on however many lines, and however it ends:   *)
(* it is run once.  It is parsed again, or registered twice, only if its    *)
(* includes come back to it.                                                *)
THEOREM RunOnce == Spec => []OnceUnlessCircular
<1>1. IInv => OnceUnlessCircular
  BY DEF IInv, OnceInv, IncludesInv, OnceUnlessCircular
<1>2. QED
  BY <1>1, ModulesIInv, PTL

(* A module whose run ended read only from modules whose runs ended,        *)
(* whatever the files include and wherever a run breaks off.                *)
THEOREM NoFailureLost == Spec => []FailuresTravelUp
<1>1. IInv => FailuresTravelUp
  BY DEF IInv
<1>2. QED
  BY <1>1, ModulesIInv, PTL

(* However deep the modules run in one another, the current exception       *)
(* continuation is that of the innermost, and each of the saved ones that   *)
(* of the frame it was saved with.                                          *)
THEOREM HandlersInStep == Spec => []InnermostHandles
<1>1. IInv => InnermostHandles
  BY DEF IInv
<1>2. QED
  BY <1>1, ModulesIInv, PTL

(* A module is read without a closure only if it failed on an earlier line. *)
THEOREM FirstUseSafe == Spec => []FirstUseIsSafe
<1>1. IInv => FirstUseIsSafe
  BY DEF IInv, FailedInv
<1>2. QED
  BY <1>1, ModulesIInv, PTL
=============================================================================
