------------------------- MODULE SkbSessionsProofs --------------------------
(***************************************************************************)
(* What a client is told is true, for any number of servers and commands,  *)
(* any lines and any faults.                                               *)
(***************************************************************************)
EXTENDS SkbSessions, FiniteSetTheorems, NaturalsInduction, TLAPS

USE StoreAssumption, SessionAssumption

Starting == {"off", "load", "read", "failed"}
AfterLearning == {"save", "saved", "unsaved"} \union SaveLabels
Label == Starting \union AfterLearning \union {"loaded", "reply", "ended"}

Texts(made) == {Empty, Torn} \union {Text(state) : state \in SUBSET made}

\* What p has learned, and all that was ever learned.
LearnedBy(p) == {i \in Requests(p) : Learns(lines[p][i])}
Made == {l \in Learning : l[2] \in LearnedBy(l[1])}

-----------------------------------------------------------------------------
(* The inductive invariant.                                                *)

Names ==
  /\ active \in Object \union {None} /\ tmp \in Object \union {None}
  /\ active = tmp => active = None
  /\ handle \in [Process -> Object \union {None}]
  /\ \A p \in Process : handle[p] # None <=> At(p, "write")
  /\ faults \in 0 .. MaxFaults

Answers == [id : 1 .. MaxLines, kind : ReplyKinds,
            results : {Results(line) : line \in Line} \union {<<>>}]

Channels ==
  /\ lines \in [Process -> Seq(Line)]
  /\ \A p \in Process : Len(lines[p]) <= MaxLines
  /\ replies \in [Process -> Seq(Answers)]
  /\ pc \in [Process -> Label]

\* Memory and files hold nothing but what some session has learned.
NothingInvented ==
  /\ mem \in [Process -> SUBSET Made]
  /\ file \in [Object -> Texts(Made)]

RepliedTo(p) == {r.id : r \in Range(replies[p])}

\* Where a session is tells which requests it has replied to.
Session(p) ==
  /\ pc[p] \in Starting => lines[p] = <<>> /\ replies[p] = <<>>
  /\ RepliedTo(p) \subseteq Requests(p)
  /\ At(p, "loaded") => RepliedTo(p) = Requests(p)
  /\ pc[p] \in AfterLearning \union {"reply"} =>
       Number(p) \in Requests(p) /\ RepliedTo(p) = Requests(p) \ {Number(p)}
  /\ pc[p] \in AfterLearning => Learns(lines[p][Number(p)])
  /\ At(p, "reply") => ~Learns(lines[p][Number(p)])
  /\ \A i, j \in 1 .. Len(replies[p]) : i < j => replies[p][i].id < replies[p][j].id

Rightly(r, line) == Outcome(line) = "ok" /\ r.results = Results(line)

\* Each reply is the right one, and what was learned stays in memory.
Truth(p) ==
  /\ \A i \in LearnedBy(p) : <<p, i>> \in mem[p]
  /\ \A r \in Range(replies[p]) :
       /\ Learns(lines[p][r.id]) => r.kind \in {"ok", "unsaved"}
       /\ r.kind = "ok" => Rightly(r, lines[p][r.id])

Sessions == \A p \in Process : Session(p) /\ Truth(p)

-----------------------------------------------------------------------------
(* Lemmas.                                                                 *)

\* There is always an object without a name or a handle for a temporary file.
LEMMA FreshIsFree ==
  ASSUME Names, tmp = None
  PROVE  Fresh \in Object \ Used
<1> DEFINE Held == {handle[p] : p \in Process}
<1> DEFINE N == Cardinality(Process)
<1>1. N \in Nat
  BY FS_CardinalityType
<1>2. IsFiniteSet(Held) /\ Cardinality(Held) <= N
  <2> DEFINE f == [p \in Process |-> handle[p]]
  <2>1. f \in Surjection(Process, Held)
    BY DEF Surjection
  <2> HIDE DEF f, Held
  <2> QED
    BY <2>1, FS_Surjection
<1>3. IsFiniteSet(Held \union {active}) /\ Cardinality(Held \union {active}) <= N + 1
  <2> HIDE DEF Held
  <2>1. Cardinality(Held) \in Nat
    BY <1>2, FS_CardinalityType
  <2>2. /\ IsFiniteSet(Held \union {active})
        /\ Cardinality(Held \union {active}) =
             IF active \in Held THEN Cardinality(Held) ELSE Cardinality(Held) + 1
    BY <1>2, FS_AddElement
  <2> HIDE DEF N
  <2> QED
    BY <1>1, <1>2, <2>1, <2>2
<1>4. Cardinality(Object) = N + 2
  BY <1>1, FS_Interval DEF Object
<1>5. ~(Object \subseteq Held \union {active})
  <2> SUFFICES ASSUME Object \subseteq Held \union {active} PROVE FALSE
    OBVIOUS
  <2>1. Cardinality(Object) <= Cardinality(Held \union {active})
    BY <1>3, FS_Subset
  <2>2. Cardinality(Held \union {active}) \in Nat
    BY <1>3, FS_CardinalityType
  <2> QED
    BY <1>1, <1>3, <1>4, <2>1, <2>2
<1>6. Object \ Used # {}
  BY <1>1, <1>5 DEF Used, Object, None
<1>7. \E o \in Object \ Used : \A other \in Object \ Used : o <= other
  <2> DEFINE S == Object \ Used
  <2>1. S \subseteq Nat
    BY <1>1 DEF Object
  <2>2. IsWellFoundedOn(OpToRel(<, Nat), Nat)
    BY NatLessThanWellFounded
  <2>3. PICK o \in S : \A other \in S : ~ (<<other, o>> \in OpToRel(<, Nat))
    <3> HIDE DEF S
    <3> QED
      BY <1>6, <2>1, <2>2, WFMin DEF S
  <2>4. \A other \in S : ~(other < o)
    BY <2>1, <2>3 DEF OpToRel
  <2> QED
    BY <2>1, <2>4
<1> QED
  BY <1>7 DEF Fresh

-----------------------------------------------------------------------------
(* The files and who has them open.                                        *)

LEMMA NamesInit ==
  Init => Names
BY DEF Init, StoreInit, Names, None, At

\* The actions that open, rename and remove.
LEMMA NamesStore ==
  ASSUME Names, Channels, NEW p \in Process, StoreStep(p)
  PROVE  Names'
<1> USE DEF Names, Channels, At, Goto
<1>0. None \notin Object
  BY DEF None, Object
<1>1. CASE LoadExists(p) \/ Read(p) \/ ActiveExists(p)
  BY <1>1 DEF LoadExists, Read, ActiveExists
<1>2. CASE OpenTmp(p)
  <2>1. PICK o \in Object : tmp' = o /\ handle' = [handle EXCEPT ![p] = o] /\ o # active
    <3>1. CASE tmp = None
      BY <1>2, <3>1, FreshIsFree DEF OpenTmp, Used
    <3>2. CASE tmp # None
      BY <1>2, <3>2 DEF OpenTmp
    <3> QED
      BY <3>1, <3>2
  <2> QED
    BY <1>0, <1>2, <2>1 DEF OpenTmp
<1>3. CASE WriteTmp(p)
  BY <1>3 DEF WriteTmp
<1>4. CASE RenameTmp(p)
  BY <1>4 DEF RenameTmp
<1>5. CASE RemoveActive(p)
  BY <1>5 DEF RemoveActive
<1>6. CASE CallFails(p)
  <2>1. OnFailure[pc[p]] # "write"
    BY <1>6 DEF CallFails, OnFailure
  <2>2. faults' \in 0 .. MaxFaults
    BY <1>6 DEF CallFails
  <2> QED
    BY <1>6, <2>1, <2>2 DEF CallFails, Fail
<1>7. CASE CallFindsNothing(p)
  <2>1. OnFailure[pc[p]] # "write" /\ pc[p] # "write"
    BY <1>7 DEF CallFindsNothing, OnFailure
  <2> QED
    BY <1>7, <2>1 DEF CallFindsNothing, Fail
<1> QED
  BY <1>1, <1>2, <1>3, <1>4, <1>5, <1>6, <1>7 DEF StoreStep

LEMMA NamesStep ==
  ASSUME Names, Channels, [Next]_vars
  PROVE  Names'
<1> USE DEF Names, Channels, At, Goto
<1>1. CASE UNCHANGED vars
  BY <1>1 DEF vars, storeVars
<1>2. CASE PowerLoss
  BY <1>2 DEF PowerLoss
<1>3. ASSUME NEW p \in Process, StoreStep(p)
      PROVE  Names'
  BY <1>3, NamesStore
<1>4. ASSUME NEW p \in Process, Kill(p) \/ ReplyFails(p)
      PROVE  Names'
  <2>1. faults' \in 0 .. MaxFaults
    BY <1>4 DEF Kill, ReplyFails
  <2> QED
    BY <1>4, <2>1 DEF Kill, ReplyFails
<1>5. ASSUME NEW p \in Process, Start(p) \/ StartFails(p) \/ Reply(p) \/ EndOfInput(p)
      PROVE  Names'
  BY <1>5 DEF Start, StartFails, Reply, EndOfInput
<1>6. ASSUME NEW p \in Process, NEW line \in Line, ServeLine(p, line) \/ FindOnce(p, line)
      PROVE  Names'
  BY <1>6 DEF ServeLine, FindOnce, Obey
<1> QED
  BY <1>1, <1>2, <1>3, <1>4, <1>5, <1>6 DEF Next

-----------------------------------------------------------------------------
(* Reading a line.                                                         *)

Takes(p, line) ==
  /\ At(p, "loaded") /\ Number(p) < MaxLines
  /\ lines' = [lines EXCEPT ![p] = Append(@, line)]
  /\ IF line.form = "request" THEN Obey(p, line) ELSE UNCHANGED <<mem, pc>>
  /\ UNCHANGED <<file, replies>>

LEMMA BothTake ==
  ASSUME NEW p \in Process, NEW line \in Line, Channels,
         ServeLine(p, line) \/ FindOnce(p, line)
  PROVE  Takes(p, line)
<1>1. CASE ServeLine(p, line)
  BY <1>1 DEF ServeLine, Takes
<1>2. CASE FindOnce(p, line)
  <2>1. lines[p] = <<>> /\ <<line>> = Append(<<>>, line)
    BY <1>2 DEF FindOnce
  <2>2. Number(p) < MaxLines
    BY <2>1 DEF Number
  <2> QED
    BY <1>2, <2>1, <2>2 DEF FindOnce, Takes
<1> QED
  BY <1>1, <1>2

\* The line is the last one of p, and all others stay.
LEMMA LineTaken ==
  ASSUME NEW p \in Process, NEW line \in Line, Channels, Takes(p, line)
  PROVE  LET n == Number(p) + 1
             here == IF line.form = "request" THEN {n} ELSE {}
         IN  /\ Number(p)' = n /\ n \in 1 .. MaxLines
             /\ lines'[p][n] = line
             /\ \A i \in 1 .. Number(p) : lines'[p][i] = lines[p][i]
             /\ \A q \in Process \ {p} : lines'[q] = lines[q]
             /\ Requests(p)' = Requests(p) \union here
             /\ LearnedBy(p)' = LearnedBy(p) \union {i \in here : Learns(line)}
<1> DEFINE n == Number(p) + 1
<1>1. lines[p] \in Seq(Line) /\ lines'[p] = Append(lines[p], line)
  BY DEF Channels, Takes
<1>2. Number(p) \in Nat /\ Number(p)' = n /\ n \in 1 .. MaxLines
  BY <1>1 DEF Takes, Number
<1>3. lines'[p][n] = line /\ \A i \in 1 .. Number(p) : lines'[p][i] = lines[p][i]
  BY <1>1 DEF Number
<1>4. \A q \in Process \ {p} : lines'[q] = lines[q]
  BY DEF Takes, Channels
<1>5. Requests(p)' = Requests(p) \union (IF line.form = "request" THEN {n} ELSE {})
  <2> HIDE DEF Number
  <2> QED
    BY <1>2, <1>3 DEF Requests
<1>6. LearnedBy(p)' = LearnedBy(p) \union
        {i \in (IF line.form = "request" THEN {n} ELSE {}) : Learns(line)}
  <2>1. Requests(p) \subseteq 1 .. Number(p)
    BY DEF Requests
  <2> HIDE DEF Requests, Number, Learns
  <2> QED
    BY <1>2, <1>3, <1>5, <2>1 DEF LearnedBy
<1> HIDE DEF Number, Requests, LearnedBy
<1> QED
  BY <1>2, <1>3, <1>4, <1>5, <1>6

-----------------------------------------------------------------------------
(* Nothing is invented.                                                    *)

LEMMA MadeKept ==
  ASSUME UNCHANGED lines
  PROVE  Made' = Made
BY DEF Made, LearnedBy, Requests, Number

LEMMA MadeGrows ==
  ASSUME NEW p \in Process, NEW line \in Line, Channels, Takes(p, line)
  PROVE  /\ Made \subseteq Made'
         /\ \A i \in LearnedBy(p)' : <<p, i>> \in Made'
<1>1. LearnedBy(p) \subseteq LearnedBy(p)'
  BY LineTaken
<1>2. \A q \in Process \ {p} : LearnedBy(q)' = LearnedBy(q)
  <2>1. \A q \in Process \ {p} : lines'[q] = lines[q]
    BY LineTaken
  <2> QED
    BY <2>1 DEF LearnedBy, Requests, Number
<1>3. LearnedBy(p)' \subseteq 1 .. MaxLines
  BY LineTaken DEF LearnedBy, Requests
<1> QED
  BY <1>1, <1>2, <1>3 DEF Made

\* The texts that the actions write.
LEMMA TextsOf ==
  ASSUME NEW made
  PROVE  /\ Empty \in Texts(made) /\ Torn \in Texts(made)
         /\ \A state \in SUBSET made : Text(state) \in Texts(made)
         /\ \A t \in Texts(made) : t.text = "whole" => t.state \in SUBSET made
<1>1. Empty.text # "whole" /\ Torn.text # "whole"
  BY DEF Empty, Torn
<1>2. \A state : Text(state).state = state
  BY DEF Text
<1>3. \A t \in Texts(made) : t.text = "whole" => \E state \in SUBSET made : t = Text(state)
  BY <1>1 DEF Texts
<1>4. \A t \in Texts(made) : t.text = "whole" => t.state \in SUBSET made
  BY <1>2, <1>3
<1> QED
  BY <1>4 DEF Texts

LEMMA InventedInit ==
  Init => NothingInvented
BY TextsOf DEF Init, StoreInit, NothingInvented

LEMMA InventedStore ==
  ASSUME Names, Channels, NothingInvented, NEW p \in Process, StoreStep(p), UNCHANGED lines
  PROVE  NothingInvented'
<1>1. Made' = Made
  BY MadeKept
<1> SUFFICES mem' \in [Process -> SUBSET Made] /\ file' \in [Object -> Texts(Made)]
  BY <1>1 DEF NothingInvented
<1> USE TextsOf DEF NothingInvented
<1>2. CASE Read(p)
  <2>1. active \in Object
    BY <1>2 DEF Read, Names
  <2>2. CASE Readable(active)
    <3>1. Stored \in SUBSET Made
      BY <2>1, <2>2 DEF Readable, Stored
    <3> QED
      BY <1>2, <2>2, <3>1 DEF Read
  <2>3. CASE ~Readable(active)
    BY <1>2, <2>3 DEF Read
  <2> QED
    BY <2>2, <2>3
<1>3. CASE OpenTmp(p)
  BY <1>3 DEF OpenTmp, Truncated
<1>4. CASE WriteTmp(p)
  <2>1. Text(mem[p]) \in Texts(Made)
    OBVIOUS
  <2>2. PICK text \in Texts(Made) : file' = [file EXCEPT ![handle[p]] = text]
    BY <1>4, <2>1 DEF WriteTmp
  <2> QED
    BY <1>4, <2>2 DEF WriteTmp
<1>5. CASE RenameTmp(p) \/ RemoveActive(p)
  BY <1>5 DEF RenameTmp, RemoveActive
<1>6. CASE CallFails(p)
  BY <1>6 DEF CallFails
<1>7. CASE LoadExists(p) \/ ActiveExists(p) \/ CallFindsNothing(p)
  BY <1>7 DEF LoadExists, ActiveExists, CallFindsNothing
<1> QED
  BY <1>2, <1>3, <1>4, <1>5, <1>6, <1>7 DEF StoreStep

LEMMA InventedStep ==
  ASSUME Names, Channels, NothingInvented, [Next]_vars
  PROVE  NothingInvented'
<1> USE TextsOf DEF NothingInvented
<1>1. CASE UNCHANGED vars
  BY <1>1, MadeKept DEF vars, storeVars
<1>2. CASE PowerLoss /\ UNCHANGED lines
  BY <1>2, MadeKept DEF PowerLoss
<1>3. ASSUME NEW p \in Process, StoreStep(p), UNCHANGED lines
      PROVE  NothingInvented'
  BY <1>3, InventedStore
<1>4. ASSUME NEW p \in Process, Kill(p), UNCHANGED lines
      PROVE  NothingInvented'
  BY <1>4, MadeKept DEF Kill
<1>5. ASSUME NEW p \in Process,
             Start(p) \/ StartFails(p) \/ Reply(p) \/ ReplyFails(p) \/ EndOfInput(p)
      PROVE  NothingInvented'
  BY <1>5, MadeKept DEF Start, StartFails, Reply, ReplyFails, EndOfInput
<1>6. ASSUME NEW p \in Process, NEW line \in Line, ServeLine(p, line) \/ FindOnce(p, line)
      PROVE  NothingInvented'
  <2>1. Takes(p, line)
    BY <1>6, BothTake
  <2>2. Made \subseteq Made' /\ \A i \in LearnedBy(p)' : <<p, i>> \in Made'
    BY <2>1, MadeGrows
  <2>3. file' \in [Object -> Texts(Made')]
    BY <2>1, <2>2 DEF Takes, Texts
  <2>4. CASE UNCHANGED mem
    BY <2>2, <2>3, <2>4
  <2>5. CASE line.form = "request" /\ Learns(line)
    <3>1. mem' = [mem EXCEPT ![p] = @ \union {<<p, Number(p)'>>}]
      BY <2>1, <2>5 DEF Takes, Obey, Number
    <3>2. Number(p)' \in LearnedBy(p)'
      BY <2>1, <2>5, LineTaken
    <3> QED
      BY <2>2, <2>3, <3>1, <3>2
  <2> QED
    BY <2>1, <2>4, <2>5 DEF Takes, Obey
<1> QED
  BY <1>1, <1>2, <1>3, <1>4, <1>5, <1>6 DEF Next

-----------------------------------------------------------------------------
(* Where a session may go.                                                 *)

\* Steps that neither read a line nor reply.
Moves(from, to) ==
  \/ to \in {from, "ended"}
  \/ from \in Starting /\ to \in Starting \union {"loaded"}
  \/ from \in AfterLearning /\ to \in AfterLearning

LEMMA StoreMoves ==
  ASSUME Channels, NEW p \in Process, StoreStep(p)
  PROVE  \E to \in Label : Moves(pc[p], to) /\ pc' = [pc EXCEPT ![p] = to]
<1> USE DEF Goto, At, Label, Starting, AfterLearning, SaveLabels, Moves
<1>1. CASE LoadExists(p) \/ Read(p)
  BY <1>1 DEF LoadExists, Read
<1>2. CASE OpenTmp(p) \/ WriteTmp(p) \/ RenameTmp(p) \/ ActiveExists(p) \/ RemoveActive(p)
  BY <1>2 DEF OpenTmp, WriteTmp, RenameTmp, ActiveExists, RemoveActive
<1>3. CASE CallFails(p) \/ CallFindsNothing(p)
  <2>1. pc[p] \in DOMAIN OnFailure /\ pc' = [pc EXCEPT ![p] = OnFailure[pc[p]]]
    BY <1>3 DEF CallFails, CallFindsNothing, Fail, OnFailure
  <2>2. \A label \in DOMAIN OnFailure :
          OnFailure[label] \in Label /\ Moves(label, OnFailure[label])
    BY DEF OnFailure
  <2> QED
    BY <2>1, <2>2
<1> QED
  BY <1>1, <1>2, <1>3 DEF StoreStep

\* A step that takes a line and a reply step are the other two kinds.
QuietStep ==
  /\ UNCHANGED <<lines, replies>>
  /\ pc' \in [Process -> Label]
  /\ \A q \in Process : Moves(pc[q], pc'[q])
  /\ \A q \in Process : mem'[q] = mem[q] \/ pc[q] \in Starting

LEMMA StepKinds ==
  ASSUME Channels, NothingInvented, [Next]_vars
  PROVE  \/ QuietStep
         \/ \E p \in Process : Reply(p)
         \/ \E p \in Process, line \in Line : Takes(p, line)
<1> USE DEF Goto, At, Channels, Moves
<1>1. CASE UNCHANGED vars
  BY <1>1 DEF vars, storeVars, QuietStep
<1>2. CASE PowerLoss /\ UNCHANGED <<lines, replies>>
  BY <1>2 DEF PowerLoss, QuietStep, Label, Starting
<1>3. ASSUME NEW p \in Process, StoreStep(p), UNCHANGED <<lines, replies>>
      PROVE  QuietStep
  <2>1. PICK to \in Label : Moves(pc[p], to) /\ pc' = [pc EXCEPT ![p] = to]
    BY <1>3, StoreMoves
  <2>2. pc' \in [Process -> Label] /\ \A q \in Process : Moves(pc[q], pc'[q])
    BY <2>1
  <2>3. \A q \in Process : mem'[q] = mem[q] \/ pc[q] \in Starting
    BY <1>3 DEF NothingInvented, StoreStep, LoadExists, Read, OpenTmp, WriteTmp, RenameTmp,
       ActiveExists, RemoveActive, CallFails, CallFindsNothing, Fail, Starting
  <2> QED
    BY <1>3, <2>2, <2>3 DEF QuietStep
<1>4. ASSUME NEW p \in Process, Kill(p), UNCHANGED <<lines, replies>>
      PROVE  QuietStep
  BY <1>4 DEF Kill, QuietStep, Label
<1>5. ASSUME NEW p \in Process, Start(p) \/ StartFails(p) \/ ReplyFails(p) \/ EndOfInput(p)
      PROVE  QuietStep
  BY <1>5 DEF Start, StartFails, ReplyFails, EndOfInput, QuietStep, Label, Starting
<1> QED
  BY <1>1, <1>2, <1>3, <1>4, <1>5, BothTake DEF Next

-----------------------------------------------------------------------------
(* Types of what is read and written.                                      *)

LEMMA ChannelsInit ==
  Init => Channels
BY DEF Init, StoreInit, Channels, Label, Starting

\* What a reply is made of.
LEMMA ReplyIsAnswer ==
  ASSUME NEW p \in Process, Channels, Session(p), Reply(p)
  PROVE  \E r \in Answers :
           /\ replies' = [replies EXCEPT ![p] = Append(@, r)]
           /\ r.id = Number(p) /\ r.id \in Requests(p)
           /\ r.kind = ReplyKind(p)
           /\ r.kind = "ok" => Rightly(r, lines[p][r.id])
<1> DEFINE n == Number(p)
           line == lines[p][n]
           results == IF ReplyKind(p) = "ok" THEN Results(line) ELSE <<>>
           reply == [id |-> n, kind |-> ReplyKind(p), results |-> results]
<1>1. replies' = [replies EXCEPT ![p] = Append(@, reply)]
  BY DEF Reply
<1>2. n \in Requests(p)
  BY DEF Reply, Session, AfterLearning
<1>3. n \in 1 .. MaxLines /\ line \in Line
  BY <1>2 DEF Requests, Channels, Number
<1>4. ReplyKind(p) \in ReplyKinds
  BY DEF ReplyKind, ReplyKinds, Outcome
<1>5. reply \in Answers
  BY <1>3, <1>4 DEF Answers
<1>6. reply.id = n /\ reply.kind = ReplyKind(p) /\ reply.results = results
  OBVIOUS
<1>7. reply.kind = "ok" => Rightly(reply, line)
  BY <1>6 DEF Rightly, ReplyKind
<1> HIDE DEF reply
<1> QED
  BY <1>1, <1>2, <1>5, <1>6, <1>7

LEMMA ChannelsStep ==
  ASSUME Channels, NothingInvented, Sessions, [Next]_vars
  PROVE  Channels'
<1>1. CASE QuietStep
  BY <1>1 DEF QuietStep, Channels
<1>2. ASSUME NEW p \in Process, Reply(p)
      PROVE  Channels'
  <2>1. PICK r \in Answers : replies' = [replies EXCEPT ![p] = Append(@, r)]
    BY <1>2, ReplyIsAnswer DEF Sessions
  <2>2. replies' \in [Process -> Seq(Answers)]
    BY <2>1 DEF Channels
  <2>3. pc' \in [Process -> Label]
    BY <1>2 DEF Reply, Goto, Channels, Label
  <2> QED
    BY <1>2, <2>2, <2>3 DEF Reply, Channels
<1>3. ASSUME NEW p \in Process, NEW line \in Line, Takes(p, line)
      PROVE  Channels'
  <2>1. lines' \in [Process -> Seq(Line)]
    BY <1>3 DEF Takes, Channels
  <2>2. \A q \in Process : Len(lines'[q]) <= MaxLines
    <3>1. Number(p)' <= MaxLines /\ \A q \in Process \ {p} : lines'[q] = lines[q]
      BY <1>3, LineTaken
    <3> QED
      BY <3>1 DEF Channels, Number
  <2>3. pc' \in [Process -> Label]
    BY <1>3 DEF Takes, Obey, Goto, Channels, Label, AfterLearning
  <2> QED
    BY <1>3, <2>1, <2>2, <2>3 DEF Takes, Channels
<1> QED
  BY <1>1, <1>2, <1>3, StepKinds

-----------------------------------------------------------------------------
(* Sessions answer what they were asked.                                   *)

LEMMA SessionsInit ==
  Init => Sessions
BY DEF Init, StoreInit, Sessions, Session, Truth, RepliedTo, Requests, LearnedBy, Number,
   Starting, AfterLearning, SaveLabels, At, Range

\* All sessions keep during a quiet step, and all others during any step.
LEMMA QuietKeeps ==
  ASSUME NEW q \in Process, Session(q), Truth(q),
         lines'[q] = lines[q], replies'[q] = replies[q],
         Moves(pc[q], pc'[q]), mem'[q] = mem[q] \/ pc[q] \in Starting
  PROVE  Session(q)' /\ Truth(q)'
<1>1. Number(q)' = Number(q) /\ Requests(q)' = Requests(q)
  BY DEF Number, Requests
<1>2. LearnedBy(q)' = LearnedBy(q) /\ RepliedTo(q)' = RepliedTo(q)
  BY <1>1 DEF LearnedBy, RepliedTo
<1>3. pc[q] \in Starting => /\ Requests(q) = {} /\ LearnedBy(q) = {}
                            /\ RepliedTo(q) = {} /\ Range(replies[q]) = {}
  BY DEF Session, Requests, Number, LearnedBy, RepliedTo, Range
<1>4. Session(q)'
  <2> HIDE DEF Number, Requests, RepliedTo
  <2>1. CASE pc'[q] \in {pc[q], "ended"}
    BY <1>1, <1>2, <2>1 DEF Session, At, Starting, AfterLearning, SaveLabels
  <2>2. CASE pc[q] \in Starting /\ pc'[q] \in Starting \union {"loaded"}
    BY <1>1, <1>2, <1>3, <2>2 DEF Session, At, Starting, AfterLearning, SaveLabels
  <2>3. CASE pc[q] \in AfterLearning /\ pc'[q] \in AfterLearning
    BY <1>1, <1>2, <2>3 DEF Session, At, Starting, AfterLearning, SaveLabels
  <2> QED
    BY <2>1, <2>2, <2>3 DEF Moves
<1>5. Truth(q)'
  <2> HIDE DEF LearnedBy
  <2>1. CASE mem'[q] = mem[q]
    BY <1>2, <2>1 DEF Truth
  <2>2. CASE pc[q] \in Starting
    BY <1>2, <1>3, <2>2 DEF Truth
  <2> QED
    BY <2>1, <2>2
<1> QED
  BY <1>4, <1>5

LEMMA TakesKeeps ==
  ASSUME NEW p \in Process, NEW line \in Line, Channels, NothingInvented, Takes(p, line),
         Session(p), Truth(p)
  PROVE  Session(p)' /\ Truth(p)'
<1> DEFINE n == Number(p) + 1
<1>1. /\ Number(p)' = n /\ n \in 1 .. MaxLines /\ lines'[p][n] = line
      /\ \A i \in 1 .. Number(p) : lines'[p][i] = lines[p][i]
  BY LineTaken
<1>2. Requests(p)' = Requests(p) \union (IF line.form = "request" THEN {n} ELSE {})
  BY LineTaken
<1>3. LearnedBy(p)' = LearnedBy(p) \union
        {i \in (IF line.form = "request" THEN {n} ELSE {}) : Learns(line)}
  BY LineTaken
<1>4. RepliedTo(p) = Requests(p) /\ RepliedTo(p)' = RepliedTo(p) /\ replies'[p] = replies[p]
  BY DEF Takes, Session, At, RepliedTo
<1>5. Requests(p) \subseteq 1 .. Number(p)
  BY DEF Requests
<1>6. Number(p) \in Nat
  BY DEF Number, Channels
<1>7. pc'[p] = IF line.form # "request" THEN "loaded" ELSE IF Learns(line) THEN "save" ELSE "reply"
  BY DEF Takes, Obey, Goto, At, Channels
<1>8. mem'[p] = IF line.form = "request" /\ Learns(line)
                THEN mem[p] \union {<<p, n>>} ELSE mem[p]
  BY <1>1 DEF Takes, Obey, NothingInvented, Number
<1> HIDE DEF n
<1>9. Session(p)'
  <2>1. pc'[p] \notin Starting
    BY <1>7 DEF Starting
  <2>2. RepliedTo(p)' \subseteq Requests(p)' /\ (At(p, "loaded")' => RepliedTo(p)' = Requests(p)')
    BY <1>2, <1>4, <1>7 DEF At
  <2>3. pc'[p] \in AfterLearning \union {"reply"} =>
          Number(p)' \in Requests(p)' /\ RepliedTo(p)' = Requests(p)' \ {Number(p)'}
    <3>1. n \notin Requests(p)
      BY <1>1, <1>5, <1>6 DEF n
    <3>2. pc'[p] \in AfterLearning \union {"reply"} => line.form = "request"
      BY <1>7 DEF AfterLearning, SaveLabels
    <3> QED
      BY <1>1, <1>2, <1>4, <3>1, <3>2
  <2>4. /\ pc'[p] \in AfterLearning => Learns(lines'[p][Number(p)'])
        /\ At(p, "reply")' => ~Learns(lines'[p][Number(p)'])
    BY <1>1, <1>7 DEF AfterLearning, SaveLabels, At
  <2>5. \A i, j \in 1 .. Len(replies'[p]) : i < j => replies'[p][i].id < replies'[p][j].id
    BY <1>4 DEF Session
  <2> QED
    BY <2>1, <2>2, <2>3, <2>4, <2>5 DEF Session
<1>10. Truth(p)'
  <2>1. \A i \in LearnedBy(p)' : <<p, i>> \in mem'[p]
    BY <1>3, <1>8 DEF Truth
  <2>2. \A r \in Range(replies'[p]) : lines'[p][r.id] = lines[p][r.id]
    BY <1>1, <1>4, <1>5 DEF RepliedTo
  <2> QED
    BY <1>4, <2>1, <2>2 DEF Truth
<1> QED
  BY <1>9, <1>10

LEMMA RangeOfAppend ==
  ASSUME NEW S, NEW seq \in Seq(S), NEW e \in S
  PROVE  Range(Append(seq, e)) = Range(seq) \union {e}
<1>1. DOMAIN Append(seq, e) = DOMAIN seq \union {Len(seq) + 1}
  OBVIOUS
<1>2. \A i \in DOMAIN seq : Append(seq, e)[i] = seq[i]
  OBVIOUS
<1>3. Append(seq, e)[Len(seq) + 1] = e
  OBVIOUS
<1> QED
  BY <1>1, <1>2, <1>3, Zenon DEF Range

\* The kind of a reply is an error of the save only if the request learned.
LEMMA KindIsRight ==
  ASSUME NEW p \in Process, Session(p), Reply(p)
  PROVE  Learns(lines[p][Number(p)]) => ReplyKind(p) \in {"ok", "unsaved"}
BY DEF ReplyKind, Outcome, Learns, PlainMethod

LEMMA ReplyKeeps ==
  ASSUME NEW p \in Process, Channels, Session(p), Truth(p), Reply(p)
  PROVE  Session(p)' /\ Truth(p)'
<1> DEFINE n == Number(p)
<1>1. PICK r \in Answers :
        /\ replies' = [replies EXCEPT ![p] = Append(@, r)]
        /\ r.id = n /\ r.id \in Requests(p)
        /\ r.kind = ReplyKind(p)
        /\ r.kind = "ok" => Rightly(r, lines[p][r.id])
  BY ReplyIsAnswer
<1>2. replies[p] \in Seq(Answers) /\ replies'[p] = Append(replies[p], r)
  BY <1>1 DEF Channels
<1>3. Range(replies'[p]) = Range(replies[p]) \union {r}
  BY <1>2, RangeOfAppend
<1>4. /\ lines'[p] = lines[p] /\ mem'[p] = mem[p]
      /\ Number(p)' = n /\ Requests(p)' = Requests(p) /\ LearnedBy(p)' = LearnedBy(p)
  BY DEF Reply, Number, Requests, LearnedBy
<1>5. RepliedTo(p) = Requests(p) \ {n}
  BY DEF Reply, Session, AfterLearning
<1>6. RepliedTo(p)' = Requests(p)
  BY <1>1, <1>3, <1>5 DEF RepliedTo
<1>7. pc'[p] \in {"loaded", "ended"}
  BY DEF Reply, Goto, Channels
<1>8. Session(p)'
  <2>1. \A i, j \in 1 .. Len(replies'[p]) : i < j => replies'[p][i].id < replies'[p][j].id
    <3> DEFINE l == Len(replies[p])
    <3>1. /\ l \in Nat /\ Len(replies'[p]) = l + 1 /\ replies'[p][l + 1] = r
          /\ \A i \in 1 .. l : replies'[p][i] = replies[p][i]
      BY <1>2
    <3>2. \A i \in 1 .. l : replies[p][i] \in Range(replies[p])
      BY <1>2 DEF Range
    <3>3. \A i \in 1 .. l : replies[p][i].id \in Requests(p) \ {n}
      BY <1>5, <3>2 DEF RepliedTo
    <3>4. \A k \in Requests(p) \ {n} : k < n
      BY DEF Requests, Number, Channels
    <3>5. \A i \in 1 .. l : replies[p][i].id < r.id
      BY <1>1, <3>3, <3>4
    <3>6. \A i, j \in 1 .. l : i < j => replies[p][i].id < replies[p][j].id
      BY DEF Session
    <3>7. SUFFICES ASSUME NEW i \in 1 .. l + 1, NEW j \in 1 .. l + 1, i < j
                   PROVE  replies'[p][i].id < replies'[p][j].id
      BY <3>1
    <3>8. i \in 1 .. l
      BY <3>1, <3>7
    <3> HIDE DEF l
    <3>9. CASE j = l + 1
      BY <3>1, <3>5, <3>8, <3>9
    <3>10. CASE j \in 1 .. l
      BY <3>1, <3>6, <3>7, <3>8, <3>10
    <3> QED
      BY <3>1, <3>9, <3>10
  <2> HIDE DEF n
  <2> QED
    BY <1>4, <1>6, <1>7, <2>1 DEF Session, At, Starting, AfterLearning, SaveLabels
<1>9. Truth(p)'
  <2>1. Learns(lines[p][n]) => r.kind \in {"ok", "unsaved"}
    BY <1>1, KindIsRight
  <2> QED
    BY <1>1, <1>3, <1>4, <2>1 DEF Truth
<1> QED
  BY <1>8, <1>9

LEMMA SessionsStep ==
  ASSUME Channels, NothingInvented, Sessions, [Next]_vars
  PROVE  Sessions'
<1> SUFFICES ASSUME NEW q \in Process
             PROVE  Session(q)' /\ Truth(q)'
  BY DEF Sessions
<1>0. Session(q) /\ Truth(q)
  BY DEF Sessions
<1>1. CASE QuietStep
  BY <1>0, <1>1, QuietKeeps DEF QuietStep
<1>2. ASSUME NEW p \in Process, Reply(p)
      PROVE  Session(q)' /\ Truth(q)'
  <2>1. CASE q = p
    BY <1>0, <1>2, <2>1, ReplyKeeps
  <2>2. CASE q # p
    <3>1. lines'[q] = lines[q] /\ replies'[q] = replies[q] /\ pc'[q] = pc[q] /\ mem'[q] = mem[q]
      BY <1>2, <2>2 DEF Reply, Goto, Channels
    <3> QED
      BY <1>0, <3>1, QuietKeeps DEF Moves
  <2> QED
    BY <2>1, <2>2
<1>3. ASSUME NEW p \in Process, NEW line \in Line, Takes(p, line)
      PROVE  Session(q)' /\ Truth(q)'
  <2>1. CASE q = p
    BY <1>0, <1>3, <2>1, TakesKeeps
  <2>2. CASE q # p
    <3>1. lines'[q] = lines[q] /\ replies'[q] = replies[q] /\ pc'[q] = pc[q] /\ mem'[q] = mem[q]
      BY <1>3, <2>2 DEF Takes, Obey, Goto, Channels, NothingInvented
    <3> QED
      BY <1>0, <3>1, QuietKeeps DEF Moves
  <2> QED
    BY <2>1, <2>2
<1> QED
  BY <1>1, <1>2, <1>3, StepKinds

-----------------------------------------------------------------------------
(* A loss is reported.  A save that has begun needs a temporary file of    *)
(* its own to rename: once two saves share one, one of them must fail.     *)

OnlySaving(p) == Saving(p) /\ \A q \in Process \ {p} : ~Saving(q)

\* The temporary file is that of p and has, or is about to get, a whole text.
OwnsTmp(p) ==
  /\ At(p, "write") => handle[p] = tmp /\ file[tmp] = Empty
  /\ ~At(p, "write") => Readable(tmp)

NothingSaved == \A p \in Process : ~At(p, "saved") /\ Answered(p) = {}

Losses ==
  /\ solo \in [Process -> BOOLEAN] /\ blame \in BOOLEAN
  /\ \A p \in Process : solo[p] => OnlySaving(p) /\ tmp # None /\ OwnsTmp(p)
  /\ ~blame =>
       /\ tmp # None => \E p \in Process : Saving(p)
       /\ \A p \in Process : OnlySaving(p) /\ tmp # None => OwnsTmp(p)
       /\ (\A p \in Process : ~Saving(p)) => Readable(active) \/ NothingSaved

LEMMA LossesInit ==
  Init => Losses
<1> SUFFICES ASSUME Init PROVE Losses
  OBVIOUS
<1>1. \A p \in Process : ~Saving(p) /\ ~At(p, "saved")
  BY DEF Init, StoreInit, Saving, SaveLabels, At
<1>2. \A p \in Process : Answered(p) = {}
  BY DEF Init, Answered, Number
<1> QED
  BY <1>1, <1>2 DEF Init, StoreInit, Losses, NothingSaved

LEMMA AnsweredKept ==
  ASSUME UNCHANGED <<lines, replies>>, NEW p
  PROVE  Answered(p)' = Answered(p)
BY DEF Answered, Number

\* The steps of a process that neither touch files nor enter or leave a save.
LEMMA LossesQuiet ==
  ASSUME Losses, UNCHANGED <<file, active, tmp, handle, solo, blame>>,
         \A p \in Process : \/ pc'[p] = pc[p]
                            \/ ~Saving(p) /\ ~Saving(p)'
                            \/ /\ pc[p] \in SaveLabels \ {"write"}
                               /\ pc'[p] \in SaveLabels \ {"write"},
         NothingSaved => NothingSaved'
  PROVE  Losses'
<1>1. \A p \in Process : /\ Saving(p)' <=> Saving(p)
                         /\ At(p, "write")' <=> At(p, "write")
  BY DEF Saving, SaveLabels, At
<1>2. \A p \in Process : /\ OnlySaving(p)' <=> OnlySaving(p)
                         /\ OwnsTmp(p)' <=> OwnsTmp(p)
  BY <1>1 DEF OnlySaving, OwnsTmp, Readable
<1> QED
  BY <1>1, <1>2 DEF Losses, Readable

\* A step that a save does not survive.
Abandons(p, to) ==
  /\ UNCHANGED <<active, tmp, lines, replies>>
  /\ pc' = [pc EXCEPT ![p] = to]
  /\ solo' = [solo EXCEPT ![p] = FALSE]
  /\ blame' = (blame \/ Saving(p)) \/ blame' = TRUE
  /\ UNCHANGED file \/ At(p, "write")
  /\ handle' = [handle EXCEPT ![p] = None]

LEMMA LossesEnd ==
  ASSUME Names, Channels, Losses, NEW p \in Process, NEW to \in {"unsaved", "ended"},
         Abandons(p, to)
  PROVE  Losses'
<1> USE DEF Abandons
<1>1. /\ ~Saving(p)' /\ ~At(p, "saved")'
      /\ \A q \in Process \ {p} : pc'[q] = pc[q] /\ handle'[q] = handle[q]
  BY DEF Saving, SaveLabels, Channels, At, Names
<1>2. solo' \in [Process -> BOOLEAN] /\ blame' \in BOOLEAN
  BY DEF Losses
<1>3. ASSUME NEW q \in Process, solo'[q]
      PROVE  OnlySaving(q)' /\ tmp' # None /\ OwnsTmp(q)'
  <2>0. solo[q] => Saving(q)
    BY DEF Losses, OnlySaving
  <2>1. solo[q] /\ q # p
    BY <1>3, <2>0 DEF Losses
  <2>2. OnlySaving(q) /\ tmp # None /\ OwnsTmp(q) /\ ~Saving(p)
    BY <2>1 DEF Losses, OnlySaving
  <2>3. UNCHANGED file
    BY <2>2 DEF Saving, SaveLabels, At
  <2> QED
    BY <1>1, <2>1, <2>2, <2>3 DEF OnlySaving, OwnsTmp, Saving, At, Readable
<1>4. ASSUME ~blame'
      PROVE  /\ tmp' # None => \E q \in Process : Saving(q)'
             /\ \A q \in Process : OnlySaving(q)' /\ tmp' # None => OwnsTmp(q)'
             /\ (\A q \in Process : ~Saving(q)') => Readable(active)' \/ NothingSaved'
  <2>1. ~blame /\ ~Saving(p)
    BY <1>4
  <2>2. UNCHANGED file
    BY <2>1 DEF Saving, SaveLabels, At
  <2>3. \A q \in Process : Saving(q)' <=> Saving(q)
    BY <1>1, <2>1 DEF Saving
  <2>4. \A q \in Process : OnlySaving(q)' <=> OnlySaving(q)
    BY <2>3 DEF OnlySaving
  <2>5. \A q \in Process : OnlySaving(q) => (OwnsTmp(q)' <=> OwnsTmp(q))
    BY <1>1, <2>1, <2>2 DEF OwnsTmp, At, Readable, OnlySaving
  <2>6. NothingSaved => NothingSaved'
    <3>1. \A q \in Process : Answered(q)' = Answered(q)
      BY AnsweredKept
    <3>2. \A q \in Process : ~At(q, "saved") => ~At(q, "saved")'
      BY <1>1 DEF At
    <3> QED
      BY <3>1, <3>2 DEF NothingSaved
  <2> QED
    BY <2>1, <2>2, <2>3, <2>4, <2>5, <2>6 DEF Losses, Readable
<1> QED
  BY <1>2, <1>3, <1>4 DEF Losses

LEMMA LossesOpen ==
  ASSUME Names, Channels, NothingInvented, Losses, NEW p \in Process, OpenTmp(p)
  PROVE  Losses'
<1>1. /\ pc'[p] = "write" /\ Saving(p)' /\ ~Saving(p)
      /\ \A q \in Process \ {p} : pc'[q] = pc[q]
  BY DEF OpenTmp, Goto, At, Channels, Saving, SaveLabels
<1>2. tmp' \in Object /\ handle'[p] = tmp' /\ file' = [file EXCEPT ![tmp'] = Empty]
  <2>1. CASE tmp = None
    BY <2>1, FreshIsFree DEF OpenTmp, Names, Truncated
  <2>2. CASE tmp # None
    BY <2>2 DEF OpenTmp, Names, Truncated
  <2> QED
    BY <2>1, <2>2
<1>3. tmp' # None /\ OwnsTmp(p)'
  BY <1>1, <1>2 DEF OwnsTmp, At, NothingInvented, None, Object
<1>4. \A q \in Process : OnlySaving(q)' => q = p /\ \A other \in Process : ~Saving(other)
  BY <1>1 DEF OnlySaving, Saving
<1>5. \A q \in Process : solo'[q] => q = p /\ OnlySaving(p)'
  BY <1>1 DEF OpenTmp, OnlySaving, Saving
<1>6. solo' \in [Process -> BOOLEAN] /\ blame' \in BOOLEAN
  BY DEF OpenTmp, Losses
<1> QED
  BY <1>1, <1>3, <1>4, <1>5, <1>6 DEF Losses

LEMMA LossesWrite ==
  ASSUME Names, Channels, NothingInvented, Losses, NEW p \in Process, WriteTmp(p)
  PROVE  Losses'
<1>1. /\ pc[p] = "write" /\ pc'[p] = "rename" /\ Saving(p)' /\ Saving(p)
      /\ \A q \in Process \ {p} : pc'[q] = pc[q]
  BY DEF WriteTmp, Goto, At, Channels, Saving, SaveLabels
<1>2. \A q \in Process : Saving(q)' <=> Saving(q)
  BY <1>1 DEF Saving
<1>3. \A q \in Process : OnlySaving(q)' <=> OnlySaving(q)
  BY <1>2 DEF OnlySaving
<1>4. \A q \in Process : OnlySaving(q) => q = p
  BY <1>1 DEF OnlySaving
<1>5. OwnsTmp(p) /\ tmp # None => OwnsTmp(p)'
  <2> SUFFICES ASSUME OwnsTmp(p), tmp # None
               PROVE  OwnsTmp(p)'
    OBVIOUS
  <2>1. handle[p] = tmp /\ file[tmp] = Empty /\ tmp \in Object
    BY <1>1 DEF OwnsTmp, At, Names
  <2>2. file' = [file EXCEPT ![tmp] = Text(mem[p])]
    BY <2>1 DEF WriteTmp
  <2>3. file'[tmp'] = Text(mem[p]) /\ tmp' # None
    BY <2>1, <2>2 DEF WriteTmp, NothingInvented
  <2> QED
    BY <1>1, <2>3 DEF OwnsTmp, Readable, At, Text
<1> QED
  BY <1>1, <1>2, <1>3, <1>4, <1>5 DEF Losses, WriteTmp

LEMMA LossesRename ==
  ASSUME Names, Channels, NothingInvented, Losses, NEW p \in Process, RenameTmp(p)
  PROVE  Losses'
<1>1. /\ pc[p] # "write" /\ ~Saving(p)' /\ Saving(p)
      /\ \A q \in Process \ {p} : pc'[q] = pc[q]
  BY DEF RenameTmp, Goto, At, Channels, Saving, SaveLabels
<1>2. \A q \in Process : ~solo'[q]
  BY <1>1 DEF RenameTmp, Losses, OnlySaving
<1>3. solo' \in [Process -> BOOLEAN] /\ blame' \in BOOLEAN
  BY DEF RenameTmp, Losses
<1>4. ASSUME ~blame', \A q \in Process : ~Saving(q)'
      PROVE  Readable(active)'
  <2>1. OnlySaving(p)
    BY <1>1, <1>4 DEF OnlySaving, Saving
  <2>2. OwnsTmp(p)
    BY <1>4, <2>1 DEF RenameTmp, Losses
  <2>3. Readable(tmp) /\ active # tmp
    BY <1>1, <2>2 DEF OwnsTmp, At, RenameTmp, Names
  <2>4. active' = tmp /\ file'[tmp] = file[tmp]
    BY <2>3 DEF RenameTmp, NothingInvented, Names
  <2> QED
    BY <2>3, <2>4 DEF Readable
<1> QED
  BY <1>2, <1>3, <1>4 DEF Losses, RenameTmp

LEMMA LossesRemove ==
  ASSUME Names, Channels, NothingInvented, Losses, NEW p \in Process, RemoveActive(p)
  PROVE  Losses'
<1>1. /\ pc[p] = "remove" /\ pc'[p] = "retry" /\ Saving(p)' /\ Saving(p)
      /\ \A q \in Process \ {p} : pc'[q] = pc[q]
  BY DEF RemoveActive, Goto, At, Channels, Saving, SaveLabels
<1>2. \A q \in Process : Saving(q)' <=> Saving(q)
  BY <1>1 DEF Saving
<1>3. \A q \in Process : OnlySaving(q)' <=> OnlySaving(q)
  BY <1>2 DEF OnlySaving
<1>4. \A q \in Process : OnlySaving(q) => q = p
  BY <1>1 DEF OnlySaving
<1>5. OwnsTmp(p) => OwnsTmp(p)'
  <2>1. active # tmp
    BY DEF RemoveActive, Names
  <2>2. tmp' = tmp /\ (tmp # None => file'[tmp] = file[tmp])
    BY <2>1 DEF RemoveActive, NothingInvented, Names
  <2> QED
    BY <1>1, <2>2 DEF OwnsTmp, Readable, At
<1> QED
  BY <1>1, <1>2, <1>3, <1>4, <1>5 DEF Losses, RemoveActive

\* A failing call of a save either goes on with the fallback or ends it.
LEMMA LossesFail ==
  ASSUME Names, Channels, Losses, NEW p \in Process, UNCHANGED <<lines, replies>>,
         CallFails(p) \/ CallFindsNothing(p)
  PROVE  Losses'
<1>1. pc[p] \in DOMAIN OnFailure /\ Fail(p) /\ UNCHANGED <<active, tmp>>
  BY DEF CallFails, CallFindsNothing, OnFailure
<1>2. handle' = [handle EXCEPT ![p] = None]
  <2>1. CASE CallFails(p)
    BY <2>1 DEF CallFails
  <2>2. CASE CallFindsNothing(p)
    BY <2>2 DEF CallFindsNothing, Names, At
  <2> QED
    BY <2>1, <2>2
<1>3. pc' = [pc EXCEPT ![p] = OnFailure[pc[p]]]
  BY <1>1 DEF Fail, Goto
<1>4. CASE pc[p] \in {"read", "rename", "remove"}
  <2>1. UNCHANGED <<file, handle>>
    BY <1>2, <1>4 DEF CallFails, CallFindsNothing, At, Names
  <2>2. OnFailure[pc[p]] # "unsaved" /\ OnFailure[pc[p]] \in {"failed", "exists", "retry"}
    BY <1>4 DEF OnFailure
  <2>3. UNCHANGED <<solo, blame>>
    BY <1>1, <2>2 DEF Fail, Losses
  <2>4. \A q \in Process : \/ pc'[q] = pc[q]
                           \/ ~Saving(q) /\ ~Saving(q)'
                           \/ /\ pc[q] \in SaveLabels \ {"write"}
                              /\ pc'[q] \in SaveLabels \ {"write"}
    BY <1>3, <1>4, <2>2 DEF Channels, OnFailure, Saving, SaveLabels
  <2>5. \A q \in Process : Answered(q)' = Answered(q)
    BY AnsweredKept
  <2>6. NothingSaved => NothingSaved'
    BY <1>3, <2>2, <2>5 DEF NothingSaved, At, Channels
  <2> QED
    BY <1>1, <2>1, <2>3, <2>4, <2>6, LossesQuiet
<1>5. CASE pc[p] \in {"save", "write", "retry"}
  <2>1. OnFailure[pc[p]] = "unsaved"
    BY <1>5 DEF OnFailure
  <2>2. solo' = [solo EXCEPT ![p] = FALSE] /\ blame' = TRUE
    BY <1>1, <2>1 DEF Fail, Losses
  <2>3. UNCHANGED file \/ At(p, "write")
    BY DEF CallFails, CallFindsNothing
  <2>4. Abandons(p, "unsaved")
    BY <1>1, <1>2, <1>3, <2>1, <2>2, <2>3 DEF Abandons
  <2> QED
    BY <2>4, LossesEnd
<1> QED
  BY <1>1, <1>4, <1>5 DEF OnFailure

\* A reply adds to the answered learnings only after a save that succeeded.
LEMMA AnsweredByReply ==
  ASSUME NEW p \in Process, Channels, Session(p), Reply(p)
  PROVE  Answered(p)' = Answered(p) \union (IF At(p, "saved") THEN {Number(p)} ELSE {})
<1>1. PICK r \in Answers :
        /\ replies' = [replies EXCEPT ![p] = Append(@, r)]
        /\ r.id = Number(p) /\ r.id \in Requests(p)
        /\ r.kind = ReplyKind(p)
  BY ReplyIsAnswer
<1>2. Range(replies'[p]) = Range(replies[p]) \union {r}
  BY <1>1, RangeOfAppend DEF Channels
<1>3. Learns(lines[p][Number(p)]) /\ r.kind = "ok" <=> At(p, "saved")
  <2>1. At(p, "saved") => Learns(lines[p][Number(p)]) /\ r.kind = "ok"
    BY <1>1 DEF Session, AfterLearning, At, ReplyKind, Outcome, Learns, PlainMethod
  <2>2. At(p, "unsaved") => r.kind # "ok"
    BY <1>1 DEF ReplyKind, At
  <2>3. At(p, "reply") => ~Learns(lines[p][Number(p)])
    BY DEF Session
  <2> QED
    BY <2>1, <2>2, <2>3 DEF Reply, At
<1>4. Number(p) \in 1 .. Number(p) /\ lines' = lines /\ Number(p)' = Number(p)
  BY <1>1 DEF Requests, Reply, Number
<1>5. ASSUME NEW i
      PROVE  i \in Answered(p)' <=> i \in Answered(p) \/ (i = Number(p) /\ At(p, "saved"))
  <2>1. i \in Answered(p)' <=> /\ i \in 1 .. Number(p) /\ Learns(lines[p][i])
                              /\ \E e \in Range(replies'[p]) : e.id = i /\ e.kind = "ok"
    BY <1>4 DEF Answered
  <2>2. (\E e \in Range(replies'[p]) : e.id = i /\ e.kind = "ok")
          <=> \/ \E e \in Range(replies[p]) : e.id = i /\ e.kind = "ok"
              \/ i = Number(p) /\ r.kind = "ok"
    BY <1>1, <1>2
  <2> QED
    BY <1>3, <1>4, <2>1, <2>2 DEF Answered
<1> QED
  BY <1>5

LEMMA AnsweredByTaking ==
  ASSUME NEW p \in Process, NEW line \in Line, Channels, Session(p), Takes(p, line)
  PROVE  Answered(p)' = Answered(p)
<1>1. /\ Number(p)' = Number(p) + 1
      /\ \A i \in 1 .. Number(p) : lines'[p][i] = lines[p][i]
  BY LineTaken
<1>2. replies' = replies
  BY DEF Takes
<1>3. \A r \in Range(replies[p]) : r.id \in 1 .. Number(p)
  BY DEF Session, RepliedTo, Requests
<1>4. Number(p) \in Nat
  BY DEF Number, Channels
<1> HIDE DEF Number
<1> QED
  BY <1>1, <1>2, <1>3, <1>4 DEF Answered

LEMMA LossesStep ==
  ASSUME Names, Channels, NothingInvented, Sessions, Losses, [Next]_vars
  PROVE  Losses'
<1> USE DEF Channels, Saving, SaveLabels, At, Goto
<1>1. CASE UNCHANGED vars
  <2>1. \A q \in Process : Answered(q)' = Answered(q)
    BY <1>1, AnsweredKept DEF vars
  <2> QED
    BY <1>1, <2>1, LossesQuiet DEF vars, storeVars, NothingSaved
<1>2. CASE PowerLoss
  BY <1>2 DEF PowerLoss, Losses
<1>3. ASSUME NEW p \in Process, StoreStep(p), UNCHANGED <<lines, replies>>
      PROVE  Losses'
  <2>1. \A q \in Process : Answered(q)' = Answered(q)
    BY <1>3, AnsweredKept
  <2>2. CASE LoadExists(p) \/ Read(p) \/ ActiveExists(p)
    BY <2>1, <2>2, LossesQuiet DEF LoadExists, Read, ActiveExists, NothingSaved
  <2> QED
    BY <1>3, <2>2, LossesOpen, LossesWrite, LossesRename, LossesRemove, LossesFail
       DEF StoreStep
<1>4. ASSUME NEW p \in Process, Kill(p), UNCHANGED <<lines, replies>>
      PROVE  Losses'
  <2>1. Abandons(p, "ended")
    BY <1>4 DEF Kill, Abandons
  <2> QED
    BY <2>1, LossesEnd
<1>5. ASSUME NEW p \in Process, Start(p) \/ StartFails(p) \/ ReplyFails(p) \/ EndOfInput(p)
      PROVE  Losses'
  <2>1. \A q \in Process : Answered(q)' = Answered(q)
    BY <1>5, AnsweredKept DEF Start, StartFails, ReplyFails, EndOfInput
  <2> QED
    BY <1>5, <2>1, LossesQuiet DEF Start, StartFails, ReplyFails, EndOfInput, NothingSaved
<1>6. ASSUME NEW p \in Process, Reply(p)
      PROVE  Losses'
  <2>1. \A q \in Process \ {p} : Answered(q)' = Answered(q)
    BY <1>6 DEF Reply, Answered, Number
  <2>2. ~At(p, "saved") => Answered(p)' = Answered(p)
    BY <1>6, AnsweredByReply DEF Sessions
  <2>3. NothingSaved => NothingSaved'
    BY <1>6, <2>1, <2>2 DEF NothingSaved, Reply
  <2> QED
    BY <1>6, <2>3, LossesQuiet DEF Reply
<1>7. ASSUME NEW p \in Process, NEW line \in Line, ServeLine(p, line) \/ FindOnce(p, line)
      PROVE  Losses'
  <2>1. Takes(p, line)
    BY <1>7, BothTake
  <2>2. \A q \in Process \ {p} : Answered(q)' = Answered(q)
    BY <2>1 DEF Takes, Answered, Number
  <2>3. Answered(p)' = Answered(p)
    BY <2>1, AnsweredByTaking DEF Sessions
  <2>4. NothingSaved => NothingSaved'
    BY <2>1, <2>2, <2>3 DEF NothingSaved, Takes, Obey
  <2> QED
    BY <1>7, <2>4, LossesQuiet DEF ServeLine, FindOnce, Obey
<1> QED
  BY <1>1, <1>2, <1>3, <1>4, <1>5, <1>6, <1>7 DEF Next

-----------------------------------------------------------------------------
(* A session that nobody joined.                                           *)

Synced(p) == Readable(active) /\ Stored = mem[p]
LastLearning(p, i) == \A j \in i + 1 .. MaxLines : <<p, j>> \notin mem[p]

Undisturbed(p) ==
  /\ \A q \in Process \ {p} : ~Running(q)
  /\ At(p, "write") => handle[p] = tmp /\ tmp # None /\ file[tmp] = Empty
  /\ pc[p] \in SaveLabels \ {"write"} => tmp # None /\ file[tmp] = Text(mem[p])
  /\ At(p, "saved") => Synced(p)
  /\ \A i \in Answered(p) : LastLearning(p, i) => Synced(p)

Solitude ==
  /\ alone \in [Process -> BOOLEAN]
  /\ \A p \in Process : alone[p] => Undisturbed(p)

LEMMA SolitudeInit ==
  Init => Solitude
BY DEF Init, Solitude

\* While the last learning is being saved no answered one is the last.
LEMMA NotTheLast ==
  ASSUME NEW p \in Process, Channels, Session(p), Truth(p), pc[p] \in AfterLearning,
         NEW i \in Answered(p)
  PROVE  ~LastLearning(p, i)
<1>1. i \in RepliedTo(p)
  BY DEF Answered, RepliedTo
<1>2. Number(p) \in Requests(p) /\ i \in Requests(p) \ {Number(p)}
  BY <1>1 DEF Session
<1>3. <<p, Number(p)>> \in mem[p]
  BY <1>2 DEF Session, Truth, LearnedBy
<1>4. Number(p) \in i + 1 .. MaxLines
  BY <1>2 DEF Requests, Number, Channels
<1> QED
  BY <1>3, <1>4 DEF LastLearning

\* The steps of p while it saves.
LEMMA SolitudeSave ==
  ASSUME NEW p \in Process, Names, Channels, NothingInvented, Session(p), Truth(p),
         Undisturbed(p), StoreStep(p), pc[p] \in AfterLearning, UNCHANGED <<lines, replies>>
  PROVE  Undisturbed(p)'
<1> USE DEF Goto, At, Channels, SaveLabels, AfterLearning, NothingInvented
<1>1. UNCHANGED mem /\ \A q \in Process \ {p} : pc'[q] = pc[q]
  BY DEF StoreStep, LoadExists, Read, OpenTmp, WriteTmp, RenameTmp, ActiveExists,
     RemoveActive, CallFails, CallFindsNothing, Fail
<1>2. \A i \in Answered(p)' : ~LastLearning(p, i)'
  BY <1>1, AnsweredKept, NotTheLast DEF LastLearning
<1>3. \A q \in Process \ {p} : ~Running(q)'
  BY <1>1 DEF Undisturbed, Running
<1> SUFFICES /\ pc'[p] = "write" => handle'[p] = tmp' /\ tmp' # None /\ file'[tmp'] = Empty
             /\ pc'[p] \in SaveLabels \ {"write"} => tmp' # None /\ file'[tmp'] = Text(mem[p])
             /\ pc'[p] = "saved" => Synced(p)'
  BY <1>1, <1>2, <1>3 DEF Undisturbed
<1>4. CASE OpenTmp(p)
  <2>1. tmp' \in Object
    BY <1>4, FreshIsFree DEF OpenTmp, Names
  <2> QED
    BY <1>4, <2>1 DEF OpenTmp, Truncated, Names, None, Object
<1>5. CASE WriteTmp(p)
  <2>1. handle[p] = tmp /\ tmp \in Object /\ file[tmp] = Empty
    BY <1>5 DEF WriteTmp, Undisturbed, Names
  <2>2. file' = [file EXCEPT ![tmp] = Text(mem[p])]
    BY <1>5, <2>1 DEF WriteTmp
  <2> QED
    BY <1>5, <2>1, <2>2 DEF WriteTmp, Undisturbed
<1>6. CASE RenameTmp(p)
  <2>1. file[tmp] = Text(mem[p]) /\ active # tmp
    BY <1>6 DEF RenameTmp, Undisturbed, Names
  <2>2. active' = tmp /\ file'[tmp] = Text(mem[p])
    BY <1>6, <2>1 DEF RenameTmp, Names
  <2>3. Text(mem[p]).text = "whole" /\ Text(mem[p]).state = mem[p]
    BY DEF Text
  <2>4. Synced(p)'
    BY <1>1, <1>6, <2>2, <2>3 DEF Synced, Readable, Stored, RenameTmp
  <2> QED
    BY <1>6, <2>4 DEF RenameTmp
<1>7. CASE RemoveActive(p)
  <2>1. tmp # None /\ file[tmp] = Text(mem[p]) /\ active # tmp
    BY <1>7 DEF RemoveActive, Undisturbed, Names
  <2> QED
    BY <1>7, <2>1 DEF RemoveActive, Names
<1>8. CASE ActiveExists(p)
  BY <1>8 DEF ActiveExists, Undisturbed
<1>9. CASE CallFails(p) \/ CallFindsNothing(p)
  <2>1. /\ pc'[p] \in {"failed", "unsaved", "exists", "retry"}
        /\ pc'[p] \in {"exists", "retry"} => pc[p] \in {"rename", "remove"}
    BY <1>9 DEF CallFails, CallFindsNothing, Fail, OnFailure
  <2>2. pc[p] \in {"rename", "remove"} => UNCHANGED <<tmp, file>>
    BY <1>9 DEF CallFails, CallFindsNothing
  <2> QED
    BY <2>1, <2>2 DEF Undisturbed
<1>10. ~LoadExists(p) /\ ~Read(p)
  BY DEF LoadExists, Read
<1> QED
  BY <1>4, <1>5, <1>6, <1>7, <1>8, <1>9, <1>10 DEF StoreStep

\* The steps of p that leave files and memory alone.
LEMMA SolitudeOutside ==
  ASSUME NEW p \in Process, Channels, Session(p), Undisturbed(p),
         \A q \in Process \ {p} : pc'[q] = pc[q],
         UNCHANGED <<file, active, mem>>,
         pc'[p] \notin SaveLabels \union {"saved"},
         Answered(p)' \subseteq Answered(p) \/ At(p, "saved")
  PROVE  Undisturbed(p)'
<1>1. \A q \in Process \ {p} : ~Running(q)'
  BY DEF Undisturbed, Running
<1>2. Synced(p) => Synced(p)'
  BY DEF Synced, Readable, Stored
<1>3. \A i : LastLearning(p, i)' => LastLearning(p, i)
  BY DEF LastLearning
<1>4. \A i \in Answered(p)' : LastLearning(p, i)' => Synced(p)'
  BY <1>2, <1>3 DEF Undisturbed
<1> QED
  BY <1>1, <1>4 DEF Undisturbed, At, SaveLabels

LEMMA SolitudeTaking ==
  ASSUME NEW p \in Process, NEW line \in Line, Channels, NothingInvented, Session(p),
         Undisturbed(p), Takes(p, line), UNCHANGED active
  PROVE  Undisturbed(p)'
<1>1. \A q \in Process \ {p} : pc'[q] = pc[q]
  BY DEF Takes, Obey, Goto, Channels
<1>2. pc'[p] \in {"loaded", "save", "reply"}
  BY DEF Takes, Obey, Goto, At, Channels
<1>3. Answered(p)' = Answered(p)
  BY AnsweredByTaking
<1>4. CASE UNCHANGED mem
  BY <1>1, <1>2, <1>3, <1>4, SolitudeOutside DEF Takes, SaveLabels
<1>5. CASE line.form = "request" /\ Learns(line)
  <2>1. Number(p)' = Number(p) + 1 /\ Number(p) + 1 \in 1 .. MaxLines
    BY LineTaken
  <2>2. <<p, Number(p) + 1>> \in mem'[p]
    BY <1>5, <2>1 DEF Takes, Obey, NothingInvented, Number
  <2>3. \A i \in Answered(p) : i \in 1 .. Number(p)
    BY DEF Answered
  <2>4. Number(p) \in Nat
    BY DEF Number, Channels
  <2>5. \A i \in Answered(p)' : ~LastLearning(p, i)'
    <3> SUFFICES ASSUME NEW i \in Answered(p)
                 PROVE  ~LastLearning(p, i)'
      BY <1>3
    <3>1. Number(p) + 1 \in i + 1 .. MaxLines
      BY <2>1, <2>3, <2>4
    <3> QED
      BY <2>2, <3>1 DEF LastLearning
  <2>6. \A q \in Process \ {p} : ~Running(q)'
    BY <1>1 DEF Undisturbed, Running
  <2> QED
    BY <1>2, <2>5, <2>6 DEF Undisturbed, At, SaveLabels
<1> QED
  BY <1>4, <1>5 DEF Takes, Obey

\* A step of any process but p begins by starting it.
LEMMA OthersStart ==
  ASSUME NEW p \in Process, NEW q \in Process \ {p}, Solitude, alone[p]
  PROVE  /\ ~StoreStep(q) /\ ~Kill(q) /\ ~StartFails(q) /\ ~Reply(q) /\ ~ReplyFails(q)
         /\ ~EndOfInput(q)
         /\ \A line \in Line : ~ServeLine(q, line) /\ ~FindOnce(q, line)
<1>1. pc[q] \in {"off", "ended"}
  BY DEF Solitude, Undisturbed, Running
<1>2. ~StoreStep(q)
  BY <1>1 DEF StoreStep, LoadExists, Read, OpenTmp, WriteTmp, RenameTmp, ActiveExists,
     RemoveActive, CallFails, CallFindsNothing, OnFailure, At
<1> QED
  BY <1>1, <1>2 DEF Kill, StartFails, Reply, ReplyFails, EndOfInput, ServeLine, FindOnce, At

LEMMA SolitudeOwn ==
  ASSUME NEW p \in Process, Names, Channels, NothingInvented, Session(p), Truth(p),
         Undisturbed(p),
         \/ (StoreStep(p) \/ Kill(p)) /\ UNCHANGED <<lines, replies>>
         \/ StartFails(p) \/ Reply(p) \/ ReplyFails(p) \/ EndOfInput(p)
         \/ \E line \in Line : ServeLine(p, line) \/ FindOnce(p, line)
  PROVE  Undisturbed(p)'
<1> USE DEF Goto, At, Channels, SaveLabels
<1>1. CASE StoreStep(p) /\ UNCHANGED <<lines, replies>>
  <2>1. CASE pc[p] \in AfterLearning
    BY <1>1, <2>1, SolitudeSave
  <2>2. CASE pc[p] \notin AfterLearning
    <3>1. pc[p] \in {"load", "read"}
      BY <1>1, <2>2 DEF AfterLearning, StoreStep, LoadExists, Read, OpenTmp, WriteTmp,
         RenameTmp, ActiveExists, RemoveActive, CallFails, CallFindsNothing, OnFailure
    <3>2. Answered(p) = {}
      BY <3>1 DEF Session, Starting, Answered, Number
    <3>3. Answered(p)' = {}
      BY <1>1, <3>2, AnsweredKept
    <3>4. pc'[p] \in {"loaded", "read", "failed"} /\ \A q \in Process \ {p} : pc'[q] = pc[q]
      BY <1>1, <3>1 DEF StoreStep, LoadExists, Read, OpenTmp, WriteTmp, RenameTmp,
         ActiveExists, RemoveActive, CallFails, CallFindsNothing, Fail, OnFailure
    <3> QED
      BY <3>3, <3>4 DEF Undisturbed, Running
  <2> QED
    BY <2>1, <2>2
<1>2. CASE Kill(p) /\ UNCHANGED <<lines, replies>>
  <2>1. pc'[p] = "ended" /\ \A q \in Process \ {p} : pc'[q] = pc[q]
    BY <1>2 DEF Kill
  <2>2. Answered(p)' = Answered(p)
    BY <1>2, AnsweredKept
  <2>3. CASE UNCHANGED file
    BY <1>2, <2>1, <2>2, <2>3, SolitudeOutside DEF Kill
  <2>4. CASE pc[p] = "write"
    <3>1. \A i \in Answered(p) : ~LastLearning(p, i)
      BY <2>4, NotTheLast DEF AfterLearning
    <3>2. \A i \in Answered(p)' : ~LastLearning(p, i)'
      BY <1>2, <2>2, <3>1 DEF Kill, LastLearning
    <3> QED
      BY <2>1, <3>2 DEF Undisturbed, Running
  <2> QED
    BY <1>2, <2>3, <2>4 DEF Kill
<1>3. CASE StartFails(p) \/ ReplyFails(p) \/ EndOfInput(p)
  <2>1. Answered(p)' = Answered(p)
    BY <1>3, AnsweredKept DEF StartFails, ReplyFails, EndOfInput
  <2> QED
    BY <1>3, <2>1, SolitudeOutside DEF StartFails, ReplyFails, EndOfInput
<1>4. CASE Reply(p)
  <2>1. Answered(p)' \subseteq Answered(p) \/ At(p, "saved")
    BY <1>4, AnsweredByReply
  <2> QED
    BY <1>4, <2>1, SolitudeOutside DEF Reply
<1>5. ASSUME NEW line \in Line, ServeLine(p, line) \/ FindOnce(p, line)
      PROVE  Undisturbed(p)'
  BY <1>5, BothTake, SolitudeTaking DEF ServeLine, FindOnce
<1> QED
  BY <1>1, <1>2, <1>3, <1>4, <1>5

LEMMA SolitudeStep ==
  ASSUME Names, Channels, NothingInvented, Sessions, Solitude, [Next]_vars
  PROVE  Solitude'
<1>1. CASE UNCHANGED vars
  BY <1>1 DEF vars, storeVars, Solitude, Undisturbed, Running, Synced, LastLearning, Readable,
     Stored, At, Answered, Number
<1>2. CASE PowerLoss /\ alone' = [p \in Process |-> FALSE]
  BY <1>2 DEF Solitude
<1>3. ASSUME NEW p \in Process, Start(p)
      PROVE  Solitude'
  <2>1. alone' \in [Process -> BOOLEAN] /\ \A q \in Process : alone'[q] => q = p
    BY <1>3 DEF Start
  <2>2. ASSUME alone'[p]
        PROVE  Undisturbed(p)'
    <3>1. \A q \in Process \ {p} : ~Running(q) /\ pc'[q] = pc[q]
      <4>1. \A q \in Process : ~Running(q)
        BY <1>3, <2>2 DEF Start
      <4>2. \A q \in Process \ {p} : pc'[q] = pc[q]
        BY <1>3 DEF Start, Goto, Channels
      <4> QED
        BY <4>1, <4>2
    <3>2. pc'[p] = "load"
      BY <1>3 DEF Start, Goto, Channels
    <3>3. Answered(p)' = {}
      <4>1. Answered(p) = {}
        BY <1>3 DEF Start, At, Sessions, Session, Starting, Answered, Number
      <4> QED
        BY <1>3, <4>1, AnsweredKept DEF Start
    <3> QED
      BY <3>1, <3>2, <3>3 DEF Undisturbed, Running, At, SaveLabels
  <2> QED
    BY <2>1, <2>2 DEF Solitude
<1>4. ASSUME NEW p \in Process, UNCHANGED alone,
             \/ (StoreStep(p) \/ Kill(p)) /\ UNCHANGED <<lines, replies>>
             \/ StartFails(p) \/ Reply(p) \/ ReplyFails(p) \/ EndOfInput(p)
             \/ \E line \in Line : ServeLine(p, line) \/ FindOnce(p, line)
      PROVE  Solitude'
  <2>1. alone[p] => Undisturbed(p)'
    BY <1>4, SolitudeOwn DEF Solitude, Sessions
  <2>2. \A q \in Process \ {p} : ~alone[q]
    BY <1>4, OthersStart
  <2> QED
    BY <1>4, <2>1, <2>2 DEF Solitude
<1>5. CASE \E p \in Process : Start(p)
  BY <1>3, <1>5
<1>6. CASE \E p \in Process :
             /\ UNCHANGED alone
             /\ \/ (StoreStep(p) \/ Kill(p)) /\ UNCHANGED <<lines, replies>>
                \/ StartFails(p) \/ Reply(p) \/ ReplyFails(p) \/ EndOfInput(p)
                \/ \E line \in Line : ServeLine(p, line) \/ FindOnce(p, line)
  BY <1>4, <1>6
<1> QED
  BY <1>1, <1>2, <1>5, <1>6 DEF Next, StartFails, Reply, ReplyFails, EndOfInput, ServeLine,
     FindOnce

-----------------------------------------------------------------------------
(* The theorems.                                                           *)

IInv == Names /\ Channels /\ NothingInvented /\ Sessions /\ Losses /\ Solitude

LEMMA Invariance ==
  Spec => []IInv
<1>1. Init => IInv
  BY NamesInit, ChannelsInit, InventedInit, SessionsInit, LossesInit, SolitudeInit DEF IInv
<1>2. IInv /\ [Next]_vars => IInv'
  BY NamesStep, ChannelsStep, InventedStep, SessionsStep, LossesStep, SolitudeStep DEF IInv
<1> QED
  BY <1>1, <1>2, PTL DEF Spec

LEMMA IInvTellsTruth ==
  IInv => RepliesTellTruth
<1> SUFFICES ASSUME IInv, NEW p \in Process
             PROVE  /\ At(p, "loaded") => RepliedTo(p) = Requests(p)
                    /\ \A i, j \in 1 .. Len(replies[p]) :
                         i < j => replies[p][i].id < replies[p][j].id
                    /\ \A r \in Range(replies[p]) :
                         /\ <<p, r.id>> \in mem[p]
                              <=> r.kind \in {"ok", "unsaved"} /\ Learns(lines[p][r.id])
                         /\ IsBatch(lines[p][r.id]) /\ r.kind = "ok"
                              => /\ 0 < Len(r.results) /\ Len(r.results) <= MaxMcpBatch
                                 /\ r.results = [i \in DOMAIN lines[p][r.id].args |->
                                                   lines[p][r.id].args[i] = "hit"]
                    /\ \A i \in 1 .. Number(p) : <<p, i>> \in mem[p] => i \in Requests(p)
  BY DEF RepliesTellTruth, RepliedTo
<1>1. Session(p) /\ Truth(p)
  BY DEF IInv, Sessions
<1>2. \A i : <<p, i>> \in mem[p] => i \in LearnedBy(p)
  BY DEF IInv, NothingInvented, Made
<1>3. ASSUME NEW r \in Range(replies[p])
      PROVE  <<p, r.id>> \in mem[p] <=> r.kind \in {"ok", "unsaved"} /\ Learns(lines[p][r.id])
  <2>1. r.id \in Requests(p)
    BY <1>1 DEF Session, RepliedTo
  <2> QED
    BY <1>1, <1>2, <2>1 DEF Truth, LearnedBy
<1>4. ASSUME NEW r \in Range(replies[p]), r.kind = "ok", IsBatch(lines[p][r.id])
      PROVE  /\ 0 < Len(r.results) /\ Len(r.results) <= MaxMcpBatch
             /\ r.results = [i \in DOMAIN lines[p][r.id].args |-> lines[p][r.id].args[i] = "hit"]
  <2>0. PICK line \in Line : line = lines[p][r.id]
    BY <1>1 DEF IInv, Channels, Session, RepliedTo, Requests, Number
  <2>1. r.results = Results(line) /\ Outcome(line) = "ok"
    BY <1>1, <1>4, <2>0 DEF Truth, Rightly
  <2>2. ~Refused(line) /\ line.tool \in NamesTool
    BY <1>4, <2>0, <2>1 DEF IsBatch, Outcome, PlainMethod
  <2>3. Len(line.args) \in 1 .. MaxMcpBatch
    BY <2>2 DEF Refused, RefusedNames, NamesTool, NameTool, LearningTool
  <2>4. r.results = [i \in DOMAIN line.args |-> line.args[i] = "hit"]
    BY <2>1, <2>2 DEF Results, NameTool, LearningTool, NamesTool
  <2>5. Len(r.results) = Len(line.args)
    BY <2>3, <2>4, LineAssumption
  <2> QED
    BY <2>0, <2>3, <2>4, <2>5, SessionAssumption
<1> QED
  BY <1>1, <1>2, <1>3, <1>4 DEF Session, LearnedBy

LEMMA ResultsAreAnswers ==
  ASSUME NEW line \in Line
  PROVE  Results(line) \in Seq(BOOLEAN)
<1> DEFINE args == line.args
<1>1. args \in Seq({"hit", "miss", "bad"})
  BY LineAssumption
<1>2. [i \in DOMAIN args |-> args[i] = "hit"] \in Seq(BOOLEAN)
  <2>1. DOMAIN args = 1 .. Len(args) /\ Len(args) \in Nat
    BY <1>1
  <2> HIDE DEF args
  <2> QED
    BY <2>1
<1>3. [i \in 1 .. Cardinality(Found(args)) |-> TRUE] \in Seq(BOOLEAN)
  <2>1. Found(args) \subseteq 1 .. Len(args) /\ Len(args) \in Nat
    BY <1>1 DEF Found
  <2>2. IsFiniteSet(1 .. Len(args))
    BY <2>1, FS_Interval
  <2>3. Cardinality(Found(args)) \in Nat
    BY <2>1, <2>2, FS_Subset, FS_CardinalityType
  <2>4. \A n \in Nat : [i \in 1 .. n |-> TRUE] \in Seq(BOOLEAN)
    OBVIOUS
  <2> QED
    BY <2>3, <2>4
<1>4. <<>> \in Seq(BOOLEAN)
  OBVIOUS
<1> QED
  BY <1>2, <1>3, <1>4 DEF Results

\* The invariant gives the types.
LEMMA IInvTypes == IInv => TypeOK
<1> SUFFICES ASSUME IInv PROVE TypeOK
  OBVIOUS
<1>1. mem \in [Process -> SUBSET Learning]
  <2>1. Made \subseteq Learning
    BY DEF Made
  <2> QED
    BY <2>1 DEF IInv, NothingInvented
<1>2. \A o \in Object : file[o] \in {Empty, Torn} \union {Text(s) : s \in SUBSET Learning}
  <2>1. \A o \in Object : file[o] \in Texts(Made)
    BY DEF IInv, NothingInvented
  <2>2. Texts(Made) \subseteq {Empty, Torn} \union {Text(s) : s \in SUBSET Learning}
    BY DEF Texts, Made
  <2> QED
    BY <2>1, <2>2
<1>3. StoreTypeOK
  BY <1>1, <1>2 DEF StoreTypeOK, IInv, Names
<1>4. ASSUME NEW p \in Process, NEW i \in 1 .. Len(replies[p])
      PROVE  /\ replies[p][i].id \in 1 .. Number(p) /\ replies[p][i].kind \in ReplyKinds
             /\ replies[p][i].results \in Seq(BOOLEAN)
  <2> DEFINE r == replies[p][i]
  <2>1. r \in Answers /\ r \in Range(replies[p])
    <3>1. replies[p] \in Seq(Answers)
      BY DEF IInv, Channels
    <3> QED
      BY <3>1 DEF Range
  <2>2. r.id \in Requests(p)
    BY <2>1 DEF IInv, Sessions, Session, RepliedTo
  <2>3. r.results \in Seq(BOOLEAN)
    <3>1. r.results \in {Results(line) : line \in Line} \union {<<>>}
      BY <2>1 DEF Answers
    <3>2. <<>> \in Seq(BOOLEAN)
      OBVIOUS
    <3> QED
      BY <3>1, <3>2, ResultsAreAnswers
  <2>4. r.kind \in ReplyKinds
    BY <2>1 DEF Answers
  <2> QED
    BY <2>2, <2>3, <2>4 DEF Requests
<1>5. \A p \in Process : Number(p) <= MaxLines
  BY DEF IInv, Channels, Number
<1> QED
  BY <1>3, <1>4, <1>5 DEF TypeOK

\* The types of SkbSessions and of the store under it: no name ever leads to two
\* files, only a process that writes has one open, and a reply has the id of a
\* line that was read.
THEOREM SessionTypes ==
  Spec => []TypeOK
BY Invariance, IInvTypes, PTL

\* A server that waits for a line has answered every request once, in order and
\* with its id (run of mcp.rs); the reply says whether the call learned, and the
\* reply to a batch answers each name at its place (tool_call), whatever fails
\* and whatever other processes do to the usage state.
THEOREM RepliesAlwaysTellTruth ==
  Spec => []RepliesTellTruth
BY Invariance, IInvTellsTruth, PTL

\* Memory and every text in state.json hold only learnings that a session was
\* asked for in a request (UsageState::load, save and learn): notifications,
\* refused calls, failing saves and torn files never add one.
THEOREM OnlyRequestsAreLearned ==
  Spec => []NothingInvented
BY Invariance, PTL DEF IInv

\* Saves that overlap tear or lose the state only if one of them fails: a rename
\* takes the one temporary file, so of two saves that share it the later finds
\* none (UsageState::save).
THEOREM LossIsAlwaysReported ==
  Spec => []LossIsReported
<1>1. IInv => LossIsReported
  BY DEF IInv, Losses, NothingSaved, LossIsReported
<1> QED
  BY <1>1, Invariance, PTL

\* What a session that runs alone was told is saved is in the file, with all it
\* had loaded and all that earlier failing saves had left out (UsageState::save).
THEOREM AloneIsAlwaysStored ==
  Spec => []AloneIsStored
<1>1. IInv => AloneIsStored
  BY DEF IInv, Solitude, Undisturbed, Synced, LastLearning, AloneIsStored
<1> QED
  BY <1>1, Invariance, PTL

=============================================================================
