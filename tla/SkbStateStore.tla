--------------------------- MODULE SkbStateStore ----------------------------
(***************************************************************************)
(* UsageState::load and UsageState::save: what the processes of a user do  *)
(* with state.json.  A save truncates and writes the temporary file, whose *)
(* name all processes share, and renames it over the state; if that fails  *)
(* it removes the state and renames again.  Nothing is synced or locked.   *)
(* SkbSessions says which processes load and save, and when.               *)
(*                                                                         *)
(* A name leads to a file object and a process that has opened an object   *)
(* writes to it whatever name it has by then.  A state is the set of the   *)
(* learnings it contains: the count of a name is the number of those that  *)
(* learned it.                                                             *)
(***************************************************************************)
EXTENDS Integers, FiniteSets

CONSTANTS
  Process,      \* processes, each of which runs once
  Learning,     \* the learnings there may be
  MaxFaults     \* bound: failing calls, killed processes and power losses

ASSUME StoreAssumption == MaxFaults \in Nat /\ IsFiniteSet(Process)

None == 0
\* Enough objects for two names and one open handle each.
Object == 1 .. Cardinality(Process) + 2
\* What is not the text of a state: nothing yet, or a part or mixture of texts.
Empty == [text |-> "empty"]
Torn == [text |-> "torn"]
Text(state) == [text |-> "whole", state |-> state]

VARIABLES
  file,     \* file[o]: what the object o contains
  active,   \* the object named state.json
  tmp,      \* the object named state.json.tmp
  handle,   \* handle[p]: the object p has open for writing
  mem,      \* mem[p]: the usage state of p in memory
  pc,       \* what each process does next
  faults,   \* the number of faults so far
  solo,     \* ghost: solo[p], nobody else has saved during the save of p
  blame     \* ghost: a save failed, was killed or lost its power, and no save
            \* that nobody disturbed has succeeded since

storeVars == <<file, active, tmp, handle, mem, pc, faults, solo, blame>>

Goto(p, label) == pc' = [pc EXCEPT ![p] = label]
At(p, label) == pc[p] = label

Readable(o) == o # None /\ file[o].text = "whole"
Stored == file[active].state

SaveLabels == {"write", "rename", "exists", "remove", "retry"}
Saving(p) == pc[p] \in SaveLabels

StoreInit ==
  /\ file = [o \in Object |-> Empty]
  /\ active = None /\ tmp = None
  /\ handle = [p \in Process |-> None]
  /\ mem = [p \in Process |-> {}]
  /\ pc = [p \in Process |-> "off"]
  /\ faults = 0 /\ blame = FALSE
  /\ solo = [p \in Process |-> FALSE]

-----------------------------------------------------------------------------
(* UsageState::load                                                        *)

\* Without a file the state is the default one.
LoadExists(p) ==
  /\ At(p, "load")
  /\ Goto(p, IF active = None THEN "loaded" ELSE "read")
  /\ UNCHANGED <<file, active, tmp, handle, mem, faults, solo, blame>>

Read(p) ==
  /\ At(p, "read") /\ active # None
  /\ IF Readable(active)
     THEN mem' = [mem EXCEPT ![p] = Stored] /\ Goto(p, "loaded")
     ELSE UNCHANGED mem /\ Goto(p, "failed")
  /\ UNCHANGED <<file, active, tmp, handle, faults, solo, blame>>

-----------------------------------------------------------------------------
(* UsageState::save                                                        *)

Used == {active, tmp} \union {handle[p] : p \in Process}
Fresh == CHOOSE o \in Object \ Used : \A other \in Object \ Used : o <= other

\* Mutant of Truncated: appends to what a killed save left.
KeptAsItIs(o) == [file EXCEPT ![o] = IF o = tmp THEN @ ELSE Empty]
Truncated(o) == [file EXCEPT ![o] = Empty]

\* fs::write opens the temporary file, which truncates it, also if another
\* process is writing it.
OpenTmp(p) ==
  /\ At(p, "save")
  /\ LET o == IF tmp = None THEN Fresh ELSE tmp IN
       /\ file' = Truncated(o)
       /\ tmp' = o
       /\ handle' = [handle EXCEPT ![p] = o]
  /\ solo' = [q \in Process |->
                IF q = p THEN \A other \in Process \ {p} : ~Saving(other)
                         ELSE FALSE]
  /\ Goto(p, "write")
  /\ UNCHANGED <<active, mem, faults, blame>>

\* The text overwrites from the start: on what another process wrote meanwhile
\* a shorter text leaves a tail.
WriteTmp(p) ==
  /\ At(p, "write")
  /\ \E text \in {Text(mem[p])} \union (IF file[handle[p]] = Empty THEN {} ELSE {Torn}) :
       file' = [file EXCEPT ![handle[p]] = text]
  /\ handle' = [handle EXCEPT ![p] = None]
  /\ Goto(p, "rename")
  /\ UNCHANGED <<active, tmp, mem, faults, solo, blame>>

\* Mutant of RenameTmp: copies the temporary file.
CopyTmp(p) ==
  /\ pc[p] \in {"rename", "retry"} /\ tmp # None
  /\ active' = tmp
  /\ blame' = (blame /\ ~solo[p])
  /\ solo' = [solo EXCEPT ![p] = FALSE]
  /\ Goto(p, "saved")
  /\ UNCHANGED <<file, tmp, handle, mem, faults>>

\* fs::rename takes whatever has the name of the temporary file.  An object
\* without a name and handle is gone.
RenameTmp(p) ==
  /\ pc[p] \in {"rename", "retry"} /\ tmp # None
  /\ active' = tmp /\ tmp' = None
  /\ file' = IF active \in {handle[q] : q \in Process} \union {None} THEN file
             ELSE [file EXCEPT ![active] = Empty]
  /\ blame' = (blame /\ ~solo[p])
  /\ solo' = [solo EXCEPT ![p] = FALSE]
  /\ Goto(p, "saved")
  /\ UNCHANGED <<handle, mem, faults>>

\* if path.exists()
ActiveExists(p) ==
  /\ At(p, "exists")
  /\ Goto(p, IF active = None THEN "retry" ELSE "remove")
  /\ UNCHANGED <<file, active, tmp, handle, mem, faults, solo, blame>>

RemoveActive(p) ==
  /\ At(p, "remove") /\ active # None
  /\ active' = None
  /\ file' = IF active \in {handle[q] : q \in Process} THEN file
             ELSE [file EXCEPT ![active] = Empty]
  /\ Goto(p, "retry")
  /\ UNCHANGED <<tmp, handle, mem, faults, solo, blame>>

-----------------------------------------------------------------------------
(* Failing calls and crashes.                                              *)

\* Mutant of OnFailure: a rename that failed for good is taken for a success.
OnFailureIgnored ==
  [read |-> "failed", save |-> "unsaved", write |-> "unsaved",
   rename |-> "exists", remove |-> "retry", retry |-> "saved"]

\* `?` ends the save; the first rename falls back, and a state that cannot be
\* removed is ignored.
OnFailure ==
  [read |-> "failed", save |-> "unsaved", write |-> "unsaved",
   rename |-> "exists", remove |-> "retry", retry |-> "unsaved"]

Fail(p) ==
  /\ Goto(p, OnFailure[pc[p]])
  /\ blame' = (blame \/ OnFailure[pc[p]] = "unsaved")
  /\ solo' = [solo EXCEPT ![p] = @ /\ OnFailure[pc[p]] # "unsaved"]

\* A write that fails has written a part.
CallFails(p) ==
  /\ faults < MaxFaults
  /\ pc[p] \in DOMAIN OnFailure
  /\ Fail(p)
  /\ file' = IF At(p, "write") THEN [file EXCEPT ![handle[p]] = Torn] ELSE file
  /\ handle' = [handle EXCEPT ![p] = None]
  /\ faults' = faults + 1
  /\ UNCHANGED <<active, tmp, mem>>

\* The calls that need a file another process has just moved or removed.
CallFindsNothing(p) ==
  /\ \/ pc[p] \in {"read", "remove"} /\ active = None
     \/ pc[p] \in {"rename", "retry"} /\ tmp = None
  /\ Fail(p)
  /\ UNCHANGED <<file, active, tmp, handle, mem, faults>>

\* A process that is killed may have written a part.
Kill(p) ==
  /\ faults < MaxFaults
  /\ pc[p] \notin {"off", "ended"}
  /\ faults' = faults + 1
  /\ \/ UNCHANGED file
     \/ At(p, "write") /\ file' = [file EXCEPT ![handle[p]] = Torn]
  /\ handle' = [handle EXCEPT ![p] = None]
  /\ blame' = (blame \/ Saving(p))
  /\ solo' = [solo EXCEPT ![p] = FALSE]
  /\ Goto(p, "ended")
  /\ UNCHANGED <<active, tmp, mem>>

\* Nothing was synced: any text may be lost, and the processes are.
PowerLoss ==
  /\ faults < MaxFaults
  /\ faults' = faults + 1
  /\ \E lost \in SUBSET {o \in {active, tmp} : o # None} :
       file' = [o \in Object |-> IF o \notin {active, tmp} THEN Empty
                                 ELSE IF o \in lost THEN Torn ELSE file[o]]
  /\ handle' = [p \in Process |-> None]
  /\ pc' = [p \in Process |-> IF At(p, "off") THEN "off" ELSE "ended"]
  /\ blame' = TRUE
  /\ solo' = [p \in Process |-> FALSE]
  /\ UNCHANGED <<active, tmp, mem>>

\* What a process does while it loads or saves.
StoreStep(p) ==
  \/ LoadExists(p) \/ Read(p)
  \/ OpenTmp(p) \/ WriteTmp(p) \/ RenameTmp(p) \/ ActiveExists(p) \/ RemoveActive(p)
  \/ CallFails(p) \/ CallFindsNothing(p)

StoreTypeOK ==
  /\ active \in Object \union {None} /\ tmp \in Object \union {None}
  /\ active = tmp => active = None
  /\ handle \in [Process -> Object \union {None}]
  /\ mem \in [Process -> SUBSET Learning]
  /\ \A o \in Object : file[o] \in {Empty, Torn} \union {Text(s) : s \in SUBSET Learning}
  /\ \A p \in Process : handle[p] # None <=> At(p, "write")
  /\ faults \in 0 .. MaxFaults

=============================================================================
