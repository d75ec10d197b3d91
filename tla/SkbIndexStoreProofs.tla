------------------------ MODULE SkbIndexStoreProofs -------------------------
(***************************************************************************)
(* Saving the index keeps what SkbIndexRegister promises, for any number   *)
(* of scanners, readers, scans and faults on either platform.              *)
(***************************************************************************)
EXTENDS SkbIndexStore, TLAPS

USE ConstantAssumption

ScannerLabel ==
  {"idle", "save", "sync", "exists", "rename", "replace", "set_aside", "activate",
   "drop_backup", "restore", "clean_up", "sync_parent", "preflight"}
\* The temporary file is synced and not yet moved.
Staged == {"exists", "rename", "replace", "set_aside", "activate"}
Replacing == {"save", "sync"} \union Staged
\* The new index is active.
Activated == {"drop_backup", "sync_parent", "preflight"}
WindowsOnly == {"exists", "replace", "set_aside", "activate", "drop_backup", "restore"}

AnyFile == File \union {Absent}

-----------------------------------------------------------------------------
(* The inductive invariant.                                                *)

Types ==
  /\ windows \in BOOLEAN /\ overlap \in BOOLEAN
  /\ temp \in [Scanner -> AnyFile]
  /\ result \in [Scanner -> Result]
  /\ pc \in [Scanner \union Reader -> ScannerLabel \union {"load"}]
  /\ \A s \in Scanner : pc[s] \in ScannerLabel
  /\ seen \in [Reader -> AnyFile]
  /\ scans \in 0 .. MaxScans

\* A directory in which every index is synced.
Sound(d) ==
  /\ d \in [active : AnyFile, backup : AnyFile]
  /\ Present(d.active) => d.active.state = "synced"
  /\ Present(d.backup) => d.backup.state = "synced"

\* Whatever a loss of power may bring back is sound, and so is what is there; a
\* temporary file is synced before anything moves it.
Files ==
  /\ Directory \in durable
  /\ \A d \in durable : Sound(d)
  /\ \A s \in Scanner :
       /\ pc[s] \in {"save", "sync"} => Present(temp[s])
       /\ pc[s] \in Staged => Present(temp[s]) /\ temp[s].state = "synced"

\* On Unix nothing is set aside.
Unix ==
  ~windows =>
    /\ \A d \in durable : d.backup = Absent
    /\ \A s \in Scanner : pc[s] \notin WindowsOnly

\* While scans take turns the one that runs has the newest index.
TakeTurns ==
  ~overlap =>
    /\ \A s, t \in Scanner : pc[s] # "idle" /\ pc[t] # "idle" => s = t
    /\ \A d \in durable : d.active.gen <= scans /\ d.backup.gen <= scans
    /\ \A s \in Scanner :
         /\ pc[s] # "idle" => result[s].gen = scans
         /\ pc[s] \in Replacing =>
              /\ temp[s].gen = scans
              /\ \A d \in durable : d.active.gen < scans /\ d.backup.gen < scans
         /\ pc[s] \in {"activate", "restore"} => active = Absent
         /\ pc[s] \in Activated => Present(active) /\ active.gen = scans

\* What was reported as done is current, and in whatever a loss of power may
\* bring back if the directory was synced.
Kept ==
  ~overlap =>
    \A s \in Scanner :
      /\ result[s].outcome = "ok" /\ ~result[s].outage => CurrentGen >= result[s].gen
      /\ result[s].synced => \A d \in durable : GenOf(d) >= result[s].gen

IInv == Types /\ Files /\ Unix /\ TakeTurns /\ Kept

\* A step of the store as a step of the register.
RegisterStep == [Register!Next]_(Register!vars)

-----------------------------------------------------------------------------
LEMMA FileShape ==
  /\ Absent.gen = 0 /\ Absent.state = "absent" /\ Absent \notin File
  /\ \A f \in File : f.gen \in Generation /\ f.gen \in Nat \ {0} /\ Present(f)
  /\ \A f \in AnyFile : f.gen \in Nat /\ (Present(f) <=> f \in File) /\ (Present(f) <=> f.gen # 0)
<1>1. /\ Absent.gen = 0 /\ Absent.state = "absent" /\ Absent \notin File
      /\ \A f \in File : f.gen \in Generation
  BY DEF Absent, File, Generation
<1>2. \A g \in Generation : g \in Nat \ {0}
  BY DEF Generation
<1> QED
  BY <1>1, <1>2 DEF Present, AnyFile

\* What the current directory offers.
LEMMA CurrentShape ==
  /\ Directory.active = active /\ Directory.backup = backup
  /\ CurrentGen = IF Present(active) THEN active.gen ELSE backup.gen
  /\ \A d : Sound(d) =>
       /\ d.active \in AnyFile /\ d.backup \in AnyFile
       /\ d = [active |-> d.active, backup |-> d.backup]
       /\ GenOf(d) \in Nat /\ GenOf(d) \in Generation \union {0}
       /\ d.active.gen \in Nat /\ d.backup.gen \in Nat
<1>1. Directory.active = active /\ Directory.backup = backup
  BY DEF Directory
<1>2. CurrentGen = IF Present(active) THEN active.gen ELSE backup.gen
  BY <1>1 DEF CurrentGen, GenOf
<1>3. ASSUME NEW d, Sound(d)
      PROVE  /\ d.active \in AnyFile /\ d.backup \in AnyFile
             /\ d = [active |-> d.active, backup |-> d.backup]
             /\ GenOf(d) \in Nat /\ GenOf(d) \in Generation \union {0}
             /\ d.active.gen \in Nat /\ d.backup.gen \in Nat
  <2>1. /\ d.active \in AnyFile /\ d.backup \in AnyFile
        /\ d = [active |-> d.active, backup |-> d.backup]
    BY <1>3 DEF Sound
  <2>2. d.active.gen \in Nat /\ d.backup.gen \in Nat
    BY <2>1, FileShape
  <2>3. d.active.gen \in Generation \union {0} /\ d.backup.gen \in Generation \union {0}
    BY <2>1, FileShape DEF AnyFile
  <2> QED
    BY <2>1, <2>2, <2>3 DEF GenOf
<1> QED
  BY <1>1, <1>2, <1>3

LEMMA Now ==
  ASSUME IInv
  PROVE  /\ Directory \in durable /\ Sound(Directory)
         /\ active \in AnyFile /\ backup \in AnyFile
         /\ active.gen \in Nat /\ backup.gen \in Nat /\ CurrentGen \in Nat
         /\ Present(active) => active.state = "synced"
         /\ Present(backup) => backup.state = "synced"
         /\ ~windows => backup = Absent
         /\ ~overlap => active.gen <= scans /\ backup.gen <= scans
<1>1. Directory \in durable /\ Sound(Directory)
  BY DEF IInv, Files
<1>2. /\ Directory.active = active /\ Directory.backup = backup
      /\ active \in AnyFile /\ backup \in AnyFile
      /\ active.gen \in Nat /\ backup.gen \in Nat /\ CurrentGen \in Nat
  BY <1>1, CurrentShape DEF CurrentGen
<1>3. /\ Present(active) => active.state = "synced"
      /\ Present(backup) => backup.state = "synced"
  BY <1>1, <1>2 DEF Sound
<1>4. /\ ~windows => backup = Absent
      /\ ~overlap => active.gen <= scans /\ backup.gen <= scans
  BY <1>1, <1>2 DEF IInv, Unix, TakeTurns
<1> QED
  BY <1>1, <1>2, <1>3, <1>4

LEMMA FailureLabels ==
  /\ DOMAIN OnFailure = {"save", "sync", "rename", "replace", "set_aside", "activate",
                         "drop_backup", "restore", "sync_parent"}
  /\ \A l \in {"save", "sync", "rename", "set_aside", "restore"} : OnFailure[l] = "clean_up"
  /\ OnFailure["replace"] = "set_aside" /\ OnFailure["activate"] = "restore"
  /\ OnFailure["drop_backup"] = "preflight" /\ OnFailure["sync_parent"] = "preflight"
<1>1. DOMAIN OnFailure = {"save", "sync", "rename", "replace", "set_aside", "activate",
                          "drop_backup", "restore", "sync_parent"}
  BY DEF OnFailure
<1>2. /\ OnFailure["save"] = "clean_up" /\ OnFailure["sync"] = "clean_up"
      /\ OnFailure["rename"] = "clean_up" /\ OnFailure["set_aside"] = "clean_up"
      /\ OnFailure["restore"] = "clean_up"
  BY DEF OnFailure
<1>3. /\ OnFailure["replace"] = "set_aside" /\ OnFailure["activate"] = "restore"
      /\ OnFailure["drop_backup"] = "preflight" /\ OnFailure["sync_parent"] = "preflight"
  BY DEF OnFailure
<1> QED
  BY <1>1, <1>2, <1>3

LEMMA InvInit == Init => IInv
<1> SUFFICES ASSUME Init PROVE IInv
  OBVIOUS
<1>1. Types
  <2>1. windows \in BOOLEAN /\ overlap \in BOOLEAN
    BY Zenon DEF Init
  <2>2. temp \in [Scanner -> AnyFile] /\ seen \in [Reader -> AnyFile]
    BY DEF Init, AnyFile
  <2>3. /\ pc \in [Scanner \union Reader -> ScannerLabel \union {"load"}]
        /\ \A s \in Scanner : pc[s] \in ScannerLabel
    BY DEF Init, ScannerLabel
  <2>4. scans \in 0 .. MaxScans
    BY DEF Init
  <2>5. result \in [Scanner -> Result]
    BY DEF Init, Result
  <2> QED
    BY <2>1, <2>2, <2>3, <2>4, <2>5 DEF Types
<1>2. \A d \in durable : d.active = Absent /\ d.backup = Absent /\ Sound(d)
  BY DEF Init, Directory, Sound, AnyFile, Present
<1>3. Files /\ Unix
  BY <1>2 DEF Init, Files, Unix, Staged, WindowsOnly
<1>4. TakeTurns
  BY <1>2, FileShape DEF Init, TakeTurns, Replacing, Staged, Activated
<1>5. Kept
  BY DEF Init, Kept
<1> QED
  BY <1>1, <1>3, <1>4, <1>5 DEF IInv

\* A step of a running scanner keeps the invariant when it adds at most the
\* present directory to what the disk may hold, never makes an older index
\* current, and leaves its temporary file, its result and the directory as the
\* next label wants them.
LEMMA RunnerStep ==
  ASSUME IInv, NEW s \in Scanner, NEW label \in ScannerLabel, NEW f \in AnyFile,
         NEW r \in Result,
         pc[s] # "idle", Goto(s, label),
         temp' = [temp EXCEPT ![s] = f], result' = [result EXCEPT ![s] = r],
         UNCHANGED <<windows, overlap, seen, scans>>,
         r.gen = result[s].gen, r.outage = result[s].outage,
         r.outcome = "ok" => result[s].outcome = "ok" \/ pc[s] = "preflight",
         r.synced => result[s].synced \/ (pc[s] = "sync_parent" /\ durable' = {Directory'}),
         Directory' \in durable', Sound(Directory'),
         \A d \in durable' : d \in durable \/ d = Directory',
         ~windows => backup' = Absent /\ label \notin WindowsOnly,
         label \in {"save", "sync"} => Present(f),
         label \in Staged => Present(f) /\ f.state = "synced",
         ~overlap => active'.gen <= scans /\ backup'.gen <= scans,
         ~overlap => CurrentGen' >= CurrentGen,
         label \in Replacing =>
           /\ pc[s] \in Replacing /\ f.gen = temp[s].gen
           /\ {active', backup'} \subseteq {active, backup, Absent},
         ~overlap /\ label \in {"activate", "restore"} => active' = Absent,
         ~overlap /\ label \in Activated => Present(active') /\ active'.gen = scans
  PROVE  IInv'
<1>1. /\ pc' = [pc EXCEPT ![s] = label] /\ pc'[s] = label /\ temp'[s] = f /\ result'[s] = r
      /\ \A t \in Scanner : t # s =>
           pc'[t] = pc[t] /\ temp'[t] = temp[t] /\ result'[t] = result[t]
  BY DEF Goto, IInv, Types
<1>2. Types'
  BY <1>1 DEF IInv, Types
<1>3. Files'
  BY <1>1 DEF IInv, Files
<1>4. Directory'.active = active' /\ Directory'.backup = backup'
  BY DEF Directory
<1>5. Unix'
  BY <1>1, <1>4 DEF IInv, Unix
<1>6. TakeTurns'
  <2> SUFFICES ASSUME ~overlap PROVE TakeTurns'
    BY DEF TakeTurns
  <2>1. \A t, u \in Scanner : pc'[t] # "idle" /\ pc'[u] # "idle" => t = u
    BY <1>1 DEF IInv, TakeTurns
  <2>2. \A t \in Scanner : t # s => pc'[t] = "idle"
    BY <1>1 DEF IInv, TakeTurns
  <2>3. \A d \in durable' : d.active.gen <= scans /\ d.backup.gen <= scans
    BY <1>4 DEF IInv, TakeTurns
  <2>4. r.gen = scans
    BY DEF IInv, TakeTurns
  <2>5. label \in Replacing =>
          /\ f.gen = scans
          /\ \A d \in durable' : d.active.gen < scans /\ d.backup.gen < scans
    <3> SUFFICES ASSUME label \in Replacing
                 PROVE  /\ f.gen = scans
                        /\ \A d \in durable' : d.active.gen < scans /\ d.backup.gen < scans
      OBVIOUS
    <3>1. /\ temp[s].gen = scans
          /\ \A d \in durable : d.active.gen < scans /\ d.backup.gen < scans
      BY DEF IInv, TakeTurns
    <3>2. active.gen < scans /\ backup.gen < scans /\ Absent.gen = 0 /\ active.gen \in Nat
          /\ scans \in Nat
      BY <3>1, Now, CurrentShape, FileShape DEF IInv, Types
    <3>3. active'.gen < scans /\ backup'.gen < scans
      BY <3>2
    <3> QED
      BY <1>4, <3>1, <3>3
  <2> QED
    BY <1>1, <2>1, <2>2, <2>3, <2>4, <2>5 DEF TakeTurns, Replacing, Staged, Activated
<1>7. Kept'
  <2> SUFFICES ASSUME ~overlap PROVE Kept'
    BY DEF Kept
  <2>1. CurrentGen \in Nat /\ CurrentGen' \in Nat /\ CurrentGen' >= CurrentGen
        /\ GenOf(Directory') = CurrentGen' /\ GenOf(Directory) = CurrentGen
        /\ Directory \in durable
    BY Now, CurrentShape DEF CurrentGen
  <2>2. pc[s] \in {"sync_parent", "preflight"} => CurrentGen = r.gen
    BY CurrentShape DEF IInv, TakeTurns, Activated
  <2>3. \A t \in Scanner : result[t].gen \in Nat /\ r.gen \in Nat
    BY DEF IInv, Types, Result, Generation
  <2>4. ASSUME NEW t \in Scanner, result'[t].outcome = "ok", ~result'[t].outage
        PROVE  CurrentGen' >= result'[t].gen
    <3>1. CASE t = s /\ pc[s] = "preflight"
      BY <1>1, <2>1, <2>2, <2>3, <3>1
    <3>2. CASE ~(t = s /\ pc[s] = "preflight")
      <4>1. /\ result'[t].gen = result[t].gen
            /\ result[t].outcome = "ok" /\ ~result[t].outage
        BY <1>1, <2>4, <3>2
      <4>2. CurrentGen >= result[t].gen
        BY <4>1 DEF IInv, Kept
      <4> QED
        BY <2>1, <2>3, <4>1, <4>2
    <3> QED
      BY <3>1, <3>2
  <2>5. ASSUME NEW t \in Scanner, result'[t].synced, NEW d \in durable'
        PROVE  GenOf(d) >= result'[t].gen
    <3>1. CASE result[t].synced
      <4>1. result'[t].gen = result[t].gen /\ \A e \in durable : GenOf(e) >= result[t].gen
        BY <1>1, <3>1 DEF IInv, Kept
      <4> QED
        BY <2>1, <2>3, <4>1
    <3>2. CASE ~result[t].synced
      <4>1. t = s /\ pc[s] = "sync_parent" /\ d = Directory' /\ result'[t].gen = r.gen
        BY <1>1, <2>5, <3>2
      <4> QED
        BY <2>1, <2>2, <2>3, <4>1
    <3> QED
      BY <3>1, <3>2
  <2> QED
    BY <2>4, <2>5 DEF Kept
<1> QED
  BY <1>2, <1>3, <1>5, <1>6, <1>7 DEF IInv

-----------------------------------------------------------------------------
(* What a step is to the register.                                         *)

LEMMA RegisterStays ==
  ASSUME UNCHANGED <<windows, overlap, active, backup, durable, seen>>
  PROVE  RegisterStep
BY DEF RegisterStep, Register!vars, CurrentGen, Directory

\* The index a lookup uses is replaced, by none only where that is promised.
LEMMA RegisterCommit ==
  ASSUME IInv, IInv', UNCHANGED <<windows, overlap, seen>>, DirectoryChanges,
         CurrentGen' = CurrentGen \/ (~overlap => \A d \in durable : CurrentGen' > GenOf(d)),
         CurrentGen' = CurrentGen \/ (~windows => CurrentGen' # 0)
  PROVE  RegisterStep
<1>1. CurrentGen' \in Generation \union {0}
  <2>1. Sound(Directory')
    BY DEF IInv, Files
  <2> QED
    BY <2>1, CurrentShape DEF CurrentGen
<1>2. durable' = durable \union {Directory'}
  BY DEF DirectoryChanges, Directory
<1>3. {GenOf(d) : d \in durable'} = {GenOf(d) : d \in durable} \union {CurrentGen'}
  BY <1>2 DEF CurrentGen
<1>4. CASE CurrentGen' = CurrentGen
  <2>1. CurrentGen \in {GenOf(d) : d \in durable}
    BY DEF IInv, Files, CurrentGen
  <2>2. {GenOf(d) : d \in durable'} = {GenOf(d) : d \in durable}
    BY <1>3, <1>4, <2>1
  <2> QED
    BY <1>4, <2>2 DEF RegisterStep, Register!vars
<1>5. CASE CurrentGen' # CurrentGen
  <2>1. Register!Commit(CurrentGen')
    BY <1>3, <1>5 DEF Register!Commit, Register!NoIndex
  <2> QED
    BY <1>1, <2>1 DEF RegisterStep, Register!Next, Register!NoIndex
<1> QED
  BY <1>4, <1>5

-----------------------------------------------------------------------------
(* The scanners.                                                           *)

LEMMA BeginSaveStep ==
  ASSUME IInv, NEW s \in Scanner, BeginSave(s)
  PROVE  IInv' /\ RegisterStep
<1> DEFINE f == [gen |-> scans + 1, state |-> "partial"]
           r == [gen |-> scans + 1, outcome |-> "none", synced |-> FALSE, outage |-> FALSE]
<1>1. /\ pc' = [pc EXCEPT ![s] = "save"]
      /\ temp' = [temp EXCEPT ![s] = f]
      /\ result' = [result EXCEPT ![s] = r]
      /\ scans' = scans + 1 /\ scans + 1 \in Generation
      /\ overlap' = (overlap \/ \E t \in Scanner : pc[t] # "idle")
      /\ UNCHANGED <<windows, active, backup, durable, seen>>
  BY DEF BeginSave, Goto, At, IInv, Types, Generation
<1>2. f \in File /\ r \in Result /\ f.gen = scans' /\ r.gen = scans'
  BY <1>1 DEF File, Result
<1>3. r.outcome = "none" /\ ~r.synced
  OBVIOUS
<1> HIDE DEF f, r
<1>4. /\ pc'[s] = "save" /\ temp'[s] = f /\ result'[s] = r
      /\ \A t \in Scanner : t # s =>
           pc'[t] = pc[t] /\ temp'[t] = temp[t] /\ result'[t] = result[t]
  BY <1>1 DEF IInv, Types
<1>5. Directory' = Directory /\ CurrentGen' = CurrentGen
  BY <1>1 DEF CurrentGen, Directory
<1>6. Types'
  <2>1. temp' \in [Scanner -> AnyFile] /\ result' \in [Scanner -> Result]
    BY <1>1, <1>2 DEF IInv, Types, AnyFile
  <2>2. scans' \in 0 .. MaxScans
    BY <1>1 DEF Generation
  <2> QED
    BY <1>1, <1>4, <2>1, <2>2 DEF IInv, Types, ScannerLabel
<1>7. Files'
  BY <1>1, <1>2, <1>4, <1>5, FileShape DEF IInv, Files, Staged
<1>8. Unix'
  BY <1>1, <1>4 DEF IInv, Unix, WindowsOnly
<1>9. TakeTurns'
  <2> SUFFICES ASSUME ~overlap' PROVE TakeTurns'
    BY DEF TakeTurns
  <2>1. ~overlap /\ \A t \in Scanner : pc[t] = "idle"
    BY <1>1
  <2>2. \A d \in durable : /\ d.active.gen \in Nat /\ d.backup.gen \in Nat
                           /\ d.active.gen <= scans /\ d.backup.gen <= scans
    BY <2>1, CurrentShape DEF IInv, Files, TakeTurns
  <2>3. scans \in Nat /\ scans' = scans + 1
    BY <1>1 DEF IInv, Types
  <2>4. \A d \in durable' : d.active.gen < scans' /\ d.backup.gen < scans'
    BY <1>1, <2>2, <2>3
  <2>5. \A d \in durable' : d.active.gen <= scans' /\ d.backup.gen <= scans'
    BY <1>1, <2>2, <2>3
  <2> QED
    BY <1>2, <1>4, <2>1, <2>4, <2>5 DEF TakeTurns, Replacing, Staged, Activated
<1>10. Kept'
  <2> SUFFICES ASSUME ~overlap', NEW t \in Scanner
               PROVE  /\ result'[t].outcome = "ok" /\ ~result'[t].outage
                           => CurrentGen' >= result'[t].gen
                      /\ result'[t].synced => \A d \in durable' : GenOf(d) >= result'[t].gen
    BY DEF Kept
  <2>1. CASE t = s
    BY <1>3, <1>4, <2>1
  <2>2. CASE t # s
    <3>1. ~overlap /\ result'[t] = result[t]
      BY <1>1, <1>4, <2>2
    <3> QED
      BY <1>1, <1>5, <3>1 DEF IInv, Kept
  <2> QED
    BY <2>1, <2>2
<1>11. RegisterStep
  <2>1. CASE overlap' = overlap
    BY <1>1, <2>1, RegisterStays
  <2>2. CASE overlap' # overlap
    <3>1. ~overlap /\ overlap'
      BY <1>1, <2>2 DEF IInv, Types
    <3>2. Register!Weaken
      BY <1>1, <1>5, <3>1 DEF Register!Weaken, IInv, Types
    <3> QED
      BY <3>2 DEF RegisterStep, Register!Next
  <2> QED
    BY <2>1, <2>2
<1> QED
  BY <1>6, <1>7, <1>8, <1>9, <1>10, <1>11 DEF IInv

\* The running scanner goes on and changes no name of the directory.
LEMMA StayStep ==
  ASSUME IInv, NEW s \in Scanner, NEW label \in ScannerLabel, NEW f \in AnyFile,
         NEW r \in Result,
         pc[s] # "idle", Goto(s, label),
         temp' = [temp EXCEPT ![s] = f], result' = [result EXCEPT ![s] = r],
         UNCHANGED <<windows, overlap, active, backup, durable, seen, scans>>,
         r.gen = result[s].gen, r.outage = result[s].outage, r.synced = result[s].synced,
         r.outcome = "ok" => result[s].outcome = "ok" \/ pc[s] = "preflight",
         ~windows => label \notin WindowsOnly,
         label \in {"save", "sync"} => Present(f),
         label \in Staged => Present(f) /\ f.state = "synced",
         label \in Replacing => pc[s] \in Replacing /\ f.gen = temp[s].gen,
         label \in {"activate", "restore"} => pc[s] = "activate",
         label \in Activated => pc[s] \in Activated
  PROVE  IInv' /\ RegisterStep
<1>1. Directory' = Directory /\ CurrentGen' = CurrentGen
  BY DEF Directory, CurrentGen
<1>2. /\ Directory' \in durable' /\ Sound(Directory')
      /\ \A d \in durable' : d \in durable \/ d = Directory'
  BY <1>1, Now
<1>3. /\ ~windows => backup' = Absent
      /\ ~overlap => active'.gen <= scans /\ backup'.gen <= scans
      /\ ~overlap => CurrentGen' >= CurrentGen
      /\ {active', backup'} \subseteq {active, backup, Absent}
  BY <1>1, Now
<1>4. /\ ~overlap /\ label \in {"activate", "restore"} => active' = Absent
      /\ ~overlap /\ label \in Activated => Present(active') /\ active'.gen = scans
  BY DEF IInv, TakeTurns
<1>5. IInv'
  BY <1>2, <1>3, <1>4, RunnerStep
<1> QED
  BY <1>5, RegisterStays

\* A step that changes neither a file nor a result.
LEMMA MoveStep ==
  ASSUME IInv, NEW s \in Scanner, NEW label \in ScannerLabel,
         pc[s] # "idle", Goto(s, label),
         UNCHANGED <<windows, overlap, active, backup, durable, temp, result, seen, scans>>,
         ~windows => label \notin WindowsOnly,
         label \notin {"save", "sync"},
         label \in Staged => pc[s] \in Staged,
         label \in {"activate", "restore"} => pc[s] = "activate",
         label \in Activated => pc[s] \in Activated
  PROVE  IInv' /\ RegisterStep
<1>1. /\ temp[s] \in AnyFile /\ result[s] \in Result
      /\ temp' = [temp EXCEPT ![s] = temp[s]] /\ result' = [result EXCEPT ![s] = result[s]]
  BY DEF IInv, Types
<1>2. label \in Staged => Present(temp[s]) /\ temp[s].state = "synced"
  BY DEF IInv, Files
<1>3. label \in Replacing => pc[s] \in Replacing
  BY DEF Replacing
<1> QED
  BY <1>1, <1>2, <1>3, StayStep

\* The temporary file becomes the index, over the old one or where none is.
LEMMA ActivateStep ==
  ASSUME IInv, NEW s \in Scanner, NEW label \in Activated,
         Goto(s, label), ActivateTemp(s),
         UNCHANGED <<windows, overlap, result, seen, scans>>,
         pc[s] \in Staged, ~windows => label \notin WindowsOnly
  PROVE  IInv' /\ RegisterStep
<1>1. /\ temp' = [temp EXCEPT ![s] = Absent] /\ active' = temp[s] /\ backup' = backup
      /\ durable' = durable \union {Directory'} /\ DirectoryChanges
  BY DEF ActivateTemp, DirectoryChanges, Directory
<1>2. /\ temp[s] \in AnyFile /\ Present(temp[s]) /\ temp[s].state = "synced"
      /\ temp[s].gen \in Nat /\ temp[s].gen # 0
  BY FileShape DEF IInv, Types, Files
<1>3. /\ Directory'.active = active' /\ Directory'.backup = backup'
      /\ Directory' = [active |-> active', backup |-> backup']
  BY DEF Directory
<1>4. Sound(Directory')
  BY <1>1, <1>2, <1>3, Now DEF Sound
<1>5. CurrentGen' = temp[s].gen
  BY <1>1, <1>2, <1>3 DEF CurrentGen, GenOf
<1>6. /\ ~overlap => temp[s].gen = scans
      /\ ~overlap => \A d \in durable : temp[s].gen > GenOf(d)
  <2> SUFFICES ASSUME ~overlap
               PROVE  temp[s].gen = scans /\ \A d \in durable : temp[s].gen > GenOf(d)
    OBVIOUS
  <2>1. /\ temp[s].gen = scans
        /\ \A d \in durable : d.active.gen < scans /\ d.backup.gen < scans
    BY DEF IInv, TakeTurns, Replacing
  <2>2. \A d \in durable : GenOf(d) \in {d.active.gen, d.backup.gen}
    BY DEF GenOf
  <2>3. scans \in Nat /\ \A d \in durable : d.active.gen \in Nat /\ d.backup.gen \in Nat
    BY CurrentShape DEF IInv, Types, Files
  <2> QED
    BY <2>1, <2>2, <2>3
<1>7. ~overlap => active'.gen <= scans /\ backup'.gen <= scans /\ CurrentGen' >= CurrentGen
  <2>1. scans \in Nat
    BY DEF IInv, Types
  <2>2. GenOf(Directory) = CurrentGen /\ CurrentGen \in Nat
    BY Now DEF CurrentGen
  <2> QED
    BY <1>1, <1>2, <1>5, <1>6, <2>1, <2>2, Now
<1>8. IInv'
  <2>1. Absent \in AnyFile /\ result[s] \in Result /\ result' = [result EXCEPT ![s] = result[s]]
    BY DEF AnyFile, IInv, Types
  <2>2. /\ label \in ScannerLabel /\ pc[s] # "idle"
        /\ label \notin Replacing /\ label \notin {"save", "sync", "activate", "restore"}
        /\ label \notin Staged
    BY DEF Activated, ScannerLabel, Replacing, Staged
  <2>3. ~windows => backup' = Absent
    BY <1>1, Now
  <2>4. ~overlap => Present(active') /\ active'.gen = scans
    BY <1>1, <1>2, <1>6
  <2> QED
    BY <1>1, <1>4, <1>7, <2>1, <2>2, <2>3, <2>4, RunnerStep
<1> QED
  BY <1>1, <1>2, <1>5, <1>6, <1>8, RegisterCommit

\* Steps of the rollback that move the index between its two names.
LEMMA RollbackStep ==
  ASSUME IInv, NEW s \in Scanner, NEW label \in {"activate", Replaced, "clean_up"},
         Goto(s, label), DirectoryChanges,
         UNCHANGED <<windows, overlap, temp, result, seen, scans>>,
         pc[s] \in WindowsOnly,
         active' \in {active, backup, Absent}, backup' \in {active, Absent},
         label = "activate" => pc[s] = "set_aside" /\ active' = Absent,
         label = Replaced => pc[s] = "drop_backup" /\ active' = active,
         ~overlap => CurrentGen' = CurrentGen
  PROVE  IInv' /\ RegisterStep
<1>1. windows
  BY DEF IInv, Unix
<1>2. Replaced = "preflight"
  BY <1>1 DEF Replaced
<1>3. /\ Directory'.active = active' /\ Directory'.backup = backup'
      /\ Directory' = [active |-> active', backup |-> backup']
      /\ durable' = durable \union {Directory'}
  BY DEF Directory, DirectoryChanges
<1>4. Absent \in AnyFile /\ ~Present(Absent) /\ Absent.gen = 0
  BY FileShape DEF AnyFile, Present
<1>5. Sound(Directory')
  BY <1>3, <1>4, Now DEF Sound
<1>6. /\ temp[s] \in AnyFile /\ result[s] \in Result /\ scans \in Nat
      /\ temp' = [temp EXCEPT ![s] = temp[s]] /\ result' = [result EXCEPT ![s] = result[s]]
  BY DEF IInv, Types
<1>7. ~overlap => active'.gen <= scans /\ backup'.gen <= scans /\ CurrentGen' >= CurrentGen
  BY <1>4, <1>6, Now
<1>8. /\ label \in ScannerLabel /\ pc[s] # "idle" /\ label \notin {"save", "sync"}
      /\ label \in Replacing => label = "activate"
      /\ label \in Staged => label = "activate"
      /\ label \in {"activate", "restore"} => label = "activate"
      /\ label \in Activated => label = "preflight"
  BY <1>2 DEF ScannerLabel, WindowsOnly, Replacing, Staged, Activated
<1>9. pc[s] = "set_aside" =>
        pc[s] \in Replacing /\ Present(temp[s]) /\ temp[s].state = "synced"
  BY DEF IInv, Files, Replacing, Staged
<1>10. ~overlap /\ pc[s] = "drop_backup" => Present(active) /\ active.gen = scans
  BY DEF IInv, TakeTurns, Activated
<1>11. {active', backup'} \subseteq {active, backup, Absent}
  OBVIOUS
<1>12. IInv'
  BY <1>1, <1>2, <1>3, <1>5, <1>6, <1>7, <1>8, <1>9, <1>10, <1>11, RunnerStep
<1> QED
  BY <1>1, <1>12, RegisterCommit

LEMMA SetAsideStep ==
  ASSUME IInv, NEW s \in Scanner, SetAside(s)
  PROVE  IInv' /\ RegisterStep
<1>1. /\ pc[s] = "set_aside" /\ Goto(s, "activate") /\ Present(active)
      /\ backup' = active /\ active' = Absent /\ DirectoryChanges
      /\ UNCHANGED <<windows, overlap, temp, result, seen, scans>>
  BY DEF SetAside, At
<1>2. CurrentGen' = CurrentGen
  BY <1>1 DEF CurrentGen, GenOf, Directory, Present
<1>3. Replaced # "activate" /\ pc[s] \in WindowsOnly
  BY <1>1 DEF Replaced, WindowsOnly
<1> QED
  BY <1>1, <1>2, <1>3, RollbackStep

LEMMA DropBackupStep ==
  ASSUME IInv, NEW s \in Scanner, DropBackup(s)
  PROVE  IInv' /\ RegisterStep
<1>1. /\ pc[s] = "drop_backup" /\ Goto(s, Replaced)
      /\ backup' = Absent /\ active' = active /\ DirectoryChanges
      /\ UNCHANGED <<windows, overlap, temp, result, seen, scans>>
  BY DEF DropBackup, At
<1>2. ~overlap => Present(active)
  BY <1>1 DEF IInv, TakeTurns, Activated
<1>3. ~overlap => CurrentGen' = CurrentGen
  BY <1>1, <1>2 DEF CurrentGen, GenOf, Directory
<1>4. Replaced # "activate" /\ pc[s] \in WindowsOnly
  BY <1>1 DEF Replaced, WindowsOnly
<1> QED
  BY <1>1, <1>3, <1>4, RollbackStep

LEMMA RestoreStep ==
  ASSUME IInv, NEW s \in Scanner, Restore(s)
  PROVE  IInv' /\ RegisterStep
<1>1. /\ pc[s] = "restore" /\ Goto(s, "clean_up") /\ Present(backup)
      /\ active' = backup /\ backup' = Absent /\ DirectoryChanges
      /\ UNCHANGED <<windows, overlap, temp, result, seen, scans>>
  BY DEF Restore, At
<1>2. ~overlap => active = Absent
  BY <1>1 DEF IInv, TakeTurns
<1>3. ~overlap => CurrentGen' = CurrentGen
  BY <1>1, <1>2 DEF CurrentGen, GenOf, Directory, Present
<1>4. Replaced # "clean_up" /\ pc[s] \in WindowsOnly
  BY <1>1 DEF Replaced, WindowsOnly
<1> QED
  BY <1>1, <1>3, <1>4, RollbackStep

\* The directory sync makes what is current the only thing a power loss leaves.
LEMMA SyncParentStep ==
  ASSUME IInv, NEW s \in Scanner, SyncParent(s)
  PROVE  IInv' /\ RegisterStep
<1> DEFINE r == [result[s] EXCEPT !.synced = TRUE]
<1>1. /\ pc[s] = "sync_parent" /\ Goto(s, "preflight") /\ durable' = {Directory}
      /\ result' = [result EXCEPT ![s] = r]
      /\ UNCHANGED <<windows, overlap, active, backup, temp, seen, scans>>
  BY DEF SyncParent, At, IInv, Types
<1>2. /\ result[s] \in Result /\ r \in Result /\ r.gen = result[s].gen
      /\ r.outage = result[s].outage /\ r.outcome = result[s].outcome
  BY DEF IInv, Types, Result
<1> HIDE DEF r
<1>3. Directory' = Directory /\ CurrentGen' = CurrentGen
  BY <1>1 DEF Directory, CurrentGen
<1>4. /\ temp[s] \in AnyFile /\ temp' = [temp EXCEPT ![s] = temp[s]]
  BY <1>1 DEF IInv, Types
<1>5. ~overlap => Present(active) /\ active.gen = scans
  BY <1>1 DEF IInv, TakeTurns, Activated
<1>6. /\ "preflight" \in ScannerLabel /\ "preflight" \notin WindowsOnly
      /\ "preflight" \notin Replacing /\ "preflight" \notin Staged
  BY DEF ScannerLabel, WindowsOnly, Replacing, Staged
<1>7. IInv'
  <2>1. /\ Directory' \in durable' /\ Sound(Directory')
        /\ \A d \in durable' : d \in durable \/ d = Directory'
        /\ durable' = {Directory'}
    BY <1>1, <1>3, Now
  <2>2. /\ ~windows => backup' = Absent
        /\ ~overlap => active'.gen <= scans /\ backup'.gen <= scans
        /\ ~overlap => CurrentGen' >= CurrentGen
    BY <1>1, <1>3, Now
  <2> QED
    BY <1>1, <1>2, <1>4, <1>5, <1>6, <2>1, <2>2, RunnerStep
<1>8. {GenOf(d) : d \in durable'} = {CurrentGen}
  BY <1>1 DEF CurrentGen
<1>9. Register!Secure
  BY <1>1, <1>3, <1>8 DEF Register!Secure
<1> QED
  BY <1>7, <1>9 DEF RegisterStep, Register!Next

\* The running scanner writes its temporary file.
LEMMA WriteStep ==
  ASSUME IInv, NEW s \in Scanner, FinishSave(s) \/ SyncAll(s)
  PROVE  IInv' /\ RegisterStep
<1>1. temp[s] \in File /\ pc[s] \in {"save", "sync"} /\ pc[s] \in Replacing
  BY FileShape DEF FinishSave, SyncAll, At, IInv, Types, Files, Replacing
<1>2. result[s] \in Result /\ result' = [result EXCEPT ![s] = result[s]]
  BY DEF FinishSave, SyncAll, IInv, Types
<1>3. UNCHANGED <<windows, overlap, active, backup, durable, seen, scans>>
  BY DEF FinishSave, SyncAll
<1> DEFINE whole  == [temp[s] EXCEPT !.state = "whole"]
           synced == [temp[s] EXCEPT !.state = "synced"]
<1>4. /\ whole \in File /\ whole.gen = temp[s].gen
      /\ synced \in File /\ synced.gen = temp[s].gen /\ synced.state = "synced"
  BY <1>1 DEF File
<1>5. temp' = [temp EXCEPT ![s] = whole] \/ temp' = [temp EXCEPT ![s] = synced]
  BY DEF FinishSave, SyncAll, IInv, Types
<1>6. CASE FinishSave(s)
  <2>1. temp' = [temp EXCEPT ![s] = whole] /\ Goto(s, "sync")
    BY <1>6 DEF FinishSave, IInv, Types
  <2> HIDE DEF whole, synced
  <2>2. whole \in AnyFile /\ Present(whole)
    BY <1>4, FileShape DEF AnyFile
  <2>3. /\ "sync" \in ScannerLabel /\ "sync" \notin WindowsOnly /\ "sync" \notin Staged
        /\ "sync" \notin Activated
    BY DEF ScannerLabel, WindowsOnly, Staged, Activated
  <2> QED
    BY <1>1, <1>2, <1>3, <1>4, <2>1, <2>2, <2>3, StayStep
<1>7. CASE SyncAll(s)
  <2>1. PICK label : label = IF windows THEN "exists" ELSE "rename"
    OBVIOUS
  <2>2. temp' = [temp EXCEPT ![s] = synced] /\ Goto(s, label)
    BY <1>7, <2>1 DEF SyncAll, IInv, Types
  <2> HIDE DEF whole, synced
  <2>3. synced \in AnyFile /\ Present(synced)
    BY <1>4, FileShape DEF AnyFile
  <2>4. /\ label \in ScannerLabel /\ (~windows => label \notin WindowsOnly)
        /\ label \notin {"save", "sync", "activate", "restore"} /\ label \notin Activated
    BY <2>1 DEF ScannerLabel, WindowsOnly, Activated
  <2> QED
    BY <1>1, <1>2, <1>3, <1>4, <2>2, <2>3, <2>4, StayStep
<1> QED
  BY <1>6, <1>7

\* The scan ends, or is killed.
LEMMA EndStep ==
  ASSUME IInv, NEW s \in Scanner, CleanUp(s) \/ ScanPreflight(s) \/ Kill(s)
  PROVE  IInv' /\ RegisterStep
<1>1. PICK f \in {temp[s], Absent} : temp' = [temp EXCEPT ![s] = f]
  BY DEF CleanUp, ScanPreflight, Kill, IInv, Types
<1>2. PICK outcome \in {"none", "ok", "error"} :
        /\ result' = [result EXCEPT ![s] = [result[s] EXCEPT !.outcome = outcome]]
        /\ outcome = "ok" => result[s].outcome = "ok" \/ pc[s] = "preflight"
  <2>1. result[s] \in Result /\ result \in [Scanner -> Result]
    BY DEF IInv, Types
  <2>2. CASE Kill(s)
    <3>1. /\ result[s].outcome \in {"none", "ok", "error"}
          /\ [result[s] EXCEPT !.outcome = result[s].outcome] = result[s]
      BY <2>1 DEF Result
    <3>2. result' = [result EXCEPT ![s] = [result[s] EXCEPT !.outcome = result[s].outcome]]
      BY <2>1, <2>2, <3>1 DEF Kill
    <3> QED
      BY <3>1, <3>2
  <2>3. CASE CleanUp(s)
    <3>1. result' = [result EXCEPT ![s] = [result[s] EXCEPT !.outcome = "error"]]
      BY <2>1, <2>3 DEF CleanUp, Ends
    <3> QED
      BY <3>1
  <2>4. CASE ScanPreflight(s)
    <3>1. PICK outcome \in {"ok", "error"} : Ends(s, outcome)
      BY <2>4 DEF ScanPreflight
    <3>2. result' = [result EXCEPT ![s] = [result[s] EXCEPT !.outcome = outcome]]
      BY <2>1, <3>1 DEF Ends
    <3>3. pc[s] = "preflight"
      BY <2>4 DEF ScanPreflight, At
    <3> QED
      BY <3>2, <3>3
  <2> QED
    BY <2>2, <2>3, <2>4
<1> DEFINE r == [result[s] EXCEPT !.outcome = outcome]
<1>3. /\ r \in Result /\ r.gen = result[s].gen /\ r.outage = result[s].outage
      /\ r.synced = result[s].synced /\ r.outcome = outcome
  BY DEF IInv, Types, Result
<1>4. result' = [result EXCEPT ![s] = r]
  BY <1>2
<1> HIDE DEF r
<1>5. f \in AnyFile
  BY DEF IInv, Types, AnyFile
<1>6. /\ pc[s] # "idle" /\ Goto(s, "idle")
      /\ UNCHANGED <<windows, overlap, active, backup, durable, seen, scans>>
  BY DEF CleanUp, ScanPreflight, Kill, Ends, At
<1>7. /\ "idle" \in ScannerLabel /\ "idle" \notin WindowsOnly /\ "idle" \notin Staged
      /\ "idle" \notin Replacing /\ "idle" \notin Activated
  BY DEF ScannerLabel, WindowsOnly, Staged, Replacing, Activated
<1> QED
  BY <1>1, <1>2, <1>3, <1>4, <1>5, <1>6, <1>7, StayStep

LEMMA ControlStep ==
  ASSUME IInv, NEW s \in Scanner,
         DestinationExists(s) \/ CallFails(s) \/ CallFindsNothing(s)
  PROVE  IInv' /\ RegisterStep
<1>1. UNCHANGED <<windows, overlap, active, backup, durable, temp, result, seen, scans>>
  BY DEF DestinationExists, CallFails, CallFindsNothing
<1>2. CASE DestinationExists(s)
  <2>1. PICK label \in {"replace", "rename"} : Goto(s, label) /\ pc[s] = "exists"
    BY <1>2 DEF DestinationExists, At
  <2>2. windows
    BY <2>1 DEF IInv, Unix, WindowsOnly
  <2>3. /\ label \in ScannerLabel /\ label \notin {"save", "sync", "activate", "restore"}
        /\ label \notin Activated /\ pc[s] \in Staged
    BY <2>1 DEF ScannerLabel, Activated, Staged
  <2> QED
    BY <1>1, <2>1, <2>2, <2>3, MoveStep
<1>3. CASE CallFails(s) \/ CallFindsNothing(s)
  <2>1. PICK label : label = OnFailure[pc[s]] /\ Goto(s, label)
    BY <1>3 DEF CallFails, CallFindsNothing
  <2>2. pc[s] \in DOMAIN OnFailure
    BY <1>3, FailureLabels DEF CallFails, CallFindsNothing, At
  <2>3. \/ /\ pc[s] \in {"save", "sync", "rename", "set_aside", "restore"}
           /\ label = "clean_up"
        \/ pc[s] = "replace" /\ label = "set_aside"
        \/ pc[s] = "activate" /\ label = "restore"
        \/ pc[s] \in {"drop_backup", "sync_parent"} /\ label = "preflight"
    BY <2>1, <2>2, FailureLabels
  <2>4. /\ label \in ScannerLabel /\ label \notin {"save", "sync"} /\ pc[s] # "idle"
        /\ label \in Staged => pc[s] \in Staged
        /\ label \in {"activate", "restore"} => pc[s] = "activate"
        /\ label \in Activated => pc[s] \in Activated
        /\ label \in WindowsOnly => pc[s] \in WindowsOnly
    BY <2>3 DEF ScannerLabel, Activated, Staged, WindowsOnly
  <2>5. ~windows => label \notin WindowsOnly
    BY <2>4 DEF IInv, Unix
  <2> QED
    BY <1>1, <2>1, <2>4, <2>5, MoveStep
<1> QED
  BY <1>2, <1>3

LEMMA ReplaceStep ==
  ASSUME IInv, NEW s \in Scanner, RenameOver(s) \/ ReplaceFileW(s) \/ Activate(s)
  PROVE  IInv' /\ RegisterStep
<1>1. CASE RenameOver(s) \/ ReplaceFileW(s)
  <2>1. /\ pc[s] \in {"rename", "replace"} /\ Goto(s, Replaced) /\ ActivateTemp(s)
        /\ UNCHANGED <<windows, overlap, result, seen, scans>>
    BY <1>1 DEF RenameOver, ReplaceFileW, At
  <2>2. Replaced \in Activated /\ pc[s] \in Staged /\ Replaced \notin WindowsOnly
    BY <2>1 DEF Replaced, Activated, Staged, WindowsOnly
  <2> QED
    BY <2>1, <2>2, ActivateStep
<1>2. CASE Activate(s)
  <2>1. /\ pc[s] = "activate" /\ Goto(s, "drop_backup") /\ ActivateTemp(s)
        /\ UNCHANGED <<windows, overlap, result, seen, scans>>
    BY <1>2 DEF Activate, At
  <2>2. windows /\ "drop_backup" \in Activated /\ pc[s] \in Staged
    BY <2>1 DEF IInv, Unix, Activated, Staged, WindowsOnly
  <2> QED
    BY <2>1, <2>2, ActivateStep
<1> QED
  BY <1>1, <1>2

ScannerNext(s) ==
  \/ BeginSave(s) \/ FinishSave(s) \/ SyncAll(s)
  \/ DestinationExists(s) \/ RenameOver(s) \/ ReplaceFileW(s) \/ SyncParent(s)
  \/ SetAside(s) \/ Activate(s) \/ DropBackup(s) \/ Restore(s)
  \/ CallFails(s) \/ CallFindsNothing(s) \/ CleanUp(s) \/ ScanPreflight(s)
  \/ Kill(s)

LEMMA ScannerStep ==
  ASSUME IInv, NEW s \in Scanner, ScannerNext(s)
  PROVE  IInv' /\ RegisterStep
BY BeginSaveStep, WriteStep, ControlStep, ReplaceStep, SyncParentStep, SetAsideStep,
   DropBackupStep, RestoreStep, EndStep DEF ScannerNext

-----------------------------------------------------------------------------
(* The readers and the loss of power.                                      *)

LEMMA ReaderStep ==
  ASSUME IInv, NEW r \in Reader, Preflight(r) \/ PreflightRejects(r) \/ Load(r)
  PROVE  IInv' /\ RegisterStep
<1>1. PICK f \in {Absent, active} : seen' = [seen EXCEPT ![r] = f]
  BY DEF Preflight, PreflightRejects, Load
<1>2. UNCHANGED <<windows, overlap, active, backup, durable, temp, result, scans>>
  BY DEF Preflight, PreflightRejects, Load
<1>3. /\ pc' \in [Scanner \union Reader -> ScannerLabel \union {"load"}]
      /\ \A s \in Scanner : pc'[s] = pc[s]
  <2>1. pc' = pc \/ pc' = [pc EXCEPT ![r] = "load"] \/ pc' = [pc EXCEPT ![r] = "idle"]
    BY DEF Preflight, PreflightRejects, Load, Goto
  <2>2. r \notin Scanner \/ pc'[r] = pc[r]
    <3>1. CASE PreflightRejects(r)
      BY <3>1 DEF PreflightRejects
    <3>2. CASE r \notin Scanner
      BY <3>2
    <3> QED
      BY <3>1, <3>2, ConstantAssumption
  <2> QED
    BY <2>1, <2>2 DEF IInv, Types, ScannerLabel
<1>4. f \in AnyFile /\ seen \in [Reader -> AnyFile]
  BY Now DEF IInv, Types, AnyFile
<1>5. Directory' = Directory /\ CurrentGen' = CurrentGen
  BY <1>2 DEF Directory, CurrentGen
<1>6. Types'
  BY <1>1, <1>2, <1>3, <1>4 DEF IInv, Types
<1>7. Files' /\ Unix'
  BY <1>2, <1>3, <1>5 DEF IInv, Files, Unix
<1>8. TakeTurns'
  BY <1>2, <1>3 DEF IInv, TakeTurns
<1>9. Kept'
  BY <1>2, <1>5 DEF IInv, Kept
<1>10. RegisterStep
  <2>1. CASE f = Absent
    <3>1. [p \in Reader |-> seen'[p].gen] =
             [[p \in Reader |-> seen[p].gen] EXCEPT ![r] = 0]
      BY <1>1, <1>4, <2>1, FileShape
    <3>2. Register!Forget(r)
      BY <1>2, <1>5, <3>1 DEF Register!Forget, Register!NoIndex
    <3> QED
      BY <3>2 DEF RegisterStep, Register!Next
  <2>2. CASE f # Absent
    <3>1. CurrentGen = f.gen /\ f.gen # 0
      BY <1>1, <1>4, <2>2, FileShape, CurrentShape DEF Present
    <3>2. [p \in Reader |-> seen'[p].gen] =
             [[p \in Reader |-> seen[p].gen] EXCEPT ![r] = CurrentGen]
      BY <1>1, <1>4, <3>1
    <3>3. Register!Load(r)
      BY <1>2, <1>5, <3>1, <3>2 DEF Register!Load, Register!NoIndex
    <3> QED
      BY <3>3 DEF RegisterStep, Register!Next
  <2> QED
    BY <2>1, <2>2
<1> QED
  BY <1>6, <1>7, <1>8, <1>9, <1>10 DEF IInv

\* Nothing sound is torn: the directory comes back as it was at some moment.
LEMMA PowerLossStep ==
  ASSUME IInv, PowerLoss
  PROVE  IInv' /\ RegisterStep
<1>1. PICK d \in durable : active' = Torn(d.active) /\ backup' = Torn(d.backup)
  BY DEF PowerLoss
<1>2. Sound(d) /\ d.active \in AnyFile /\ d.backup \in AnyFile
      /\ d = [active |-> d.active, backup |-> d.backup]
  BY CurrentShape DEF IInv, Files
<1>3. Torn(d.active) = d.active /\ Torn(d.backup) = d.backup
  BY <1>2, FileShape DEF Torn, Sound, Present
<1>4. active' = d.active /\ backup' = d.backup /\ Directory' = d /\ durable' = {d}
  BY <1>1, <1>2, <1>3 DEF PowerLoss, Directory
<1>5. CurrentGen' = GenOf(d)
  BY <1>4 DEF CurrentGen
<1>6. /\ temp' = [s \in Scanner |-> Torn(temp[s])] /\ seen' = [r \in Reader |-> Absent]
      /\ result' = [s \in Scanner |-> [result[s] EXCEPT !.outage = TRUE]]
      /\ pc' = [p \in Scanner \union Reader |-> "idle"]
      /\ UNCHANGED <<windows, overlap, scans>>
  BY DEF PowerLoss
<1>7. Types'
  <2>1. \A s \in Scanner : Torn(temp[s]) \in AnyFile
    <3> SUFFICES ASSUME NEW s \in Scanner PROVE Torn(temp[s]) \in AnyFile
      OBVIOUS
    <3>1. temp[s] \in AnyFile
      BY DEF IInv, Types
    <3>2. CASE temp[s].state # "whole"
      BY <3>1, <3>2 DEF Torn
    <3>3. CASE temp[s].state = "whole"
      <4>1. temp[s] \in File
        BY <3>1, <3>3, FileShape DEF AnyFile
      <4> QED
        BY <3>3, <4>1 DEF Torn, File, AnyFile
    <3> QED
      BY <3>2, <3>3
  <2>2. \A s \in Scanner : [result[s] EXCEPT !.outage = TRUE] \in Result
    BY DEF IInv, Types, Result
  <2> QED
    BY <1>6, <2>1, <2>2 DEF IInv, Types, AnyFile, ScannerLabel
<1>8. Files'
  BY <1>2, <1>4, <1>6 DEF Files, Staged
<1>9. Unix'
  BY <1>4, <1>6 DEF IInv, Unix, WindowsOnly
<1>10. TakeTurns'
  BY <1>4, <1>6 DEF IInv, TakeTurns, Replacing, Staged, Activated
<1>11. Kept'
  <2> SUFFICES ASSUME ~overlap PROVE Kept'
    BY <1>6 DEF Kept
  <2>1. \A s \in Scanner : /\ result'[s].outage /\ result'[s].gen = result[s].gen
                           /\ result'[s].synced = result[s].synced
    BY <1>6 DEF IInv, Types, Result
  <2>2. \A s \in Scanner : result[s].synced => GenOf(d) >= result[s].gen
    BY DEF IInv, Kept
  <2> QED
    BY <1>4, <2>1, <2>2 DEF Kept
<1>12. RegisterStep
  <2>1. [p \in Reader |-> seen'[p].gen] = [p \in Reader |-> 0]
    BY <1>6, FileShape
  <2>2. /\ CurrentGen' \in {GenOf(e) : e \in durable}
        /\ {GenOf(e) : e \in durable'} = {CurrentGen'}
    BY <1>4, <1>5
  <2>3. Register!Revert
    BY <1>6, <2>1, <2>2 DEF Register!Revert, Register!NoIndex
  <2> QED
    BY <2>3 DEF RegisterStep, Register!Next
<1> QED
  BY <1>7, <1>8, <1>9, <1>10, <1>11, <1>12 DEF IInv

-----------------------------------------------------------------------------
LEMMA InvNext == IInv /\ [Next]_vars => IInv' /\ RegisterStep
<1> SUFFICES ASSUME IInv, [Next]_vars PROVE IInv' /\ RegisterStep
  OBVIOUS
<1>1. CASE Next
  BY <1>1, ScannerStep, ReaderStep, PowerLossStep DEF Next, ScannerNext
<1>2. CASE UNCHANGED vars
  <2>1. /\ UNCHANGED <<windows, overlap, active, backup, durable, temp, pc, result, seen, scans>>
        /\ Directory' = Directory /\ CurrentGen' = CurrentGen
    BY <1>2 DEF vars, CurrentGen, Directory
  <2>2. Types' /\ Files' /\ Unix'
    BY <2>1 DEF IInv, Types, Files, Unix
  <2>3. TakeTurns' /\ Kept'
    BY <2>1 DEF IInv, TakeTurns, Kept
  <2> QED
    BY <2>1, <2>2, <2>3, RegisterStays DEF IInv
<1> QED
  BY <1>1, <1>2

LEMMA InvAlways == Spec => []IInv
BY InvInit, InvNext, PTL DEF Spec

-----------------------------------------------------------------------------
(* What follows.                                                           *)

\* Files have their shape, the present directory is among those the disk may
\* hold, and a scan about to move its temporary file has one.
THEOREM TypeCorrect == Spec => []TypeOK
<1>1. IInv => TypeOK
  <2> SUFFICES ASSUME IInv PROVE TypeOK
    OBVIOUS
  <2>1. /\ active \in AnyFile /\ backup \in AnyFile /\ Directory \in durable
    BY Now
  <2>2. durable \subseteq [active : AnyFile, backup : AnyFile]
    BY DEF IInv, Files, Sound
  <2>3. \A s \in Scanner :
          /\ temp[s] \in AnyFile /\ result[s] \in Result
          /\ pc[s] \in {"sync", "exists", "rename", "replace", "set_aside", "activate"}
               => Present(temp[s])
    BY DEF IInv, Types, Files, Staged
  <2>4. \A r \in Reader : seen[r] \in AnyFile
    BY DEF IInv, Types
  <2> QED
    BY <2>1, <2>2, <2>3, <2>4 DEF TypeOK, AnyFile
<1> QED
  BY <1>1, InvAlways, PTL

\* No kill, failing call or loss of power, at whatever point of whatever scan,
\* leaves a torn or unsynced index active, also when it undoes renames.
THEOREM ActiveAlwaysDurable == Spec => []ActiveIsDurable
<1>1. IInv => ActiveIsDurable
  BY Now DEF ActiveIsDurable
<1> QED
  BY <1>1, InvAlways, PTL

\* While scans take turns a scan that reported success is never undone, except
\* by a loss of power before a directory sync succeeded.
THEOREM AcknowledgedAlwaysKept == Spec => []AcknowledgedIsKept
<1>1. IInv => AcknowledgedIsKept
  <2> SUFFICES ASSUME IInv, ~overlap, NEW s \in Scanner, result[s].outcome = "ok",
                      result[s].outage => result[s].synced
               PROVE  CurrentGen >= result[s].gen
    BY DEF AcknowledgedIsKept
  <2>1. CASE ~result[s].outage
    BY <2>1 DEF IInv, Kept
  <2>2. CASE result[s].synced
    BY <2>2, Now DEF IInv, Kept, CurrentGen
  <2> QED
    BY <2>1, <2>2
<1> QED
  BY <1>1, InvAlways, PTL

\* On Unix an active index disappears only by a loss of power, and not by one
\* either once the directory was synced with an index in it.
THEOREM UnixAlwaysAvailable == Spec => AlwaysAvailable
<1> DEFINE Stays == /\ Present(active) => Present(active') \/ PowerLoss
                    /\ Held => Held' /\ Present(active')
<1>1. IInv /\ [Next]_vars => (~windows => Stays)
  <2> SUFFICES ASSUME IInv, [Next]_vars, ~windows PROVE Stays
    OBVIOUS
  <2>0. Held => Present(active)
    BY Now, CurrentShape DEF Held
  <2>1. CASE PowerLoss
    <3>1. PICK d \in durable : active' = Torn(d.active) /\ durable' = {Directory'}
      BY <2>1 DEF PowerLoss, Directory
    <3>2. Sound(d) /\ d.active \in AnyFile
      BY CurrentShape DEF IInv, Files
    <3>3. active' = d.active /\ Directory'.active = d.active
      BY <3>1, <3>2, FileShape DEF Torn, Sound, Directory, Present
    <3> QED
      BY <2>1, <3>1, <3>3 DEF Held
  <2>2. ASSUME NEW s \in Scanner, RenameOver(s) PROVE Stays
    <3>1. /\ Present(active') /\ durable' = durable \union {Directory'}
          /\ Directory'.active = active'
      BY <2>2 DEF RenameOver, ActivateTemp, DirectoryChanges, Directory, At, IInv, Files, Staged
    <3> QED
      BY <3>1 DEF Held
  <2>3. ASSUME NEW s \in Scanner
        PROVE  /\ ~ReplaceFileW(s) /\ ~SetAside(s) /\ ~Activate(s) /\ ~Restore(s)
               /\ ~DropBackup(s)
    BY DEF ReplaceFileW, SetAside, Activate, Restore, DropBackup, At, IInv, Unix, WindowsOnly
  <2>4. ASSUME NEW s \in Scanner, SyncParent(s) PROVE Stays
    <3>1. active' = active /\ durable' \subseteq durable
      BY <2>4, Now DEF SyncParent
    <3> QED
      BY <2>0, <3>1 DEF Held
  <2>5. ASSUME active' = active, durable' = durable PROVE Stays
    BY <2>0, <2>5 DEF Held
  <2>6. ASSUME NEW s \in Scanner,
               \/ BeginSave(s) \/ FinishSave(s) \/ SyncAll(s) \/ DestinationExists(s)
               \/ CallFails(s) \/ CallFindsNothing(s)
               \/ CleanUp(s) \/ ScanPreflight(s) \/ Kill(s)
        PROVE  active' = active /\ durable' = durable
    BY <2>6 DEF BeginSave, FinishSave, SyncAll, DestinationExists,
                CallFails, CallFindsNothing, CleanUp, ScanPreflight, Kill
  <2>7. ASSUME NEW r \in Reader, Preflight(r) \/ PreflightRejects(r) \/ Load(r)
        PROVE  active' = active /\ durable' = durable
    BY <2>7 DEF Preflight, PreflightRejects, Load
  <2>8. CASE UNCHANGED vars
    BY <2>5, <2>8 DEF vars
  <2> HIDE DEF Stays
  <2> QED
    BY <2>1, <2>2, <2>3, <2>4, <2>5, <2>6, <2>7, <2>8 DEF Next
<1> QED
  BY <1>1, InvAlways, PTL DEF Spec, AlwaysAvailable

\* Saving the index is an atomic replacement of the current one: in order while
\* scans take turns, never lost on Unix, readers get the current one, and a loss
\* of power goes back at most to the last successful directory sync.
THEOREM SavingImplementsRegister == Spec => ImplementsRegister
<1>1. Init => Register!Init
  BY FileShape DEF Init, Register!Init, Register!NoIndex, CurrentGen, GenOf, Directory, Present
<1>2. IInv /\ [Next]_vars => [Register!Next]_(Register!vars)
  BY InvNext DEF RegisterStep
<1> QED
  BY <1>1, <1>2, InvAlways, PTL DEF Spec, ImplementsRegister, Register!Spec

=============================================================================
