-------------------------- MODULE SkbInstallProofs ---------------------------
(***************************************************************************)
(* What the installer keeps, for any number of runs, operations and        *)
(* faults: only checked programs are installed, a user's program is not    *)
(* lost, and a success that nothing disturbed is one.                      *)
(***************************************************************************)
EXTENDS SkbInstall, TLAPS

USE InstallAssumption

-----------------------------------------------------------------------------
(* The inductive invariant behind TypeOK.                                  *)

Checked == {"target_exists", "set_aside", "activate", "decide_restore", "restore"}
Removing == {"purge", "schedule", "remove_dir"}
Label ==
  {"off", "ok", "error", "killed", "stop_daemon", "copy", "verify", "drop_backup",
   "remove_staging", "path", "scan", "daemon"} \union Checked \union Removing

\* Where a run is, and what it was asked for.
Control ==
  /\ pc \in [Run -> Label]
  /\ op \in [Run -> Operation \union {NoOperation}]
  /\ \A r \in Run : At(r, "off") => op[r] = NoOperation
  /\ \A r \in Run : ~At(r, "off") => op[r] \in Operation
  /\ \A r \in Run : pc[r] \in Removing => op[r].kind = "uninstall"
  /\ \A r \in Run : pc[r] \in {"scan", "daemon"} => op[r].kind = "install"
  /\ pending \subseteq {r \in Run : op[r].kind = "uninstall"}

\* The files: a run keeps the copy it has checked, and its source before that.
Files ==
  /\ dir \in BOOLEAN /\ path \in BOOLEAN /\ data \in {Absent, "empty", "indexed"}
  /\ staging \in [Run -> File \union {Absent}]
  /\ backup \in [Run -> {"good", Absent}]
  /\ target \in {"good", Absent}
  /\ inUse \subseteq {"target"} \union {r \in Run : Present(backup[r])}
  /\ InUse("target") => Present(target)
  /\ faults \in 0 .. MaxFaults
  /\ \A r \in Run : pc[r] \in Checked => staging[r] \in {"good", Absent}

IInv == Control /\ Files

LEMMA InitInv == Init => IInv
<1> SUFFICES ASSUME Init
             PROVE  Control /\ Files
  BY DEF IInv
<1>1. Control
  BY DEF Init, Control, At, Label, Removing
<1>2. Files
  <2>1. staging \in [Run -> File \union {Absent}] /\ backup \in [Run -> {"good", Absent}]
    BY DEF Init
  <2>2. faults \in 0 .. MaxFaults
    BY DEF Init
  <2>3. \A r \in Run : staging[r] = Absent
    BY DEF Init
  <2> QED
    BY <2>1, <2>2, <2>3 DEF Init, Files, InUse
<1> QED
  BY <1>1, <1>2

LEMMA ControlStep ==
  ASSUME Control, [Next]_vars
  PROVE  Control'
<1> USE DEF Control, At, Goto, Label, Checked, Removing
<1>1. CASE UNCHANGED vars
  BY <1>1 DEF vars, files
<1>2. ASSUME NEW r \in Run, NEW o \in Operation, Begin(r, o)
      PROVE  Control'
  <2>1. NoOperation.kind # "uninstall" /\ At(r, "off") /\ op[r] = NoOperation
    BY <1>2 DEF Begin, NoOperation
  <2>2. op' = [op EXCEPT ![r] = o] /\ pending' = pending
    BY <1>2 DEF Begin
  <2>3. \E label \in {"path", "stop_daemon"} : pc' = [pc EXCEPT ![r] = label]
    BY <1>2 DEF Begin
  <2> QED
    BY <2>1, <2>2, <2>3
<1>3. ASSUME NEW r \in Run, StopExistingDaemon(r)
      PROVE  Control'
  BY <1>3 DEF StopExistingDaemon
<1>4. ASSUME NEW r \in Run, UpdatePath(r)
      PROVE  Control'
  <2>1. op[r] \in Operation
    BY <1>4 DEF UpdatePath
  <2>2. op[r].kind \in {"install", "uninstall"}
    BY <2>1
  <2> QED
    BY <1>4, <2>2 DEF UpdatePath, files
<1>5. ASSUME NEW r \in Run, Install(r)
      PROVE  Control'
  BY <1>5 DEF Install, Copy, Verify, TargetExists, SetAside, Activate, DropBackup,
     DecideRestore, Restore, RemoveStaging, RunScan, StartDaemon, files
<1>6. ASSUME NEW r \in Run, Uninstall(r)
      PROVE  Control'
  BY <1>6 DEF Uninstall, Purge, ScheduleSelfDelete, RemoveDir, RemoveDirStops, files
<1>7. ASSUME NEW r \in Run, DeleteLater(r)
      PROVE  Control'
  BY <1>7 DEF DeleteLater
<1>8. ASSUME NEW r \in Run, CallFails(r) \/ CallRefused(r)
      PROVE  Control'
  BY <1>8 DEF CallFails, CallRefused, OnFailure, files
<1>9. ASSUME NEW r \in Run, Kill(r)
      PROVE  Control'
  BY <1>9 DEF Kill, Running
<1>10. CASE Use
  BY <1>10 DEF Use
<1>11. ASSUME NEW name, EndUse(name)
       PROVE  Control'
  BY <1>11 DEF EndUse
<1> QED
  BY <1>1, <1>2, <1>3, <1>4, <1>5, <1>6, <1>7, <1>8, <1>9, <1>10, <1>11 DEF Next

LEMMA FilesStep ==
  ASSUME Control, Files, [Next]_vars
  PROVE  Files'
<1> USE DEF Files, At, Goto, Present, InUse, Checked
<1>1. CASE UNCHANGED vars
  BY <1>1 DEF vars, files
<1>2. ASSUME NEW r \in Run, NEW o \in Operation, Begin(r, o)
      PROVE  Files'
  BY <1>2 DEF Begin, Control
<1>3. ASSUME NEW r \in Run, StopExistingDaemon(r)
      PROVE  Files'
  BY <1>3 DEF StopExistingDaemon, Control
<1>4. ASSUME NEW r \in Run, UpdatePath(r)
      PROVE  Files'
  BY <1>4 DEF UpdatePath, Control, files
<1>5. ASSUME NEW r \in Run, Copy(r)
      PROVE  Files'
  <2>1. op[r].source \in File
    BY <1>5 DEF Copy, Control, File
  <2> QED
    BY <1>5, <2>1 DEF Copy, Control
<1>6. ASSUME NEW r \in Run, Verify(r)
      PROVE  Files'
  BY <1>6 DEF Verify, Passes, Control, files
<1>7. ASSUME NEW r \in Run, TargetExists(r) \/ DecideRestore(r)
      PROVE  Files'
  BY <1>7 DEF TargetExists, DecideRestore, Control, files
<1>8. ASSUME NEW r \in Run, SetAside(r)
      PROVE  Files'
  <2>1. /\ target = "good" /\ target' = Absent
        /\ backup' = [backup EXCEPT ![r] = "good"]
        /\ inUse' = IF "target" \in inUse THEN (inUse \ {"target"}) \union {r} ELSE inUse
    BY <1>8 DEF SetAside, Renamed
  <2>2. inUse' \subseteq {q \in Run : Present(backup'[q])}
    <3> SUFFICES ASSUME NEW name \in inUse'
                 PROVE  name \in Run /\ backup'[name] # Absent
      OBVIOUS
    <3>1. CASE name = r
      BY <2>1, <3>1 DEF Absent
    <3>2. CASE name # r
      BY <2>1, <3>2
    <3> QED
      BY <3>1, <3>2
  <2>3. \A q \in Run : pc'[q] \in Checked => pc[q] \in Checked
    BY <1>8 DEF SetAside, Control
  <2>4. UNCHANGED <<dir, path, data, staging, faults>>
    BY <1>8 DEF SetAside
  <2>5. backup' \in [Run -> {"good", Absent}] /\ "target" \notin inUse'
    BY <2>1, <2>2
  <2> QED
    BY <2>1, <2>2, <2>3, <2>4, <2>5
<1>9. ASSUME NEW r \in Run, Activate(r)
      PROVE  Files'
  BY <1>9 DEF Activate, Control
<1>10. ASSUME NEW r \in Run, DropBackup(r)
       PROVE  Files'
  BY <1>10 DEF DropBackup, Control
<1>11. ASSUME NEW r \in Run, Restore(r)
       PROVE  Files'
  BY <1>11 DEF Restore, Renamed, Control
<1>12. ASSUME NEW r \in Run, RemoveStaging(r)
       PROVE  Files'
  BY <1>12 DEF RemoveStaging, Control
<1>13. ASSUME NEW r \in Run, RunScan(r) \/ StartDaemon(r)
       PROVE  Files'
  <2>1. CASE RunScan(r)
    BY <1>13, <2>1 DEF RunScan, Control, files
  <2>2. CASE StartDaemon(r)
    BY <1>13, <2>2 DEF StartDaemon, Control
  <2> QED
    BY <1>13, <2>1, <2>2
<1>14. ASSUME NEW r \in Run, Purge(r) \/ ScheduleSelfDelete(r)
       PROVE  Files'
  BY <1>14 DEF Purge, ScheduleSelfDelete, Control, files
<1>15. ASSUME NEW r \in Run, RemoveDir(r)
       PROVE  Files'
  BY <1>15 DEF RemoveDir, Control
<1>16. ASSUME NEW r \in Run, RemoveDirStops(r)
       PROVE  Files'
  BY <1>16 DEF RemoveDirStops, Control
<1>17. ASSUME NEW r \in Run, DeleteLater(r)
       PROVE  Files'
  BY <1>17 DEF DeleteLater, Control
<1>18. ASSUME NEW r \in Run, CallFails(r)
       PROVE  Files'
  BY <1>18 DEF CallFails, OnFailure, LeavesPart, PurgesPart, Control, File
<1>19. ASSUME NEW r \in Run, CallRefused(r)
       PROVE  Files'
  BY <1>19 DEF CallRefused, OnFailure, Control, files
<1>20. ASSUME NEW r \in Run, Kill(r)
       PROVE  Files'
  BY <1>20 DEF Kill, LeavesPart, PurgesPart, Control, File
<1>21. CASE Use
  BY <1>21 DEF Use, Control
<1>22. ASSUME NEW name, EndUse(name)
       PROVE  Files'
  BY <1>22 DEF EndUse, Control
<1> QED
  BY <1>1, <1>2, <1>3, <1>4, <1>5, <1>6, <1>7, <1>8, <1>9, <1>10, <1>11, <1>12, <1>13,
     <1>14, <1>15, <1>16, <1>17, <1>18, <1>19, <1>20, <1>21, <1>22
     DEF Next, Install, Uninstall

LEMMA InvStep == IInv /\ [Next]_vars => IInv'
BY ControlStep, FilesStep DEF IInv

\* An unchecked or partial copy is never the program nor set aside as one, what
\* is executed is there, and a run in its rollback has a checked copy or none.
THEOREM TypeCorrect == Spec => []TypeOK
<1>1. IInv => TypeOK
  BY DEF IInv, Control, Files, TypeOK, InRollback, Checked
<1> QED
  BY InitInv, InvStep, <1>1, PTL DEF Spec

-----------------------------------------------------------------------------
(* ProgramNotLost.  The invariant says where the program is: in its place, *)
(* or with a run that cannot come to drop its backup without activating    *)
(* its copy first.                                                         *)

Keeps(r) == Present(backup[r]) /\ ~At(r, "drop_backup") /\ (InRollback(r) \/ cut)
Kept == Present(target) \/ \E r \in Run : Keeps(r)
BackupsAreKept == (\E r \in Run : Present(backup[r])) => Kept

\* Nobody stops uninstalling, and only who does removes the directory.
LEMMA UninstallStep ==
  ASSUME Control, [Next]_vars, ~Uninstalling'
  PROVE  /\ ~Uninstalling
         /\ \A r \in Run : pc[r] \notin Removing /\ r \notin pending
<1>1. ~Uninstalling
  <2>1. ASSUME NEW r \in Run, NEW o \in Operation, Begin(r, o)
        PROVE  ~Uninstalling
    <3>1. op' = [op EXCEPT ![r] = o] /\ op[r] = NoOperation
      BY <2>1 DEF Begin, Control
    <3>2. \A q \in Run : q # r => op'[q] = op[q]
      BY <3>1 DEF Control
    <3>3. op[r].kind # "uninstall"
      BY <3>1 DEF NoOperation
    <3> QED
      BY <3>2, <3>3 DEF Uninstalling
  <2>2. CASE op' = op
    BY <2>2 DEF Uninstalling
  <2>3. (\E r \in Run, o \in Operation : Begin(r, o)) \/ op' = op
    BY DEF Next, vars, files, Install, Uninstall, StopExistingDaemon, UpdatePath, Copy,
       Verify, TargetExists, SetAside, Activate, DropBackup, DecideRestore, Restore,
       RemoveStaging, RunScan, StartDaemon, Purge, ScheduleSelfDelete, RemoveDir,
       RemoveDirStops, DeleteLater, CallFails, CallRefused, Kill, Use, EndUse
  <2> QED
    BY <2>1, <2>2, <2>3
<1> QED
  BY <1>1 DEF Control, Uninstalling

LEMMA KeptStep ==
  ASSUME IInv, [Next]_vars, ~Uninstalling', Kept
  PROVE  Kept'
<1> USE DEF IInv, Control, Files, Kept, Keeps, At, Goto, Present, InRollback, InUse
<1>1. CASE UNCHANGED vars
  BY <1>1 DEF vars, files
<1>2. ASSUME NEW r \in Run, NEW o \in Operation, Begin(r, o)
      PROVE  Kept'
  BY <1>2 DEF Begin
<1>3. ASSUME NEW r \in Run, StopExistingDaemon(r) \/ UpdatePath(r) \/ RunScan(r) \/ StartDaemon(r)
      PROVE  Kept'
  BY <1>3 DEF StopExistingDaemon, UpdatePath, RunScan, StartDaemon, files
<1>4. ASSUME NEW r \in Run, Copy(r) \/ Verify(r) \/ TargetExists(r)
      PROVE  Kept'
  BY <1>4 DEF Copy, Verify, TargetExists, files
<1>5. ASSUME NEW r \in Run, SetAside(r)
      PROVE  Kept'
  BY <1>5 DEF SetAside
<1>6. ASSUME NEW r \in Run, Activate(r)
      PROVE  Kept'
  BY <1>6 DEF Activate
<1>7. ASSUME NEW r \in Run, DropBackup(r)
      PROVE  Kept'
  BY <1>7 DEF DropBackup
<1>8. ASSUME NEW r \in Run, DecideRestore(r)
      PROVE  Kept'
  BY <1>8 DEF DecideRestore, NeedsRestore, files
<1>9. ASSUME NEW r \in Run, Restore(r)
      PROVE  Kept'
  BY <1>9 DEF Restore
<1>10. ASSUME NEW r \in Run, RemoveStaging(r)
       PROVE  Kept'
  BY <1>10 DEF RemoveStaging
<1>11. ASSUME NEW r \in Run, Uninstall(r) \/ DeleteLater(r)
       PROVE  Kept'
  BY <1>11, UninstallStep DEF Uninstall, Purge, ScheduleSelfDelete, RemoveDir,
     RemoveDirStops, DeleteLater, Removing
<1>12. ASSUME NEW r \in Run, CallFails(r)
       PROVE  Kept'
  <2> DEFINE next == OnFailure[pc[r]]
  <2>1. UNCHANGED <<target, backup>> /\ pc' = [pc EXCEPT ![r] = next]
    BY <1>12 DEF CallFails
  <2>2. cut \/ At(r, "restore") => cut'
    BY <1>12 DEF CallFails
  <2>3. next # "drop_backup" /\ ~At(r, "decide_restore")
    BY <1>12 DEF CallFails, OnFailure
  <2>4. At(r, "activate") => next = "decide_restore"
    BY DEF OnFailure
  <2> HIDE DEF next
  <2>5. ASSUME NEW q \in Run, Keeps(q)
        PROVE  Keeps(q)'
    <3>1. CASE q = r
      BY <2>1, <2>2, <2>3, <2>4, <2>5, <3>1
    <3>2. CASE q # r
      BY <2>1, <2>2, <2>5, <3>2
    <3> QED
      BY <3>1, <3>2
  <2> QED
    BY <2>1, <2>5
<1>13. ASSUME NEW r \in Run, CallRefused(r)
       PROVE  Kept'
  <2>1. UNCHANGED <<target, backup, cut>> /\ pc' = [pc EXCEPT ![r] = OnFailure[pc[r]]]
    BY <1>13 DEF CallRefused, files
  <2>2. CASE At(r, "activate")
    BY <2>1, <2>2 DEF OnFailure
  <2>3. CASE At(r, "restore")
    <3>1. ~Present(backup[r]) \/ Present(target)
      BY <1>13, <2>3 DEF CallRefused
    <3> QED
      BY <2>1, <2>3, <3>1 DEF OnFailure
  <2>4. CASE pc[r] \in {"copy", "set_aside", "drop_backup", "scan", "daemon"}
    BY <2>1, <2>4 DEF OnFailure
  <2> QED
    BY <1>13, <2>2, <2>3, <2>4 DEF CallRefused
<1>14. ASSUME NEW r \in Run, Kill(r)
       PROVE  Kept'
  BY <1>14 DEF Kill, Running
<1>15. CASE Use \/ \E name \in {"target"} \union Run : EndUse(name)
  BY <1>15 DEF Use, EndUse
<1> QED
  BY <1>1, <1>2, <1>3, <1>4, <1>5, <1>6, <1>7, <1>8, <1>9, <1>10, <1>11, <1>12, <1>13,
     <1>14, <1>15 DEF Next, Install

\* A program that is away from its place was set aside by somebody.
LEMMA BackupsStep ==
  ASSUME IInv, [Next]_vars, ~Uninstalling', BackupsAreKept
  PROVE  BackupsAreKept'
<1> SUFFICES ASSUME NEW r \in Run, Present(backup[r])', ~Present(backup[r]), ~Kept
             PROVE  Kept'
  BY KeptStep DEF BackupsAreKept
<1>1. SetAside(r)
  BY UninstallStep DEF Next, vars, files, Install, Uninstall, Begin, StopExistingDaemon,
     UpdatePath, Copy, Verify, TargetExists, SetAside, Activate, DropBackup, DecideRestore,
     Restore, RemoveStaging, RunScan, StartDaemon, Purge, ScheduleSelfDelete, RemoveDir,
     RemoveDirStops, DeleteLater, CallFails, CallRefused, Kill, Use, EndUse,
     Present, IInv, Control, Files, Removing
<1> QED
  BY <1>1 DEF SetAside, Kept, Present

KeptInv == IInv /\ (Uninstalling \/ BackupsAreKept)

LEMMA KeptInvInvariant == Spec => []KeptInv
<1>1. Init => KeptInv
  BY InitInv DEF KeptInv, BackupsAreKept, Init, Present
<1>2. KeptInv /\ [Next]_vars => KeptInv'
  BY InvStep, UninstallStep, BackupsStep DEF KeptInv, IInv
<1> QED
  BY <1>1, <1>2, PTL DEF Spec

\* However many installers overlap, whichever calls fail, whoever is killed and
\* whatever is executed: until somebody uninstalls, the program stays in its
\* place or with a run, or a run's backup, that keeps it.
THEOREM ProgramIsNotLost == Spec => ProgramNotLost
<1>1. KeptInv /\ [Next]_vars
        => [HasProgram /\ ~Uninstalling' => HasProgram']_vars
  <2> SUFFICES ASSUME KeptInv, [Next]_vars, HasProgram, ~Uninstalling'
               PROVE  HasProgram'
    OBVIOUS
  <2>1. BackupsAreKept
    BY UninstallStep DEF KeptInv, IInv
  <2>2. Kept
    BY <2>1 DEF HasProgram, Kept, BackupsAreKept
  <2>3. Kept'
    BY <2>2, KeptStep DEF KeptInv
  <2> QED
    BY <2>3 DEF Kept, Keeps, HasProgram
<1> QED
  BY <1>1, KeptInvInvariant, PTL DEF Spec, ProgramNotLost

-----------------------------------------------------------------------------
(* OkMeansDone.  The invariant says how far a run that is alone has come   *)
(* with what it was asked for.                                             *)

InstallDone(r) ==
  /\ pc[r] \in {"drop_backup", "path", "scan", "daemon", "ok"} => Present(target)
  /\ op[r].addPath /\ pc[r] \in {"scan", "daemon", "ok"} => path
  /\ op[r].scan /\ pc[r] \in {"daemon", "ok"} => data = "indexed"
  /\ op[r].startDaemon /\ At(r, "ok") => data = "indexed"

UninstallDone(r) ==
  /\ pc[r] \in Removing \union {"ok"} => ~path
  /\ op[r].purge /\ pc[r] \in {"schedule", "remove_dir", "ok"} => data = Absent
  /\ At(r, "schedule") => op[r].here
  /\ ~op[r].here /\ At(r, "ok") => ~dir

Undisturbed(r) ==
  /\ \A q \in Run \ {r} : ~Running(q)
  /\ pending \subseteq {r}
  /\ op[r].kind = "install" => InstallDone(r)
  /\ op[r].kind = "uninstall" => UninstallDone(r)

Active(r) == Running(r) \/ At(r, "ok")
AloneInv == \A r \in Run : alone[r] /\ Active(r) => Undisturbed(r)

\* The steps of run r after its first and before its end.
RunStep(r) ==
  \/ StopExistingDaemon(r) \/ UpdatePath(r) \/ Install(r) \/ Uninstall(r)
  \/ CallFails(r) \/ CallRefused(r) \/ Kill(r)

LEMMA RunStepRuns ==
  ASSUME IInv, NEW r \in Run, RunStep(r)
  PROVE  /\ Running(r)
         /\ alone' = alone /\ op' = op
         /\ \A q \in Run \ {r} : pc'[q] = pc[q]
<1>1. Running(r)
  BY DEF RunStep, Running, At, Install, Uninstall, StopExistingDaemon, UpdatePath, Copy,
     Verify, TargetExists, SetAside, Activate, DropBackup, DecideRestore, Restore,
     RemoveStaging, RunScan, StartDaemon, Purge, ScheduleSelfDelete, RemoveDir,
     RemoveDirStops, CallFails, CallRefused, Kill, OnFailure
<1>2. alone' = alone /\ op' = op
  BY DEF RunStep, files, Install, Uninstall, StopExistingDaemon, UpdatePath, Copy,
     Verify, TargetExists, SetAside, Activate, DropBackup, DecideRestore, Restore,
     RemoveStaging, RunScan, StartDaemon, Purge, ScheduleSelfDelete, RemoveDir,
     RemoveDirStops, CallFails, CallRefused, Kill
<1>3. \E label : pc' = [pc EXCEPT ![r] = label]
  BY DEF RunStep, Goto, Install, Uninstall, StopExistingDaemon, UpdatePath, Copy,
     Verify, TargetExists, SetAside, Activate, DropBackup, DecideRestore, Restore,
     RemoveStaging, RunScan, StartDaemon, Purge, ScheduleSelfDelete, RemoveDir,
     RemoveDirStops, CallFails, CallRefused, Kill
<1> QED
  BY <1>1, <1>2, <1>3 DEF IInv, Control

\* What an undisturbed run does brings it forward.
LEMMA InstallDoneStep ==
  ASSUME IInv, NEW r \in Run, RunStep(r), op[r].kind = "install", InstallDone(r)
  PROVE  InstallDone(r)'
<1> USE DEF IInv, Control, Files, InstallDone, At, Goto, Present
<1>1. op[r] \in Operation /\ op' = op
  BY RunStepRuns DEF NoOperation
<1>2. CASE StopExistingDaemon(r) \/ Copy(r) \/ Verify(r) \/ TargetExists(r)
  BY <1>1, <1>2 DEF StopExistingDaemon, Copy, Verify, TargetExists
<1>3. CASE SetAside(r) \/ DecideRestore(r) \/ Restore(r) \/ RemoveStaging(r)
  BY <1>1, <1>3 DEF SetAside, DecideRestore, Restore, RemoveStaging
<1>4. CASE Activate(r) \/ DropBackup(r)
  BY <1>1, <1>4 DEF Activate, DropBackup
<1>5. CASE UpdatePath(r)
  BY <1>1, <1>5 DEF UpdatePath, files
<1>6. CASE RunScan(r)
  BY <1>1, <1>6 DEF RunScan, files
<1>7. CASE StartDaemon(r)
  BY <1>1, <1>7 DEF StartDaemon
<1>8. CASE Uninstall(r)
  BY <1>8 DEF Uninstall, Purge, ScheduleSelfDelete, RemoveDir, RemoveDirStops, Removing
<1>9. CASE CallFails(r)
  BY <1>1, <1>9 DEF CallFails, OnFailure
<1>10. CASE CallRefused(r)
  BY <1>1, <1>10 DEF CallRefused, OnFailure, files
<1>11. CASE Kill(r)
  BY <1>1, <1>11 DEF Kill
<1> QED
  BY <1>2, <1>3, <1>4, <1>5, <1>6, <1>7, <1>8, <1>9, <1>10, <1>11 DEF RunStep, Install

LEMMA UninstallDoneStep ==
  ASSUME IInv, NEW r \in Run, RunStep(r), op[r].kind = "uninstall", UninstallDone(r)
  PROVE  UninstallDone(r)'
<1> USE DEF IInv, Control, Files, UninstallDone, Removing, At, Goto, Present
<1>1. op[r] \in Operation /\ op' = op
  BY RunStepRuns DEF NoOperation
<1>2. CASE StopExistingDaemon(r)
  BY <1>1, <1>2 DEF StopExistingDaemon
<1>3. CASE Install(r)
  <2>1. UNCHANGED path /\ pc'[r] \notin Removing \union {"ok"}
    BY <1>3 DEF Install, files, Copy, Verify, TargetExists, SetAside, Activate, DropBackup,
       DecideRestore, Restore, RemoveStaging, RunScan, StartDaemon
  <2> QED
    BY <1>1, <2>1
<1>4. CASE UpdatePath(r)
  BY <1>1, <1>4 DEF UpdatePath, files
<1>5. CASE Purge(r)
  BY <1>1, <1>5 DEF Purge, files
<1>6. CASE ScheduleSelfDelete(r)
  BY <1>1, <1>6 DEF ScheduleSelfDelete, files
<1>7. CASE RemoveDir(r) \/ RemoveDirStops(r)
  BY <1>1, <1>7 DEF RemoveDir, RemoveDirStops
<1>8. CASE CallFails(r) \/ CallRefused(r)
  BY <1>1, <1>8 DEF CallFails, CallRefused, OnFailure, files
<1>9. CASE Kill(r)
  BY <1>1, <1>9 DEF Kill
<1> QED
  BY <1>2, <1>3, <1>4, <1>5, <1>6, <1>7, <1>8, <1>9 DEF RunStep, Uninstall

LEMMA PendingStep ==
  ASSUME IInv, NEW r \in Run, RunStep(r)
  PROVE  pending' \subseteq pending \union {r}
BY DEF RunStep, files, Install, Uninstall, StopExistingDaemon, UpdatePath, Copy, Verify,
   TargetExists, SetAside, Activate, DropBackup, DecideRestore, Restore, RemoveStaging,
   RunScan, StartDaemon, Purge, ScheduleSelfDelete, RemoveDir, RemoveDirStops, CallFails,
   CallRefused, Kill

LEMMA BeginStep ==
  ASSUME IInv, NEW q \in Run, NEW o \in Operation, Begin(q, o),
         NEW r \in Run, alone'[r]
  PROVE  Undisturbed(r)'
<1> USE DEF IInv, Control
<1>1. r = q /\ pending = {} /\ \A other \in Run : ~Running(other)
  BY DEF Begin
<1>2. /\ op'[r] = o /\ pc'[r] \in {"path", "stop_daemon"} /\ pending' = {}
      /\ pc'[r] = "path" => o.kind = "install" /\ Present(target')
  BY <1>1 DEF Begin, Goto
<1>3. \A other \in Run \ {r} : ~Running(other)'
  BY <1>1 DEF Begin, Goto, Running
<1>4. InstallDone(r)'
  BY <1>2 DEF InstallDone, At
<1>5. o.kind = "uninstall" => UninstallDone(r)'
  BY <1>2 DEF UninstallDone, Removing, At
<1> QED
  BY <1>2, <1>3, <1>4, <1>5 DEF Undisturbed

LEMMA AloneStep ==
  ASSUME IInv, AloneInv, [Next]_vars
  PROVE  AloneInv'
<1> SUFFICES ASSUME NEW r \in Run, alone'[r], Active(r)'
             PROVE  Undisturbed(r)'
  BY DEF AloneInv
<1>1. CASE UNCHANGED vars
  <2>1. alone[r] /\ Active(r)
    BY <1>1 DEF vars, files, Active, Running, At
  <2> QED
    BY <1>1, <2>1 DEF AloneInv, vars, files, Undisturbed, Running, InstallDone,
       UninstallDone, Removing, At, Present
<1>2. ASSUME NEW q \in Run, NEW o \in Operation, Begin(q, o)
      PROVE  Undisturbed(r)'
  BY <1>2, BeginStep
<1>3. ASSUME NEW q \in Run, RunStep(q)
      PROVE  Undisturbed(r)'
  <2>1. Running(q) /\ alone[r] /\ op' = op
        /\ \A p \in Run \ {q} : pc'[p] = pc[p]
    BY <1>3, RunStepRuns
  <2>2. Active(r)
    BY <2>1 DEF Active, Running, At
  <2>3. Undisturbed(r)
    BY <2>1, <2>2 DEF AloneInv
  <2>4. q = r
    BY <2>1, <2>3 DEF Undisturbed
  <2>5. pending' \subseteq {r}
    BY <1>3, <2>3, <2>4, PendingStep DEF Undisturbed
  <2>6. \A p \in Run \ {r} : ~Running(p)'
    BY <2>1, <2>3, <2>4 DEF Undisturbed, Running
  <2>7. op[r].kind = "install" => InstallDone(r)'
    BY <1>3, <2>3, <2>4, InstallDoneStep DEF Undisturbed
  <2>8. op[r].kind = "uninstall" => UninstallDone(r)'
    BY <1>3, <2>3, <2>4, UninstallDoneStep DEF Undisturbed
  <2> QED
    BY <2>1, <2>5, <2>6, <2>7, <2>8 DEF Undisturbed
<1>4. ASSUME NEW q \in Run, DeleteLater(q)
      PROVE  Undisturbed(r)'
  <2>1. UNCHANGED <<pc, op, alone, path, data>> /\ q \in pending
        /\ pending' \subseteq pending /\ (dir' => dir)
    BY <1>4 DEF DeleteLater
  <2>2. Undisturbed(r)
    BY <2>1 DEF AloneInv, Active, Running, At
  <2>3. op[r].kind = "uninstall"
    BY <2>1, <2>2 DEF Undisturbed, IInv, Control
  <2>4. UninstallDone(r)'
    BY <2>1, <2>2, <2>3 DEF Undisturbed, UninstallDone, Removing, At
  <2> QED
    BY <2>1, <2>2, <2>3, <2>4 DEF Undisturbed, Running
<1>5. CASE Use \/ \E name \in {"target"} \union Run : EndUse(name)
  <2>1. UNCHANGED <<pc, op, alone, target, path, data, dir, pending>>
    BY <1>5 DEF Use, EndUse
  <2>2. Undisturbed(r)
    BY <2>1 DEF AloneInv, Active, Running, At
  <2> QED
    BY <2>1, <2>2 DEF Undisturbed, Running, InstallDone, UninstallDone, Removing, At, Present
<1> QED
  BY <1>1, <1>2, <1>3, <1>4, <1>5 DEF Next, RunStep

\* A run that nothing overlapped and that reports success has installed,
\* registered, scanned and started, or removed, what it was asked to.
THEOREM SuccessIsDone == Spec => []OkMeansDone
<1>1. Init => AloneInv
  BY DEF Init, AloneInv
<1>2. IInv /\ AloneInv /\ [Next]_vars => AloneInv'
  BY AloneStep
<1>3. IInv /\ AloneInv => OkMeansDone
  <2> SUFFICES ASSUME IInv, AloneInv, NEW r \in Run, At(r, "ok"), alone[r]
               PROVE  IF op[r].kind = "install"
                      THEN /\ Present(target)
                           /\ op[r].addPath => path
                           /\ op[r].scan \/ op[r].startDaemon => data = "indexed"
                      ELSE /\ ~path
                           /\ op[r].purge => data = Absent
                           /\ ~op[r].here => ~dir
    BY DEF OkMeansDone
  <2>1. Undisturbed(r)
    BY DEF AloneInv, Active
  <2>2. op[r].kind \in {"install", "uninstall"}
    BY DEF IInv, Control, At
  <2> QED
    BY <2>1, <2>2 DEF Undisturbed, InstallDone, UninstallDone, At
<1> QED
  BY InitInv, InvStep, <1>1, <1>2, <1>3, PTL DEF Spec

=============================================================================
