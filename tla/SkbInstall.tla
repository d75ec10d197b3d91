----------------------------- MODULE SkbInstall ------------------------------
(***************************************************************************)
(* The installer inside SKB.exe, on Windows: `install` and `repair` stage  *)
(* a copy of the running program, check it, set the old program aside,     *)
(* activate the copy, and restore the old one if that fails; `uninstall`   *)
(* removes the program, the PATH entry and, with --purge-data, the data.   *)
(* Several of these may run at once; any call may fail and any process may *)
(* be killed between two calls.                                            *)
(*                                                                         *)
(* Of the file system this is used: a rename replaces its destination as a *)
(* whole, a program that is being executed can be renamed but neither      *)
(* removed nor replaced, and removing a directory tree may stop half way.  *)
(***************************************************************************)
EXTENDS Integers, FiniteSets

CONSTANTS
  Run,          \* runs of the installer, each a process of its own
  Operation,    \* what a run may be asked for
  MaxFaults     \* bound: failing calls and killed runs

ASSUME InstallAssumption ==
  /\ MaxFaults \in Nat
  /\ "target" \notin Run
  /\ Operation \subseteq
       [kind : {"install", "uninstall"},
        here : BOOLEAN,              \* the run executes the installed program
        source : {"good", "broken"}, \* whether its own program passes the checks
        addPath : BOOLEAN, scan : BOOLEAN, startDaemon : BOOLEAN,
        purge : BOOLEAN]

Absent == "absent"
File == {"partial", "broken", "good"}

VARIABLES
  dir,      \* the install directory exists
  target,   \* SKB.exe in it
  staging,  \* staging[r], backup[r]: the files of run r, whose names hold the
  backup,   \* process id and the time
  inUse,    \* the old and new programs that a daemon or an MCP client executes
  path,     \* the user's PATH has the install directory
  data,     \* the data directory: absent, without or with an index
  pending,  \* the runs whose self-deletion is scheduled
  op,       \* op[r]: what run r was asked for
  pc,       \* what run r does next
  faults,   \* the number of faults so far
  alone,    \* ghost: alone[r], nothing else has run since r began
  cut       \* ghost: a run was killed, or a rename failed, in the rollback

files == <<dir, target, staging, backup, inUse>>
vars == <<files, path, data, pending, op, pc, faults, alone, cut>>

NoOperation == [kind |-> "none"]
Present(f) == f # Absent

Goto(r, label) == pc' = [pc EXCEPT ![r] = label]
At(r, label) == pc[r] = label
Running(r) == pc[r] \notin {"off", "ok", "error", "killed"}

\* inUse names the files that are executed: "target", or the run whose backup
\* the program has become.
InUse(name) == name \in inUse

Init ==
  /\ dir = FALSE /\ target = Absent
  /\ staging = [r \in Run |-> Absent]
  /\ backup = [r \in Run |-> Absent]
  /\ inUse = {} /\ path = FALSE /\ data = Absent /\ pending = {}
  /\ op = [r \in Run |-> NoOperation]
  /\ pc = [r \in Run |-> "off"]
  /\ faults = 0 /\ cut = FALSE
  /\ alone = [r \in Run |-> FALSE]

-----------------------------------------------------------------------------
(* install_windows and uninstall_windows.                                  *)

\* An install makes its directories first.  A run from the installed program
\* has nothing to copy.
Begin(r, o) ==
  /\ At(r, "off")
  /\ o.here => Present(target)
  /\ op' = [op EXCEPT ![r] = o]
  /\ alone' = [q \in Run |-> /\ q = r /\ pending = {}
                             /\ \A other \in Run : ~Running(other)]
  /\ IF o.kind = "install"
     THEN /\ dir' = TRUE
          /\ data' = IF Present(data) THEN data ELSE "empty"
          /\ Goto(r, IF o.here THEN "path" ELSE "stop_daemon")
     ELSE UNCHANGED <<dir, data>> /\ Goto(r, "stop_daemon")
  /\ UNCHANGED <<target, staging, backup, inUse, path, pending, faults, cut>>

\* The outcome is ignored; an MCP client is not stopped.
StopExistingDaemon(r) ==
  /\ At(r, "stop_daemon")
  /\ \/ Present(target) /\ inUse' = inUse \ {"target"}
     \/ UNCHANGED inUse
  /\ Goto(r, IF op[r].kind = "install" THEN "copy" ELSE "path")
  /\ UNCHANGED <<dir, target, staging, backup, path, data, pending, op, faults, alone, cut>>

-----------------------------------------------------------------------------
(* replace_installed_binary                                                *)

Copy(r) ==
  /\ At(r, "copy") /\ dir
  /\ staging' = [staging EXCEPT ![r] = op[r].source]
  /\ Goto(r, "verify")
  /\ UNCHANGED <<dir, target, backup, inUse, path, data, pending, op, faults, alone, cut>>

\* Mutant of Passes: any file passes.
PassesUnchecked(file) == Present(file)
Passes(file) == file = "good"

\* verify_binary and run_version_check; an error leaves the staged file.
Verify(r) ==
  /\ At(r, "verify")
  /\ Goto(r, IF Passes(staging[r]) THEN "target_exists" ELSE "error")
  /\ UNCHANGED <<files, path, data, pending, op, faults, alone, cut>>

TargetExists(r) ==
  /\ At(r, "target_exists")
  /\ Goto(r, IF Present(target) THEN "set_aside" ELSE "activate")
  /\ UNCHANGED <<files, path, data, pending, op, faults, alone, cut>>

Renamed(from, to) == IF from \in inUse THEN (inUse \ {from}) \union {to} ELSE inUse

SetAside(r) ==
  /\ At(r, "set_aside") /\ Present(target)
  /\ backup' = [backup EXCEPT ![r] = target]
  /\ target' = Absent
  /\ inUse' = Renamed("target", r)
  /\ Goto(r, "activate")
  /\ UNCHANGED <<dir, staging, path, data, pending, op, faults, alone, cut>>

Activate(r) ==
  /\ At(r, "activate") /\ Present(staging[r]) /\ ~InUse("target")
  /\ target' = staging[r]
  /\ staging' = [staging EXCEPT ![r] = Absent]
  /\ Goto(r, "drop_backup")
  /\ UNCHANGED <<dir, backup, inUse, path, data, pending, op, faults, alone, cut>>

DropBackup(r) ==
  /\ At(r, "drop_backup") /\ Present(backup[r]) /\ ~InUse(r)
  /\ backup' = [backup EXCEPT ![r] = Absent]
  /\ Goto(r, "path")
  /\ UNCHANGED <<dir, target, staging, inUse, path, data, pending, op, faults, alone, cut>>

\* Mutant of NeedsRestore: leaves the old program aside.
NeverRestores(r) == FALSE

\* had_target && backup.exists() && !target.exists(): a backup of this run is
\* only there if it had a target.
NeedsRestore(r) == Present(backup[r]) /\ ~Present(target)

DecideRestore(r) ==
  /\ At(r, "decide_restore")
  /\ Goto(r, IF NeedsRestore(r) THEN "restore" ELSE "remove_staging")
  /\ UNCHANGED <<files, path, data, pending, op, faults, alone, cut>>

Restore(r) ==
  /\ At(r, "restore") /\ Present(backup[r]) /\ ~InUse("target")
  /\ target' = backup[r]
  /\ backup' = [backup EXCEPT ![r] = Absent]
  /\ inUse' = Renamed(r, "target")
  /\ Goto(r, "remove_staging")
  /\ UNCHANGED <<dir, staging, path, data, pending, op, faults, alone, cut>>

RemoveStaging(r) ==
  /\ At(r, "remove_staging")
  /\ staging' = [staging EXCEPT ![r] = Absent]
  /\ Goto(r, "error")
  /\ UNCHANGED <<dir, target, backup, inUse, path, data, pending, op, faults, alone, cut>>

-----------------------------------------------------------------------------
(* The rest of an install and of an uninstall.                             *)

\* Mutant of UpdatePath: forgets to register.
UpdatePathNever(r) ==
  /\ At(r, "path")
  /\ Goto(r, IF op[r].kind = "install" THEN "scan" ELSE "purge")
  /\ UNCHANGED <<files, path, data, pending, op, faults, alone, cut>>

\* add_user_path unless --no-path, or remove_user_path.
UpdatePath(r) ==
  /\ At(r, "path")
  /\ IF op[r].kind = "install"
     THEN path' = (path \/ op[r].addPath) /\ Goto(r, "scan")
     ELSE path' = FALSE /\ Goto(r, "purge")
  /\ UNCHANGED <<files, data, pending, op, faults, alone, cut>>

\* run_installed with `scan`.
RunScan(r) ==
  /\ At(r, "scan")
  /\ op[r].scan => Present(target)
  /\ data' = IF op[r].scan THEN "indexed" ELSE data
  /\ Goto(r, "daemon")
  /\ UNCHANGED <<files, path, pending, op, faults, alone, cut>>

\* run_installed with `daemon-start`, refused without an index.
StartDaemon(r) ==
  /\ At(r, "daemon")
  /\ op[r].startDaemon => data = "indexed" /\ Present(target)
  /\ inUse' = IF op[r].startDaemon THEN inUse \union {"target"} ELSE inUse
  /\ Goto(r, "ok")
  /\ UNCHANGED <<dir, target, staging, backup, path, data, pending, op, faults, alone, cut>>

Purge(r) ==
  /\ At(r, "purge")
  /\ data' = IF op[r].purge THEN Absent ELSE data
  /\ Goto(r, IF op[r].here THEN "schedule" ELSE "remove_dir")
  /\ UNCHANGED <<files, path, pending, op, faults, alone, cut>>

\* schedule_self_delete: the program cannot remove itself while it runs.
ScheduleSelfDelete(r) ==
  /\ At(r, "schedule")
  /\ pending' = pending \union {r}
  /\ Goto(r, "ok")
  /\ UNCHANGED <<files, path, data, op, faults, alone, cut>>

\* remove_dir_all takes whatever is in the directory, also of other runs.
RemoveDir(r) ==
  /\ At(r, "remove_dir") /\ inUse = {}
  /\ dir' = FALSE /\ target' = Absent
  /\ staging' = [q \in Run |-> Absent]
  /\ backup' = [q \in Run |-> Absent]
  /\ Goto(r, "ok")
  /\ UNCHANGED <<inUse, path, data, pending, op, faults, alone, cut>>

\* At a program that is executed it stops, and has removed any of the others.
RemoveDirStops(r) ==
  /\ At(r, "remove_dir") /\ inUse # {}
  /\ \E R \in SUBSET Run :
       /\ staging' = [q \in Run |-> IF q \in R THEN Absent ELSE staging[q]]
       /\ backup' = [q \in Run |-> IF q \in R /\ ~InUse(q) THEN Absent ELSE backup[q]]
  /\ target' \in {target} \union (IF InUse("target") THEN {} ELSE {Absent})
  /\ Goto(r, "error")
  /\ UNCHANGED <<dir, inUse, path, data, pending, op, faults, alone, cut>>

\* The script, some time later: what is in use stays, the directory too unless
\* it is empty, and nobody is told.
DeleteLater(r) ==
  /\ r \in pending
  /\ pending' = pending \ {r}
  /\ target' \in {target} \union (IF InUse("target") THEN {} ELSE {Absent})
  /\ dir' = (dir /\ \E f \in {target'} \union {staging[q] : q \in Run}
                              \union {backup[q] : q \in Run} : Present(f))
  /\ UNCHANGED <<staging, backup, inUse, path, data, op, pc, faults, alone, cut>>

-----------------------------------------------------------------------------
(* Failing calls, kills, and the clients of the installed program.         *)

\* `?` ends the run; only a failed activation is rolled back, and what cannot
\* be dropped, restored or cleaned up is ignored.
OnFailure ==
  [copy |-> "error", verify |-> "error", set_aside |-> "error",
   activate |-> "decide_restore", drop_backup |-> "path",
   restore |-> "remove_staging", remove_staging |-> "error",
   path |-> "error", scan |-> "error", daemon |-> "error",
   purge |-> "error", schedule |-> "error", remove_dir |-> "error"]

\* A copy that fails or is killed may leave a part of the file.
LeavesPart(r) ==
  staging' \in {staging} \union
    (IF At(r, "copy") /\ dir THEN {[staging EXCEPT ![r] = "partial"]} ELSE {})

\* A purge that fails or is killed may have removed the index already.
PurgesPart(r) ==
  data' \in {data} \union
    (IF At(r, "purge") /\ op[r].purge /\ Present(data) THEN {"empty"} ELSE {})

CallFails(r) ==
  /\ faults < MaxFaults
  /\ pc[r] \in DOMAIN OnFailure
  /\ faults' = faults + 1
  /\ Goto(r, OnFailure[pc[r]])
  /\ LeavesPart(r) /\ PurgesPart(r)
  /\ cut' = (cut \/ At(r, "restore"))
  /\ UNCHANGED <<dir, target, backup, inUse, path, pending, op, alone>>

\* The calls whose file is missing or in use.
CallRefused(r) ==
  /\ \/ At(r, "copy") /\ ~dir
     \/ At(r, "set_aside") /\ ~Present(target)
     \/ At(r, "activate") /\ (~Present(staging[r]) \/ InUse("target"))
     \/ At(r, "drop_backup") /\ (~Present(backup[r]) \/ InUse(r))
     \/ At(r, "restore") /\ (~Present(backup[r]) \/ InUse("target"))
     \/ At(r, "scan") /\ op[r].scan /\ ~Present(target)
     \/ At(r, "daemon") /\ op[r].startDaemon /\ ~(data = "indexed" /\ Present(target))
  /\ Goto(r, OnFailure[pc[r]])
  /\ UNCHANGED <<files, path, data, pending, op, faults, alone, cut>>

Kill(r) ==
  /\ faults < MaxFaults
  /\ Running(r)
  /\ faults' = faults + 1
  /\ Goto(r, "killed")
  /\ LeavesPart(r) /\ PurgesPart(r)
  /\ cut' = (cut \/ pc[r] \in {"activate", "decide_restore", "restore"})
  /\ UNCHANGED <<dir, target, backup, inUse, path, pending, op, alone>>

\* `skb mcp` or a daemon that a user starts, and the end of one.
Use ==
  /\ Present(target)
  /\ inUse' = inUse \union {"target"}
  /\ UNCHANGED <<dir, target, staging, backup, path, data, pending, op, pc, faults, alone, cut>>

EndUse(name) ==
  /\ InUse(name)
  /\ inUse' = inUse \ {name}
  /\ UNCHANGED <<dir, target, staging, backup, path, data, pending, op, pc, faults, alone, cut>>

Install(r) ==
  \/ Copy(r) \/ Verify(r) \/ TargetExists(r) \/ SetAside(r) \/ Activate(r)
  \/ DropBackup(r) \/ DecideRestore(r) \/ Restore(r) \/ RemoveStaging(r)
  \/ RunScan(r) \/ StartDaemon(r)

Uninstall(r) ==
  Purge(r) \/ ScheduleSelfDelete(r) \/ RemoveDir(r) \/ RemoveDirStops(r)

Next ==
  \/ \E r \in Run :
       \/ \E o \in Operation : Begin(r, o)
       \/ StopExistingDaemon(r) \/ UpdatePath(r) \/ Install(r) \/ Uninstall(r)
       \/ DeleteLater(r) \/ CallFails(r) \/ CallRefused(r) \/ Kill(r)
  \/ Use
  \/ \E name \in {"target"} \union Run : EndUse(name)

Spec == Init /\ [][Next]_vars

-----------------------------------------------------------------------------
(* Properties.                                                             *)

InRollback(r) == pc[r] \in {"activate", "decide_restore", "restore"}
Uninstalling == \E r \in Run : op[r].kind = "uninstall"

\* Types; and what is executed is there, and what is installed, set aside or
\* about to be activated has passed the checks.
TypeOK ==
  /\ dir \in BOOLEAN /\ path \in BOOLEAN /\ data \in {Absent, "empty", "indexed"}
  /\ staging \in [Run -> File \union {Absent}]
  /\ backup \in [Run -> {"good", Absent}]
  /\ target \in {"good", Absent}
  /\ inUse \subseteq {"target"} \union {r \in Run : Present(backup[r])}
  /\ InUse("target") => Present(target)
  /\ pending \subseteq Run /\ faults \in 0 .. MaxFaults
  /\ \A r \in Run : InRollback(r) => staging[r] \in {"good", Absent}

\* The program is installed, or a run that is about to activate its copy holds
\* it; after a kill or a failed rename just then, some backup does.
HasProgram ==
  \/ Present(target)
  \/ \E r \in Run : Present(backup[r]) /\ (InRollback(r) \/ cut)

\* An install never costs a user the program he had: until somebody asks for an
\* uninstall it stays, however many installers overlap, whichever calls fail
\* and whoever executes which version, and is only out of its place as long as
\* a run that will put one back is at it.
ProgramNotLost == [][HasProgram /\ ~Uninstalling' => HasProgram']_vars

\* A run that nothing else overlapped and that reports success has done all it
\* was asked for.
OkMeansDone ==
  \A r \in Run :
     At(r, "ok") /\ alone[r] =>
       IF op[r].kind = "install"
       THEN /\ Present(target)
            /\ op[r].addPath => path
            /\ op[r].scan \/ op[r].startDaemon => data = "indexed"
       ELSE /\ ~path
            /\ op[r].purge => data = Absent
            /\ ~op[r].here => ~dir

=============================================================================
