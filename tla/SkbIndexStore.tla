--------------------------- MODULE SkbIndexStore ----------------------------
(***************************************************************************)
(* The index file on disk: `skb scan` stages the new index in a temporary  *)
(* file of its own, syncs it and activates it; other processes preflight   *)
(* and load whatever is active meanwhile.  Any call on the file system may *)
(* fail, a process may be killed between two calls and the machine may     *)
(* lose power, which tears every file that was not synced and undoes the   *)
(* latest changes of the directory that were not synced.                   *)
(*                                                                         *)
(* ReplaceFileW, rename and remove are the operating system's: each either *)
(* happens as a whole or leaves the names as they were, and they reach the *)
(* disk in the order they were made.                                       *)
(***************************************************************************)
EXTENDS Integers, FiniteSets

CONSTANTS
  Scanner,      \* processes that run `skb scan`
  Reader,       \* processes that preflight and load the index
  MaxScans,     \* bound: scans started in a behaviour
  MaxFaults     \* bound: failing calls, killed processes and power losses

ASSUME ConstantAssumption ==
  /\ MaxScans \in Nat /\ MaxFaults \in Nat
  /\ Scanner \cap Reader = {}

Absent == [gen |-> 0, state |-> "absent"]
Generation == 1 .. MaxScans
\* A file: the scan that wrote it, and how much of it a reader would find.
File == [gen : Generation, state : {"partial", "whole", "synced"}]
\* How a scan ended, whether its directory sync succeeded, and (ghost) whether
\* the machine has lost power since it began.
Result == [gen : Generation \union {0}, outcome : {"none", "ok", "error"},
           synced : BOOLEAN, outage : BOOLEAN]

VARIABLES
  windows,  \* TRUE for the Windows branch of replace_file, fixed in a behaviour
  overlap,  \* ghost: a scan has begun while another one was running
  active,   \* index.skb
  backup,   \* the file the fallback sets aside: temporary_sibling with its
            \* unique extension replaced, hence one name for all processes
  durable,  \* what the disk may hold under these two names: the directory as of
            \* its last successful sync and after every change since then
  temp,     \* temp[s]: the temporary file of the latest scan of s; each scan
            \* takes a new name, and nobody opens one that was left behind
  pc,       \* what each process does next
  result,   \* result[s]: the latest scan of s
  seen,     \* seen[r]: the index reader r loaded
  scans,    \* the number of scans started
  faults    \* the number of faults so far

vars ==
  <<windows, overlap, active, backup, durable, temp, pc, result, seen, scans, faults>>

Present(f) == f # Absent
Readable(f) == Present(f) /\ f.state # "partial"

\* The index directory d offers a lookup, or would get back from the rollback.
GenOf(d) == IF Present(d.active) THEN d.active.gen ELSE d.backup.gen
Directory == [active |-> active, backup |-> backup]

Init ==
  /\ windows \in BOOLEAN /\ overlap = FALSE
  /\ active = Absent /\ backup = Absent /\ durable = {Directory}
  /\ temp = [s \in Scanner |-> Absent]
  /\ pc = [p \in Scanner \union Reader |-> "idle"]
  /\ result = [s \in Scanner |->
                [gen |-> 0, outcome |-> "none", synced |-> FALSE, outage |-> FALSE]]
  /\ seen = [r \in Reader |-> Absent]
  /\ scans = 0 /\ faults = 0

Goto(p, label) == pc' = [pc EXCEPT ![p] = label]
At(p, label) == pc[p] = label

\* A change of the directory, which stays volatile until the directory is synced.
DirectoryChanges == durable' = durable \union {[active |-> active', backup |-> backup']}

Fault == faults < MaxFaults /\ faults' = faults + 1

-----------------------------------------------------------------------------
(* save_index_atomic                                                       *)

\* FileIndex::save creates the temporary file and writes it piece by piece.
BeginSave(s) ==
  /\ At(s, "idle") /\ scans < MaxScans
  /\ scans' = scans + 1
  /\ temp' = [temp EXCEPT ![s] = [gen |-> scans', state |-> "partial"]]
  /\ result' = [result EXCEPT ![s] = [gen |-> scans', outcome |-> "none",
                                      synced |-> FALSE, outage |-> FALSE]]
  /\ Goto(s, "save")
  /\ overlap' = (overlap \/ \E t \in Scanner : ~At(t, "idle"))
  /\ UNCHANGED <<windows, active, backup, durable, seen, faults>>

FinishSave(s) ==
  /\ At(s, "save")
  /\ temp' = [temp EXCEPT ![s].state = "whole"]
  /\ Goto(s, "sync")
  /\ UNCHANGED <<windows, overlap, active, backup, durable, result, seen, scans, faults>>

\* Mutant of SyncAll: does not sync.
SkipSync(s) ==
  /\ At(s, "sync")
  /\ Goto(s, IF windows THEN "exists" ELSE "rename")
  /\ UNCHANGED <<windows, overlap, active, backup, durable, temp, result, seen, scans, faults>>

SyncAll(s) ==
  /\ At(s, "sync")
  /\ temp' = [temp EXCEPT ![s].state = "synced"]
  /\ Goto(s, IF windows THEN "exists" ELSE "rename")
  /\ UNCHANGED <<windows, overlap, active, backup, durable, result, seen, scans, faults>>

\* replace_file on Windows: whether there is something to replace is asked
\* before, and may change until the call.
DestinationExists(s) ==
  /\ At(s, "exists")
  /\ Goto(s, IF Present(active) THEN "replace" ELSE "rename")
  /\ UNCHANGED <<windows, overlap, active, backup, durable, temp, result, seen, scans, faults>>

\* The temporary file takes the name of the index.
ActivateTemp(s) ==
  /\ active' = temp[s]
  /\ temp' = [temp EXCEPT ![s] = Absent]
  /\ UNCHANGED backup
  /\ DirectoryChanges

\* Where a replacement goes on: sync_parent_best_effort is compiled for Unix only.
Replaced == IF windows THEN "preflight" ELSE "sync_parent"

\* Mutant of RenameOver: removes the old index first.
RemoveThenRename(s) ==
  /\ At(s, "rename")
  /\ IF Present(active)
     THEN active' = Absent /\ UNCHANGED <<temp, pc, backup>> /\ DirectoryChanges
     ELSE ActivateTemp(s) /\ Goto(s, Replaced)
  /\ UNCHANGED <<windows, overlap, result, seen, scans, faults>>

\* fs::rename(source, destination) replaces the destination on every platform.
RenameOver(s) ==
  /\ At(s, "rename")
  /\ ActivateTemp(s)
  /\ Goto(s, Replaced)
  /\ UNCHANGED <<windows, overlap, result, seen, scans, faults>>

ReplaceFileW(s) ==
  /\ At(s, "replace") /\ Present(active)
  /\ ActivateTemp(s)
  /\ Goto(s, Replaced)
  /\ UNCHANGED <<windows, overlap, result, seen, scans, faults>>

\* Mutant of SyncParent: opens the directory without syncing it.
OpenParentOnly(s) ==
  /\ At(s, "sync_parent")
  /\ result' = [result EXCEPT ![s].synced = TRUE]
  /\ Goto(s, "preflight")
  /\ UNCHANGED <<windows, overlap, active, backup, durable, temp, seen, scans, faults>>

\* sync_parent_best_effort: once it succeeds no power loss undoes what was done
\* in the directory before.  That it failed is ignored (OnFailure).
SyncParent(s) ==
  /\ At(s, "sync_parent")
  /\ durable' = {Directory}
  /\ result' = [result EXCEPT ![s].synced = TRUE]
  /\ Goto(s, "preflight")
  /\ UNCHANGED <<windows, overlap, active, backup, temp, seen, scans, faults>>

-----------------------------------------------------------------------------
(* replace_file_with_rollback                                              *)

SetAside(s) ==
  /\ At(s, "set_aside") /\ Present(active)
  /\ backup' = active
  /\ active' = Absent
  /\ DirectoryChanges
  /\ Goto(s, "activate")
  /\ UNCHANGED <<windows, overlap, temp, result, seen, scans, faults>>

Activate(s) ==
  /\ At(s, "activate")
  /\ ActivateTemp(s)
  /\ Goto(s, "drop_backup")
  /\ UNCHANGED <<windows, overlap, result, seen, scans, faults>>

DropBackup(s) ==
  /\ At(s, "drop_backup")
  /\ backup' = Absent
  /\ UNCHANGED active
  /\ DirectoryChanges
  /\ Goto(s, Replaced)
  /\ UNCHANGED <<windows, overlap, temp, result, seen, scans, faults>>

\* Mutant of Restore: deletes the backup instead.
RestoreDropsBackup(s) ==
  /\ At(s, "restore") /\ Present(backup)
  /\ backup' = Absent
  /\ UNCHANGED active
  /\ DirectoryChanges
  /\ Goto(s, "clean_up")
  /\ UNCHANGED <<windows, overlap, temp, result, seen, scans, faults>>

Restore(s) ==
  /\ At(s, "restore") /\ Present(backup)
  /\ active' = backup
  /\ backup' = Absent
  /\ DirectoryChanges
  /\ Goto(s, "clean_up")
  /\ UNCHANGED <<windows, overlap, temp, result, seen, scans, faults>>

-----------------------------------------------------------------------------
(* Failing calls.                                                          *)

\* Mutant of OnFailure: activates again when the backup cannot be removed.
OnFailureRetry ==
  [save |-> "clean_up", sync |-> "clean_up", rename |-> "clean_up",
   replace |-> "set_aside", set_aside |-> "clean_up", activate |-> "restore",
   drop_backup |-> "activate", restore |-> "clean_up", sync_parent |-> "preflight"]

\* Where the flow of control goes when the call at a label fails: `?` leaves
\* the closure for the clean-up, ReplaceFileW falls back, a failed activation
\* restores, and a backup that cannot be removed or a directory that cannot
\* be synced is ignored.
OnFailure ==
  [save |-> "clean_up", sync |-> "clean_up", rename |-> "clean_up",
   replace |-> "set_aside", set_aside |-> "clean_up", activate |-> "restore",
   drop_backup |-> "preflight", restore |-> "clean_up", sync_parent |-> "preflight"]

CallFails(s) ==
  /\ Fault
  /\ pc[s] \in DOMAIN OnFailure
  /\ Goto(s, OnFailure[pc[s]])
  /\ UNCHANGED <<windows, overlap, active, backup, durable, temp, result, seen, scans>>

\* The calls that need a file another process has just moved away.
CallFindsNothing(s) ==
  /\ \/ pc[s] \in {"replace", "set_aside"} /\ ~Present(active)
     \/ At(s, "restore") /\ ~Present(backup)
  /\ Goto(s, OnFailure[pc[s]])
  /\ UNCHANGED <<windows, overlap, active, backup, durable, temp, result, seen, scans, faults>>

Ends(s, outcome) ==
  /\ result' = [result EXCEPT ![s].outcome = outcome]
  /\ Goto(s, "idle")

\* if result.is_err(): the temporary file is removed, if that succeeds, and the
\* scan fails.
CleanUp(s) ==
  /\ At(s, "clean_up")
  /\ \/ temp' = [temp EXCEPT ![s] = Absent] /\ UNCHANGED faults
     \/ Fault /\ UNCHANGED temp
  /\ Ends(s, "error")
  /\ UNCHANGED <<windows, overlap, active, backup, durable, seen, scans>>

\* run_scan checks what is active after it saved, whoever activated it.
ScanPreflight(s) ==
  /\ At(s, "preflight")
  /\ \/ Ends(s, IF Readable(active) THEN "ok" ELSE "error") /\ UNCHANGED faults
     \/ Ends(s, "error") /\ Fault
  /\ UNCHANGED <<windows, overlap, active, backup, durable, temp, seen, scans>>

-----------------------------------------------------------------------------
(* Readers: preflight_index, then FileIndex::load opens the file anew.     *)

\* header and exact length
Preflight(r) ==
  /\ At(r, "idle")
  /\ Readable(active)
  /\ seen' = [seen EXCEPT ![r] = Absent]
  /\ Goto(r, "load")
  /\ UNCHANGED <<windows, overlap, active, backup, durable, temp, result, scans, faults>>

PreflightRejects(r) ==
  /\ At(r, "idle")
  /\ ~Readable(active)
  /\ seen' = [seen EXCEPT ![r] = Absent]
  /\ UNCHANGED <<windows, overlap, active, backup, durable, temp, pc, result, scans, faults>>

Load(r) ==
  /\ At(r, "load")
  /\ seen' = [seen EXCEPT ![r] = active]
  /\ Goto(r, "idle")
  /\ UNCHANGED <<windows, overlap, active, backup, durable, temp, result, scans, faults>>

-----------------------------------------------------------------------------
(* Crashes.                                                                *)

\* The process is killed; its files stay as they are.
Kill(s) ==
  /\ Fault
  /\ ~At(s, "idle")
  /\ Goto(s, "idle")
  /\ UNCHANGED <<windows, overlap, active, backup, durable, temp, result, seen, scans>>

Torn(f) == IF f.state = "whole" THEN [f EXCEPT !.state = "partial"] ELSE f

\* The directory comes back as of some moment since its last sync, on Windows
\* any earlier one.  A rename that is undone leaves its file under the temporary
\* name, which nobody opens again.
PowerLoss ==
  /\ Fault
  /\ \E d \in durable : active' = Torn(d.active) /\ backup' = Torn(d.backup)
  /\ durable' = {[active |-> active', backup |-> backup']}
  /\ temp' = [s \in Scanner |-> Torn(temp[s])]
  /\ pc' = [p \in Scanner \union Reader |-> "idle"]
  /\ result' = [s \in Scanner |-> [result[s] EXCEPT !.outage = TRUE]]
  /\ seen' = [r \in Reader |-> Absent]
  /\ UNCHANGED <<windows, overlap, scans>>

Next ==
  \/ \E s \in Scanner :
       \/ BeginSave(s) \/ FinishSave(s) \/ SyncAll(s)
       \/ DestinationExists(s) \/ RenameOver(s) \/ ReplaceFileW(s) \/ SyncParent(s)
       \/ SetAside(s) \/ Activate(s) \/ DropBackup(s) \/ Restore(s)
       \/ CallFails(s) \/ CallFindsNothing(s) \/ CleanUp(s) \/ ScanPreflight(s)
       \/ Kill(s)
  \/ \E r \in Reader : Preflight(r) \/ PreflightRejects(r) \/ Load(r)
  \/ PowerLoss

Spec == Init /\ [][Next]_vars

-----------------------------------------------------------------------------
(* Properties.                                                             *)

TypeOK ==
  /\ \A f \in {active, backup} \union {temp[s] : s \in Scanner} : f \in File \union {Absent}
  /\ Directory \in durable
  /\ durable \subseteq [active : File \union {Absent}, backup : File \union {Absent}]
  /\ \A s \in Scanner :
        /\ result[s] \in Result
        /\ pc[s] \in {"sync", "exists", "rename", "replace", "set_aside", "activate"}
             => Present(temp[s])
  /\ \A r \in Reader : seen[r] \in File \union {Absent}

\* The active index is complete on disk whenever there is one: no kill, failed
\* call or power loss leaves a torn or unsynced index where lookups look.
ActiveIsDurable == Present(active) => active.state = "synced"

CurrentGen == GenOf(Directory)

Register == INSTANCE SkbIndexRegister
              WITH Process <- Reader,
                   current <- CurrentGen,
                   fallback <- {GenOf(d) : d \in durable},
                   loaded <- [r \in Reader |-> seen[r].gen],
                   promise <- CASE ~overlap -> "ordered"
                                [] overlap /\ ~windows -> "whole"
                                [] OTHER -> "none"

\* Saving replaces the current index as a whole: whatever fails, it never
\* disappears and a reader gets the current one or none, wherever its two opens
\* fall.  While scans take turns a later scan's index is never replaced by an
\* earlier one; overlapping scans keep all but that order on Unix.  A power
\* loss may bring an earlier index, or none, back, but only one that was
\* current since the directory was last synced.
ImplementsRegister == Register!Spec

\* What a scan has reported as done stays, while scans take turns: the index is
\* its own or a later one, whatever fails or is killed.  If the power fails in
\* between, this holds when the scan's directory sync succeeded (never on
\* Windows, where there is none).
AcknowledgedIsKept ==
  ~overlap =>
    \A s \in Scanner :
      result[s].outcome = "ok" /\ (result[s].outage => result[s].synced)
        => CurrentGen >= result[s].gen

\* Once there is an index, no scan loses it, whatever fails: it is active, or
\* set aside under the name the rollback restores from.
IndexNotLost == [][CurrentGen # 0 => CurrentGen' # 0 \/ PowerLoss]_vars

\* Whatever a loss of power brings back has an active index.
Held == \A d \in durable : Present(d.active)

\* The rename of Unix never leaves a moment without an active index; once the
\* directory was synced with an index in it, not even a loss of power does.
AlwaysAvailable ==
  [][~windows => /\ Present(active) => Present(active') \/ PowerLoss
                 /\ Held => Held' /\ Present(active')]_vars

=============================================================================
