# Verification of Smart Kernel Brain

Smart Kernel Brain (SKB) finds files by exact name.  `skb scan` walks a tree
and writes a compact index; `skb find`, the resident daemon and the MCP server
load that index and answer lookups, ranking what is asked for often in a small
hot cache.  This directory holds TLA+ models of those parts, the TLC
configurations that check them and the theorems TLAPS proves about them.
`src/...` below means a path of the repository, as in `PROJECT.json`.

    tlc -config MCSkbIndex.cfg MCSkbIndex        # one run
    tlapm SkbIndexProofs.tla                     # one proof module

## The system

| part | source | state | operations |
|---|---|---|---|
| directory scan | `src/src/index.rs` 147-223, 470-499 | stack, string pools, interned directories, entries | open a directory, look at a child, index a file, give up at a limit |
| compact index | `src/src/index.rs` | entries, sorted lookup table, prefix directory | build, rebuild the directory, save, load, three lookups |
| names | `src/src/hash.rs` | none | character-wise folding, FNV hash, comparison, `normalize_filename` |
| search engine | `src/src/engine.rs` | hot cache, capacity | find, find and learn, learn in memory, resize |
| usage state | `src/src/state.rs` | records by name; `state.json`, `state.json.tmp` | load, record, save and its fallback |
| index persistence | `src/src/bin/hardening.rs` | `index.skb`, temporary files, a backup | stage, sync, activate, roll back, preflight |
| resident core | `src/src/resident.rs`, `src/src/bin/skb.rs` | shutdown flag, one accept loop, a thread per connection | start, serve, stop |
| MCP server | `src/src/bin/mcp.rs` | an engine, the line being answered | read a line, refuse or carry out a call, learn and save, reply |
| installer | `src/src/bin/install.rs` | the installed program, a staged copy, a backup, the PATH entry, the data directory | install, repair and uninstall; stage, check, set aside, activate, restore, purge, delete later |
| disk usage | `src/src/bin/disk_usage.rs` | stack, a bounded heap, totals | walk a tree, offer each file to the heap, report by size |

How they interact.  A scan builds an index in memory, and persistence makes it
the active file.  Every other process first checks the header (`preflight`) and
then opens the file again to load it; nothing locks it.  The engine sits on one
loaded index and one loaded usage state for the life of its process, and writes
the usage state back whole after every learning find.  A daemon shares one
engine, read only, among its connection threads; it never reloads, so scans
reach it only through a restart.  The CLI and the MCP server own an engine each;
what they learn meets only in `state.json`, which every process loads once and
writes back whole.  The installer replaces the program that daemons and MCP clients
may be executing, and starts the scan and the daemon of the installed one.

What is hard to test here: two processes that replace, load or set aside one
file between each other's calls; calls that fail half-way and kills and power
loss between them; two sessions that save one state through one temporary name;
the accept loop, the flag and the wake connection of a
daemon; entries of the hot cache that were copied from a state or an index that
has moved on; hashes that collide, in the index and in the cache; buckets,
limits and ways that are just full.  `PROJECT.json` lists each such hazard with
its line and the properties that cover it.

What makes each part correct:

- **scan**: exactly the files that can be reached and read are indexed, once
  each, under paths that read back.
- **index**: a lookup returns all files of the name and no other, smallest id
  first, by whatever route and before or after a reload.
- **engine**: the cache changes the speed of an answer and nothing else; what is
  asked for most is in it; an answer shows the usage as it is after the call.
- **persistence**: the active index is whole at every moment and is replaced as a
  whole; while the power stays on it is not lost; what a scan has reported as done
  stays, over a loss of power as far as the directory was synced.
- **resident core**: answers on a connection come from one index, a request
  ends, a daemon that has confirmed a shutdown ends.
- **sessions**: a reply tells what happened to the request with its id; what a
  session learned and was told is stored, if nobody else saves; a state that is
  lost was not lost unnoticed.
- **installer**: only a checked program is ever active, an install never costs the
  user the program he had, and a success has done all that was asked for.
- **disk usage**: the report holds the largest files that can be reached, whatever
  order the listings come in, and the totals count each of them once.

## Modules

| module | models | checked by | proved in |
|---|---|---|---|
| `SkbCatalog` | what an index promises: a growing list of names and exact answers | refinement | `SkbIndexProofs` |
| `SkbIndex` | `FileIndex` in memory: entries, `install_sorted_lookup`, `rebuild_prefix_table` bucket by bucket, `hash_range`, the lookups, save and load | `MCSkbIndex` | `SkbIndexProofs` |
| `SkbScan` | `FileIndex::scan` | `MCSkbScan` | `SkbScanProofs` |
| `SkbEngine` | `SearchEngine`, `HotCache`, `UsageState` and the copy on disk | `MCSkbEngine` | `SkbEngineProofs` |
| `SkbIndexRegister` | what saving an index promises | refinement | `SkbIndexStoreProofs` |
| `SkbIndexStore` | `save_index_atomic`, `replace_file`, the rollback fallback, preflight and load | `MCSkbIndexStore` | `SkbIndexStoreProofs` |
| `SkbResident` | `run_daemon`, `handle_connection`/`handle`, `ResidentClient` on both transports | `MCSkbResident` | `SkbResidentProofs` |
| `SkbStateStore` | `UsageState::load` and `save`: `state.json` and its temporary file among several processes | `MCSkbSessions` | `SkbSessionsProofs` |
| `SkbSessions` | who loads and saves: the find commands, and the loop of `skb mcp` with its tools; EXTENDS `SkbStateStore` | `MCSkbSessions` | `SkbSessionsProofs` |
| `SkbInstall` | `install_windows`, `uninstall_windows`, `replace_installed_binary` | `MCSkbInstall` | `SkbInstallProofs` |
| `SkbLargest` | `scan_largest`: its walk, heap, totals and final sort | `MCSkbLargest` | `SkbLargestProofs` |

Every definition that models code has its lines in `PROJECT.json` under `map`.
Definitions commented *Mutant of ...* are slips a programmer could make; nothing
in a specification uses them, and each shows that some property would notice.

**SkbIndex.**  `pc` follows one index through its life: `"scan"` collects names
(`PushFile`), `InstallSortedLookup` sorts by (hash, id), `StartRebuild`,
`FillBucket`, `NextPosition`, `FillTail` are the loop of `rebuild_prefix_table`
and `"ready"` answers.  `SaveAndLoad` keeps the table, drops the prefix
directory as the file format does and rebuilds it; `LoadAccepts` is what `load`
checks of the arrays.  Names are abstract: `Fold` gives what `filename_eq`
compares and `FilenameHash` the hash, with only the assumption that equal names
hash alike.  A width of `b` bits is the number `2^b` of its buckets.

**SkbScan.**  The operating system chooses the order of the children, which of
them cannot be read, and which directories cannot be listed.  A directory is
named by its lossy text, so two directories may share one, as
`to_string_lossy` makes possible.  Strings are abstract and have a size, so the
pool limits are real.  The lookup table that `Finish` would install is
`SkbIndex`'s matter.

**SkbEngine.**  The index is the list `files` of a finished scan, and its
lookups are the set comprehension that `SkbIndex` is proved to compute.  Ranking
uses `ln(count)` and an exponential of age; the model keeps the one comparison
that surely follows (used more and used last ranks above) and allows every other
order, including those of equal weights.  The floating-point weights of
astronomically large counts may tie even so; this is ignored.  `set_base` folds
the hash before masking; the model takes the remainder of the hash, a map from
hashes to sets like it.
`HotNames` is an operator, not an action: to list hot names changes nothing.
`Restart` may find another index than before, because scans and lookups are
different processes.  A save that fails leaves the file as it was or, if the
fallback of `src/src/state.rs` 43-46 had removed it already, `NoState`.

**SkbIndexStore.**  One label of `pc` per call on the file system.  `CallFails`
lets each call fail, `OnFailure` gives where control goes then, `Kill` stops a
process between two calls, and `PowerLoss` stops everything, tears files that
were not synced and undoes changes of the directory that were not synced.
`durable` holds what the disk may have under the two names: the directory as of the
last sync and after each change since, because changes are taken to reach the disk
in the order they were made.  The code's sync is `sync_parent_best_effort`
(`src/src/bin/hardening.rs` 97, 287-297), `SyncParent` here: on Unix it may fail and
the scan goes on, on Windows it does nothing, so that there any earlier index
since the last loss of power may come back, or none.  `CallFails` covers the calls
of the closure; the removal of the temporary file (101-103) may fail too and is then
ignored, and a killed scan leaves its own.  Such leftovers stay for good, under
names nobody opens.  `windows` is the platform, fixed in a behaviour.  Temporary
names contain process, time and sequence number and are taken to be unique; the
backup name is the same for all processes, because `with_extension` replaces the
unique part.  Not modelled: that `ReplaceFileW`, called without a backup name,
may on one of its documented errors leave the old file under neither name.

**SkbIndexRegister.**  `Commit` replaces the current index, `fallback` is what a loss
of power may leave of it, `Secure` makes the current one safe and `Revert` is the
loss.  `promise` says how much is kept: the order of scans, only that there is an
index, or neither.

**SkbResident.**  A connection is a record with the program counter of its
serving thread, what the client waits for, and the reply in flight; the wake
connection of a shutdown is the connection `Wake`, dropped at once.  A request
is `"ask"` (every operation that reads the engine) or `"shutdown"`; frames are
whole.  `Listening` says when the endpoint takes a connection: a pipe has a free
instance between `CreateNamedPipeW` and its first client, a listener has a
backlog.  Writing to a client that has gone ends the thread.
`MainCallFails` is every `?` in the loops of `run_daemon` (`accept()?` at
`src/src/resident.rs` 814, `create_server_pipe(endpoint)?` at 440, `ConnectNamedPipe`)
and the panic of `thread::spawn`: the daemon ends with the error, although nobody
asked for it.  The wake of a shutdown goes to any daemon that listens at the
endpoint (`WakeMain`); on a pipe it tries twice to get an instance and then gives
up (`WakeRefused`).  `WaitNamedPipeW` waits five seconds for an instance; that this
time runs out is not modelled, the five seconds being taken to be long enough for a
running accept loop.
The endpoint, the processes that may use it and the bounds on scans and failing
calls are a `deployment`, chosen in the beginning, so that one specification covers
pipe and TCP, one daemon and several.

**SkbStateStore.**  Names and file objects are kept apart, because a process that
has the temporary file open goes on writing to it when another renames it.  One
label of `pc` per call: `OpenTmp` truncates, `WriteTmp` puts the text over what is
there by then (a longer text of another process leaves a tail: `Torn`), `RenameTmp`
takes whatever has the name, and `ActiveExists`, `RemoveActive` and the second
`RenameTmp` are the fallback.  A state is the set of the learnings in it, so that a
lost update is visible as a missing element; the counts and times of one process
are `SkbEngine`'s matter, where the disk is written as a whole because no other
process is there.  A power loss may take any text, because nothing is synced.

**SkbSessions.**  `ServeLine` reads a line and carries it out if it is a request,
`Reply` writes what became of it; between them a learning call saves.  A call is
refused as a whole before anything is looked up.  What a tool returns is kept as
far as its shape can be wrong: the kind of the reply, its id, and which of the names
of a batch have a result.  A batch that is empty or over the limit is refused as a
whole.

**SkbInstall.**  A run is one process of the installer with what it was asked for; the
programs that daemons and MCP clients execute are `inUse`, and Windows lets such a
program be renamed but neither removed nor replaced.  `CallRefused` are the calls that
fail because of that or because another run took the file, `CallFails` any other
failure, `Kill` the end of a run between two calls.  A removal of the data that fails
half-way, or is cut short, may have taken the index already (`PurgesPart`).  `doctor`,
`mcp-config` and the waiting console read and print only.  Power loss is not modelled:
the installer syncs nothing and relies on the system for what a rename keeps.

**SkbLargest.**  The walk is that of the scan with its own error handling:
nothing stops it, and what cannot be listed, typed or measured is skipped with a
warning.  Nothing here depends on the order of the stack, so any waiting
directory may be next.  The heap is the set of its members, because `(size,
path)` orders them totally and only its least one is ever read.  Paths have two
orders in the code: the heap compares `PathBuf`s by their components (`Path`), the
final sort their bytes (`Text`).  The totals
saturate at `MaxTotal`, which stands for `u64::MAX`.

## Runs

| run | question | bounds |
|---|---|---|
| `index` | Are lookups complete, exact and ordered for every index, at every width, also after a reload? Does the rebuild end? | 4 files over 6 names; 8 hashes in 2, 4 or 8 buckets |
| `scan` | Is the index exact, do paths read back, is a limit an error? | 5 directories, 5 files, a link, a device; limits of 3 files, 3 directories, 10 bytes |
| `engine` | Does the cache ever differ from the index or the usage state, or the list of hot names from both? Is the answer current, whatever save failed? | 4 spellings of 3 names, 2 indexes, sets of one way, capacities 1 and 2, counts to 2 |
| `engine_sigma` | Does learning promote every name? (No: a name ending in a capital sigma.) | 3 spellings, one file |
| `store` | Is the active index whole and replaced as a whole? Does what was reported as done stay? What may a loss of power bring back? | 2 scanners, a reader, 3 scans, 4 faults, both platforms |
| `store_overlap` | Does that hold of overlapping scans on Windows? (No.) | as `store`, 3 faults |
| `resident` | One generation per connection, no hanging request, an acknowledged stop is a stop or leaves the daemon stranded | one daemon on a pipe, 2 clients, 2 generations; one daemon on a pipe with a failing call; 2 daemons at one TCP endpoint with a failing call; 2 daemons on one pipe, 1 connection |
| `resident_ack` | Does the client whose shutdown succeeded learn of it, on TCP? (No.) | 1 daemon, 1 client |
| `resident_no_data` | Does only a shutdown end a daemon, on a pipe? (No.) | 1 daemon, 1 client |
| `sessions` | Do replies match requests and tell what happened? Is what was learned stored? Is a lost state noticed? | a server with 2 lines out of 5, 2 find commands, 2 faults |
| `install` | Is a program that passed the checks always there, or with a run that puts it back? Does success mean done? | 3 runs, 6 requests, 3 faults |
| `largest` | Does the heap keep the largest files in any order, and the report list them all in its own? Is each file counted once? Does the walk end? | 4 directories, 6 files, a link, a device; 3 files kept, totals to 11 |

Why the bounds are enough.  *index*: two spellings of one name, a name that collides
with it, names on both sides of a bucket border, the last hash of the last bucket and
empty buckets all occur, together up to four files; both thresholds of the width are
crossed; and the theorems remove the bounds. *scan*: some choices of unreadable
children make what is left fit exactly and others exceed just one of the four limits,
so each limit stops some scan and just fails to stop another.  *engine*: with sets of
one way two colliding names already fight for a place, and with capacity 1 and 2
truncation and set overflow both happen; counts to 2 reach saturation; every find has
limit 0, which the code raises to 1, so answers with several files are cut, and the
theorem covers every limit.  *store*: the fallback needs a first scan to have an
index, a scan that fails and one that overlaps it; each of the interesting histories
(set aside, activate fails, restore fails) needs up to three faults, and a fourth lets
the power fail after them.  *resident*: two clients let a connection be queued, served
and half-closed while another one stops the daemon; two generations let a scan replace
the index between two answers; the second daemon at a TCP endpoint cannot bind before
the first has ended, on request or by a failing call; two daemons on one pipe and one
connection are what a wake that goes to the wrong one takes.  *sessions*: two sessions
that save and a third that loads are what a torn, stolen or removed file takes; with
two faults a save fails in its fallback after another one was killed, or its process
loses its power; a server learns twice with one failing save between; of its lines one
is a batch above the limit and one an empty batch.  *install*: a run sets the program
aside, a second one overlaps it and a third undoes both; three faults fail an
activation, its restoration and the cleaning up.  *largest*: three of the six files
have one size, at the border between kept and dropped, so ties are decided by path and
by order of arrival, and the two orders of paths differ among them; skipping leaves
fewer files than the limit, exactly as many, or more; all files together exceed
`MaxTotal`; and the theorems remove the bounds.

The find commands of `sessions` and the runs of `install` are interchangeable: no
definition and no constant tells them apart, and only safety properties are
checked there, so `SYMMETRY` over them is sound.

`CHECK_DEADLOCK FALSE` is set where the system may rest: a finished scan, an
index at its limits, processes and
runs that have ended.

**Fairness.**  `SkbIndex!FairSpec`, `SkbScan!FairSpec` and `SkbLargest!FairSpec` are
weakly fair in the loop of a single thread.  `SkbResident!Spec` is weakly fair for the
main thread of each daemon and for each serving thread, which the system schedules as
long as the process runs; a client is never obliged to send, read or leave, and no
call has to fail.  The
other specifications have no fairness and no liveness properties.

## What the runs show

The properties of the passing runs hold.  Four disagreements with what the
repository says of itself are listed in `PROJECT.json` under `findings`:

1. `normalize_filename` and the hash fold a final capital sigma differently, so
   such a name is learned under a key no lookup finds (`engine_sigma`).
2. Overlapping scans in the Windows fallback share one backup name, and one can
   delete the index the other set aside (`store_overlap`).  One failing
   `ReplaceFileW` is enough for a moment in which no index is left under either
   name; if the activation that follows fails as well, it stays lost.
3. On TCP the daemon may end before the shutdown reply is written
   (`resident_ack`).
4. A pipe client that comes and goes before `ConnectNamedPipe` ends the daemon
   (`resident_no_data`).

What the properties allow should be known, too:

- A loss of power may bring back an index older than the one a scan has reported,
  or none: on Windows at any time, on Unix when the best-effort sync of the directory
  failed or had not run yet.  `AcknowledgedIsKept` says what is left: what was
  reported as done stays while the power does, and beyond if that scan's directory
  sync succeeded.
- After a kill between setting the index aside and activating the new one the index
  is under the backup name, and no code puts it back: lookups fail until the next
  scan.  While scans overlap the older of two may be activated last.
- Sessions that save at the same time lose what the other learned
  (`src/RELEASE_NOTES.md:39` says so), may tear the state and, in the fallback, remove
  it.  `LossIsReported` says that a missing or torn state never comes without a
  save that failed or was cut short.  A state torn by a power loss makes every later
  load fail, hence every later start, until somebody removes the file.
- An id is not tied to the generation it came from (`src/RELEASE_NOTES.md:38`);
  `OneGeneration` covers what one connection returns and nothing across two.
- Any error of `accept`, of creating or connecting a pipe, or of starting a thread
  ends a daemon nobody told to stop: too many open handles are enough, or a client
  that resets its connection at the wrong moment.  The runs have such a failure;
  they show that requests end even so, not that the daemon goes on.
- Two daemons can serve one pipe name, because nothing asks for the first instance
  only.  The wake connection of a shutdown (`src/src/resident.rs` 597) may then reach
  the other one, and the daemon that has confirmed its stop waits on with its flag set
  until some connection arrives.  `Stranded` is this case and `AcknowledgedStopEnds`
  excepts it by name; without the exception the run finds it.
- An uninstall of the program by itself deletes it later, by a script; an install
  that ends before that loses its program.  `ProgramNotLost` speaks of the time
  before anybody asks for an uninstall, and `OkMeansDone` of runs begun when no
  deletion is pending.
- A run that is killed, or whose source fails the checks, leaves its staged file in
  the install directory; nothing removes it but an uninstall.

## Proofs

`SkbIndexProofs` (for all names, hashes, widths and file counts):

- `TypeCorrect`: `Spec => []TypeOK`.
- `HashRangeIsExact`: the range read through the prefix directory is exactly the
  positions of the hash.  `TypeOK` is not inductive for this: the invariant adds
  that the table is sorted, that the ids are a permutation, and that during the
  rebuild every start written so far is the first position whose hash is not
  below its bucket, while the position reached bounds those still to come.
- `IndexImplementsCatalog`: every step of the index is a step of `SkbCatalog` or
  a stutter.
- `VisitsArePrefixes`: positions are visited in the order of the table, and within
  one hash that is the order of the ids.  How many are visited is a count of those
  before each; `Ranking` says that such counts are `0 .. n - 1`, each once.
- `RebuildAlwaysAdvances`: every iteration leaves fewer to make.

`SkbEngineProofs`:

- `LayersAlwaysAgree`: the cache answers with the index's files.  This needs
  nothing but the shape of an entry: ids are those of its key, its key has the
  hash, and the comparison of the first file's real name decides.
- `HotUsageAlwaysFresh` and `RepliesAlwaysCurrent`: the usage in the cache is
  the current one, and every answer has the right files with the usage after the call.
  They assume `KeyFollowsFold`, that two names have one key exactly if they
  compare equal, which is what finding 1 breaks; the invariant `HotInv` says what
  each cached entry was built from.
- `EngineTypes`, `TopNameAlwaysHot` and `HotNamesAlwaysAgree`.  The invariant
  `CacheInv` is stronger than `HotInv`: the cache is exactly what
  `rebuild_hot_cache` makes of the index, the usage and the capacity as they are now,
  under one of the orders `sort_by` may leave.  An order gives the used names the
  ranks `1 .. n`, each once; the capacity then bounds the entries, the last name
  of a set has all others of it ahead and fewer than `HotWays`, and the place of
  a name in `hot_names` is the number of listed names before it, and one.
  `TopNameAlwaysHot` assumes `KeyFoldsAlike`, that a key compares equal to the names
  it is the key of; without it `engine_sigma` is the counterexample.  The other two
  assume nothing.

`SkbLargestProofs`:

- `HeapIsBounded` and `HeapHoldsLargest`: the heap never outgrows its limit and
  holds the largest files seen.  The step that needs an argument is that a file
  is offered once: `WalkInv` says that everything met is the root or a child of
  an opened directory, that no directory is opened twice and that a child is
  either still to be looked at or has been.  `OfferKeepsLargest` is the step of
  the heap itself.
- `ReportRanksExactly`: the report is the heap in the order of `Ranked`, by size and
  then by text, which is total because texts differ (`ReportOrder`), so each rank is
  taken once and the report is as long as the heap; what is not in the heap is no
  larger by `LargestKept`.
- `TotalsAreExact`: `Listed` and `OnlyReachable` say that what was met so far lies
  in every set closed under listing, and that at the end it is such a set.  The
  sum is a recursive function over the subsets of what was counted; that it exists
  (`SumsExist`) and grows by the size of a file that joins (`SumAdd`) is proved by a
  counterexample with the fewest members, an induction the provers can do because it
  is about a number.
- `WalkAlwaysAdvances`: every step opens one more directory, or looks at one more
  child, or reports.

`SkbIndexStoreProofs` (any number of scanners, readers, scans and faults, either
platform):

- `SavingImplementsRegister`: every step of saving and loading, and every loss of
  power, is a step of `SkbIndexRegister` or a stutter.  The invariant has five parts:
  `Types`; `Files`, a temporary file is synced before anything moves it, so that an
  index that is active, set aside or may come back is synced; `Unix`, nothing is set
  aside there; `TakeTurns`, while scans do not overlap the one that runs has the newest
  index, newer than any that may come back, and between setting aside and activating
  or restoring the active name is empty, without which a commit could go back; and
  `Kept`, what was reported is current, and in all that may come back if the
  directory was synced.
- `AcknowledgedAlwaysKept` is `Kept` read off.
- `UnixAlwaysAvailable`: on Unix the active name is never empty once there is an
  index, except by a loss of power; and not by that either once the directory has been
  synced with an index in it.
- `ActiveAlwaysDurable` and `TypeCorrect` follow from the invariant.

`SkbScanProofs` (any tree, order of listing, read errors and limits):

- `PathsAlwaysResolve` and `DirectoriesAreInternedOnce`.  The pools only grow, so
  what an offset reads stays; `Directories` says that `dir_ids` and the table of
  offsets are inverse to each other, `Entries` that every entry resolves to the
  name and the directory of its file.
- `TypeCorrect`: the pools and tables stay within the limits of the format.
- `ScanIsExact`: `MetOnce`, `Listed` and `OnlyReachable` are the argument of
  `TotalsAreExact` for a stack that is a sequence.  That a tree is reached
  is said without recursion, as membership in every set that holds the root and is
  closed under what could be listed.
- `ScanAlwaysAdvances`: every step opens one more directory, looks at one more child or
  leaves less of the loop's body.  It assumes that the tree is finite.

`SkbResidentProofs` (any number of daemons, clients, connections and scans, either
transport):

- `OneGenerationPerConnection`: all a connection carries is of the generation its
  daemon loaded (`Sound`).  For this a daemon that has not started must have no open
  connection, which needs `Queues`: a connection waits in the queue of its
  daemon, once, exactly until it is accepted or closed.
- `TypeCorrect`: a pipe instance takes one client, and queues and connections
  agree.

`SkbInstallProofs` (any number of runs, requests and faults):

- `ProgramIsNotLost`: `Kept` says where the program is, in its place or with a run
  that cannot come to drop its backup without activating its copy first; the case
  that needs the argument is a second run that sets aside, drops or restores between
  the steps of the first.
- `SuccessIsDone`: `Undisturbed` says how far a run that is alone has come with what
  it was asked for.
- `TypeCorrect`: `Control` and `Files`, of which the part that matters is that a run
  keeps the copy it has checked.

`SkbSessionsProofs` (any number of servers and commands, any set of lines, any number
of lines and faults):

- `RepliesAlwaysTellTruth`.  `Session` says which requests a process has replied to at
  each place of its loop, `Truth` that memory holds what it has learned and that each
  reply is the right one.  `NothingInvented`, that memory and files hold only
  learnings somebody was asked for, keeps what other processes wrote from being taken
  for its own; it is a theorem of its own, `OnlyRequestsAreLearned`.
- `LossIsAlwaysReported`.  `Losses` is a count in disguise: a save needs a temporary
  file to rename and there is never more than one, so once two saves have opened the
  same one a rename must fail before all have ended.  Hence while nothing has failed
  the only save in progress owns the temporary file, if there is one, and that is
  whole or about to be written by it alone.  That a fresh temporary file is always
  to be had (`FreshIsFree`) is a counting argument on objects, names and handles.
- `AloneIsAlwaysStored`.  `Undisturbed` follows a session that nobody has joined
  through a save; while its last learning is being saved no answered one is the last
  (`NotTheLast`).
- `SessionTypes` follows from `Names`, that names and handles of the store are apart,
  from `NothingInvented` and from `Channels`, that replies are answers to lines; that
  the results of a batch are a sequence of answers needs no induction, because
  `Found` is the set of the places that have a file.

The assumptions on constants are those the modules declare, and TLC evaluates
them in every run.

Those a reader should know of: names are finitely many and none is the value that
stands for no key (`SkbEngine!NameAssumption`), the lines of a session are
sequences of its three kinds of argument (`SkbSessions!LineAssumption`), and without
links a file system is a tree (`TreeAssumption`).

Model-checked only: liveness (`RebuildEnds`, `ScanEnds`, `WalkEnds`,
`AcknowledgedStopEnds`, `EveryRequestEnds`), because fairness speaks of `ENABLED`, which
is out of the provers' reach.  Of the first three the part that is not about
fairness is proved for all instances: no step leaves as much to do as before
(`RebuildAlwaysAdvances`, `ScanAlwaysAdvances`, `WalkAlwaysAdvances`).  Every invariant
and every refinement the passing runs check is a theorem: `HotUsageFresh`,
`ReplyIsCurrent` and `TopNameIsHot` under the assumptions on keys named above.

## Not modelled

FNV-1a arithmetic (a hash is any value that equal names share) and the framing of
messages, byte by byte; argument parsing, printing, benchmarks and paths; the texts
and schemas of the MCP replies; the text and JSON forms of the disk report; build and
release scripts. `SearchEngine::resolve_file` and the strings of `find` are reads of
the index. `DisconnectNamedPipe` may discard a reply the client has not read:
modelled, but no property is stated of it on pipes.  A pipe thread whose reply to a
shutdown cannot be written ends without waking the main thread: modelled, and the
daemon then waits for the next client.

## Plan

What would add most next:

1. The store of the usage state and the engine composed, so that an answer is
   related to the file another process left.
2. For the runs of the installer and the saves of `SkbIndexStore`, what is proved of
   the three loops: that each has a bounded number of steps.
