------------------------------ MODULE SkbScan -------------------------------
(***************************************************************************)
(* FileIndex::scan: the walk of a directory tree with an explicit stack,   *)
(* the entries, string pools and interned directories it builds, and the   *)
(* errors it skips or gives up on.  The operating system chooses the order *)
(* of a directory's children and which of them cannot be read.  Names and  *)
(* paths are compared as the text to_string_lossy gives, so two different  *)
(* directories may have one text.                                          *)
(***************************************************************************)
EXTENDS Integers, Sequences, FiniteSets, Functions

CONSTANTS
  Node,       \* files, directories, symbolic links and other objects
  Kind,       \* Kind[x]: "file", "dir", "symlink" or "other"
  Children,   \* Children[x]: the objects in directory x; for a link, those
              \* of the directory it points to
  Root,       \* the canonical root of the scan
  Text,       \* Text[x]: file name of a file, full path of a directory
  TextSize,   \* TextSize[t]: its length in bytes
  MaxFiles,   \* MAX_INDEX_ENTRIES
  MaxPool,    \* MAX_POOL_BYTES
  MaxDirs     \* u32::MAX directories

Dir == {x \in Node : Kind[x] = "dir"}
File == {x \in Node : Kind[x] = "file"}
Parent(x) == CHOOSE d \in Dir : x \in Children[d]

ASSUME TreeAssumption ==
  /\ Root \in Dir
  /\ \A x \in Node : Kind[x] \in {"file", "dir", "symlink", "other"}
  /\ \A x \in Node : Children[x] \subseteq Node /\ TextSize[Text[x]] \in Nat
  /\ MaxFiles \in Nat /\ MaxPool \in Nat /\ MaxDirs \in Nat
  \* Without links the file system is a tree.
  /\ \A d, e \in Dir : d # e => Children[d] \cap Children[e] = {}
  /\ \A d \in Dir : Root \notin Children[d]

VARIABLES
  pc,          \* "pop", "children", "done" or "failed"
  stack,       \* directories still to be opened
  dir,         \* the directory being listed
  pending,     \* its children still to be looked at
  entries,     \* the entries: name_offset and parent_id
  namePool,    \* a pool: its size and the text that starts at an offset
  dirPool,
  dirOffsets,  \* dir_offsets, directory id i at position i + 1
  dirIds,      \* dir_ids: the text of every interned directory, and its id
  opened,      \* ghost: the directories popped, in order
  indexed,     \* ghost: the object behind every entry
  unread,      \* ghost: the directories whose listing failed, and
  skipped      \* the children passed over (the code counts both in `skipped`)

walk == <<stack, dir, pending, opened, unread>>
built == <<entries, namePool, dirPool, dirOffsets, dirIds, indexed>>
vars == <<pc, stack, dir, pending, entries, namePool, dirPool, dirOffsets,
          dirIds, opened, indexed, unread, skipped>>

-----------------------------------------------------------------------------
(* String pools.                                                           *)

\* The map f with a new value for one key.
Insert(f, key, value) ==
  [k \in DOMAIN f \union {key} |-> IF k = key THEN value ELSE f[k]]

EmptyPool == [size |-> 0, at |-> <<>>]
Fits(pool, t) == pool.size + TextSize[t] + 1 <= MaxPool

\* push_pool_string: the text, its terminator, and the offset it starts at.
PushPoolString(pool, t) ==
  [size |-> pool.size + TextSize[t] + 1, at |-> Insert(pool.at, pool.size, t)]

\* validate_offset, as load applies it to every stored offset: below the end,
\* and at the start or right after a terminator.
ValidOffset(pool, offset) == offset < pool.size /\ offset \in DOMAIN pool.at

\* Mutant of Interned: never finds a directory again.
NeverInterned(t) == FALSE

\* intern_directory
Interned(t) == t \in DOMAIN dirIds

CanIntern(t) == Interned(t) \/ (Len(dirOffsets) < MaxDirs /\ Fits(dirPool, t))

InternDirectory(t) ==
  IF Interned(t) THEN UNCHANGED <<dirPool, dirOffsets, dirIds>>
  ELSE /\ dirOffsets' = Append(dirOffsets, dirPool.size)
       /\ dirIds' = Insert(dirIds, t, Len(dirOffsets))
       /\ dirPool' = PushPoolString(dirPool, t)

-----------------------------------------------------------------------------
Init ==
  /\ pc = "pop"
  /\ stack = <<Root>>
  /\ dir = Root
  /\ pending = {}
  /\ entries = <<>>
  /\ namePool = EmptyPool
  /\ dirPool = EmptyPool
  /\ dirOffsets = <<>>
  /\ dirIds = <<>>
  /\ opened = <<>>
  /\ indexed = <<>>
  /\ unread = {}
  /\ skipped = {}

Top == stack[Len(stack)]
Popped == SubSeq(stack, 1, Len(stack) - 1)

\* while let Some(dir) = stack.pop(): the listing opens, or is skipped.
OpenDirectory ==
  /\ pc = "pop" /\ stack # <<>>
  /\ dir' = Top /\ stack' = Popped
  /\ opened' = Append(opened, Top)
  /\ pending' = Children[Top]
  /\ pc' = "children"
  /\ UNCHANGED <<built, unread, skipped>>

SkipDirectory ==
  /\ pc = "pop" /\ stack # <<>>
  /\ dir' = Top /\ stack' = Popped
  /\ opened' = Append(opened, Top)
  /\ unread' = unread \union {Top}
  /\ UNCHANGED <<pc, pending, built, skipped>>

\* Mutant of SkipChild: leaves the bad entry in the listing.
SkipChildRetried(x) ==
  /\ pc = "children" /\ x \in pending
  /\ skipped' = skipped \union {x}
  /\ UNCHANGED <<pc, walk, built>>

\* One child of the listing is an error, or its type cannot be read; a link is
\* always skipped.
SkipChild(x) ==
  /\ pc = "children" /\ x \in pending
  /\ pending' = pending \ {x}
  /\ skipped' = skipped \union {x}
  /\ UNCHANGED <<pc, stack, dir, opened, unread, built>>

\* Mutant of PushDirectory: follows symbolic links.
PushDirectoryOrLink(x) ==
  /\ pc = "children" /\ x \in pending
  /\ Kind[x] \in {"dir", "symlink"}
  /\ pending' = pending \ {x}
  /\ stack' = Append(stack, x)
  /\ UNCHANGED <<pc, dir, opened, unread, built, skipped>>

PushDirectory(x) ==
  /\ pc = "children" /\ x \in pending
  /\ Kind[x] = "dir"
  /\ pending' = pending \ {x}
  /\ stack' = Append(stack, x)
  /\ UNCHANGED <<pc, dir, opened, unread, built, skipped>>

\* Neither file, directory nor link: passed over without being counted.
PassOther(x) ==
  /\ pc = "children" /\ x \in pending
  /\ Kind[x] = "other"
  /\ pending' = pending \ {x}
  /\ UNCHANGED <<pc, stack, dir, opened, unread, built, skipped>>

\* Mutant of HasRoom: is off by one.
HasRoomForOneMore(x) ==
  /\ Len(entries) <= MaxFiles
  /\ CanIntern(Text[dir])
  /\ Fits(namePool, Text[x])

\* A file: its directory is interned, its name stored, its entry appended.
HasRoom(x) ==
  /\ Len(entries) < MaxFiles
  /\ CanIntern(Text[dir])
  /\ Fits(namePool, Text[x])

\* Mutant of IndexFile: uses the parent id before the directory is interned.
IndexFileBeforeIntern(x) ==
  /\ pc = "children" /\ x \in pending
  /\ Kind[x] = "file" /\ HasRoom(x)
  /\ pending' = pending \ {x}
  /\ InternDirectory(Text[dir])
  /\ namePool' = PushPoolString(namePool, Text[x])
  /\ entries' = Append(entries,
        [nameOffset |-> namePool.size, parentId |-> Len(dirOffsets)])
  /\ indexed' = Append(indexed, x)
  /\ UNCHANGED <<pc, stack, dir, opened, unread, skipped>>

IndexFile(x) ==
  /\ pc = "children" /\ x \in pending
  /\ Kind[x] = "file" /\ HasRoom(x)
  /\ pending' = pending \ {x}
  /\ InternDirectory(Text[dir])
  /\ namePool' = PushPoolString(namePool, Text[x])
  /\ entries' = Append(entries,
        [nameOffset |-> namePool.size, parentId |-> dirIds'[Text[dir]]])
  /\ indexed' = Append(indexed, x)
  /\ UNCHANGED <<pc, stack, dir, opened, unread, skipped>>

\* A limit of the format: the scan returns the error and installs no index.
GiveUp(x) ==
  /\ pc = "children" /\ x \in pending
  /\ Kind[x] = "file" /\ ~HasRoom(x)
  /\ pc' = "failed"
  /\ UNCHANGED <<walk, built, skipped>>

FinishDirectory ==
  /\ pc = "children" /\ pending = {}
  /\ pc' = "pop"
  /\ UNCHANGED <<walk, built, skipped>>

\* The stack is empty: the lookup table is installed (SkbIndex) and the scan
\* returns.
Finish ==
  /\ pc = "pop" /\ stack = <<>>
  /\ pc' = "done"
  /\ UNCHANGED <<walk, built, skipped>>

Next ==
  \/ OpenDirectory
  \/ SkipDirectory
  \/ \E x \in pending : \/ SkipChild(x)
                        \/ PushDirectory(x)
                        \/ PassOther(x)
                        \/ IndexFile(x)
                        \/ GiveUp(x)
  \/ FinishDirectory
  \/ Finish

Spec == Init /\ [][Next]_vars

\* The walk is one loop of one thread.
FairSpec == Spec /\ WF_vars(Next)

-----------------------------------------------------------------------------
(* Properties.                                                             *)

\* Types of the walk; ids and offsets are checked by PathsResolve.
TypeOK ==
  /\ pc \in {"pop", "children", "done", "failed"}
  /\ stack \in Seq(Dir) /\ dir \in Dir /\ pending \subseteq Node
  /\ skipped \subseteq Node /\ unread \subseteq Dir
  /\ Len(entries) <= MaxFiles /\ Len(dirOffsets) <= MaxDirs
  /\ namePool.size <= MaxPool /\ dirPool.size <= MaxPool

NoRepeats(s) == \A i, j \in DOMAIN s : i # j => s[i] # s[j]

\* The directories a scan must open: the root, and what a directory that could be
\* listed holds; that is, those in every set that is closed under listing.
Closed(C) == Root \in C /\ \A d \in C \ unread : (Children[d] \cap Dir) \ skipped \subseteq C
ReachableDirs == {d \in Dir : \A C \in SUBSET Dir : Closed(C) => d \in C}
ReachableFiles == UNION {(Children[d] \cap File) \ skipped : d \in ReachableDirs \ unread}

\* A finished scan indexed exactly the files reachable through directories and
\* entries that could be read, each once, and opened each directory once: no
\* symbolic link adds a file or a second copy, and a failing child costs only
\* itself and what lies below it.
ScanExact ==
  pc = "done" =>
     /\ NoRepeats(indexed) /\ NoRepeats(opened)
     /\ Range(indexed) = ReachableFiles
     /\ Range(opened) = ReachableDirs

\* At every point of the scan each entry reads back as the file it was made
\* for: its offset gives the file's name and its parent id the text of the
\* directory that holds it; load's checks accept every offset and id.
PathsResolve ==
  \A i \in DOMAIN entries :
     LET e == entries[i] IN
     /\ ValidOffset(namePool, e.nameOffset)
     /\ namePool.at[e.nameOffset] = Text[indexed[i]]
     /\ e.parentId < Len(dirOffsets)
     /\ ValidOffset(dirPool, dirOffsets[e.parentId + 1])
     /\ dirPool.at[dirOffsets[e.parentId + 1]] = Text[Parent(indexed[i])]

\* A directory text is stored once, however many files, listings or equal
\* texts lead to it, and only if it holds an indexed file.
DirectoriesInternedOnce ==
  LET texts == [i \in DOMAIN dirOffsets |-> dirPool.at[dirOffsets[i]]]
  IN  /\ NoRepeats(texts)
      /\ Range(texts) = {Text[Parent(x)] : x \in Range(indexed)}

\* The scan ends, with an index or an error.
ScanEnds == <>(pc \in {"done", "failed"})

=============================================================================
