----------------------------- MODULE SkbLargest -----------------------------
(***************************************************************************)
(* scan_largest: one walk over a tree that keeps the largest files it has  *)
(* seen in a heap of bounded size, and reports them by size.  The walk is  *)
(* that of SkbScan with other errors; the order of its stack matters to    *)
(* nothing here, so any waiting directory may be the next.                 *)
(***************************************************************************)
EXTENDS Integers, FiniteSets

CONSTANTS
  Node,      \* files, directories, symbolic links and other objects
  Kind,      \* Kind[x]: "file", "dir", "symlink" or "other"
  Children,  \* Children[x]: the objects in directory x; for a link, those of
             \* the directory it points to
  Root,      \* the root of the walk
  Size,      \* Size[x]: the size of file x
  Path,      \* Path[x]: the place of its path in the order of paths, which
             \* compares them component by component
  Text,      \* Text[x]: the place of its path as a text, which compares bytes
  Limit,     \* how many files to keep; run checks that it is 1 .. 10000
  MaxTotal   \* u64::MAX, where the totals saturate

Dir == {x \in Node : Kind[x] = "dir"}
File == {x \in Node : Kind[x] = "file"}

ASSUME TreeAssumption ==
  /\ Root \in Dir
  /\ \A d \in Dir : Children[d] \subseteq Node /\ Root \notin Children[d]
  /\ \A d, e \in Dir : d # e => Children[d] \cap Children[e] = {}

ASSUME SizeAssumption ==
  /\ \A x \in File : Size[x] \in Nat /\ Path[x] \in Nat /\ Text[x] \in Nat
  /\ \A x, y \in File : x # y => Path[x] # Path[y] /\ Text[x] # Text[y]
  /\ Limit \in Nat /\ Limit > 0 /\ MaxTotal \in Nat

VARIABLES
  pc,         \* "walk" or "done"
  stack,      \* directories still to be opened
  pending,    \* children of the directory being listed, still to be looked at
  heap,       \* the files kept: a min-heap by size, then path
  filesSeen,
  bytesSeen,
  report,     \* the largest files, once done
  opened,     \* ghost: the directories popped
  seen,       \* ghost: the files counted
  missed      \* ghost: what could not be read, and links

walk == <<pc, stack, pending, opened, missed>>
kept == <<heap, filesSeen, bytesSeen, seen>>
vars == <<pc, stack, pending, heap, filesSeen, bytesSeen, report, opened, seen, missed>>

SaturatingAdd(a, b) == IF a + b <= MaxTotal THEN a + b ELSE MaxTotal

-----------------------------------------------------------------------------
\* The order of (size, path), and the file heap.peek() shows.
Smaller(x, y) == Size[x] < Size[y] \/ (Size[x] = Size[y] /\ Path[x] < Path[y])
Smallest(S) == CHOOSE x \in S : \A y \in S \ {x} : Smaller(x, y)

\* Mutant of Offered: keeps one file too many.
OfferedOneTooMany(x) ==
  IF Cardinality(heap) <= Limit THEN heap \union {x}
  ELSE IF Size[x] > Size[Smallest(heap)]
  THEN (heap \ {Smallest(heap)}) \union {x}
  ELSE heap

\* Mutant of Offered: the heap without Reverse.
OfferedToMaxHeap(x) ==
  LET largest == CHOOSE z \in heap : \A y \in heap \ {z} : Smaller(y, z)
  IN  IF Cardinality(heap) < Limit THEN heap \union {x}
      ELSE IF Size[x] > Size[largest] THEN (heap \ {largest}) \union {x}
      ELSE heap

\* The heap after it was offered x: filled up to the limit, then the smallest
\* makes room for a file that is really larger.
Offered(x) ==
  IF Cardinality(heap) < Limit THEN heap \union {x}
  ELSE IF Size[x] > Size[Smallest(heap)]
  THEN (heap \ {Smallest(heap)}) \union {x}
  ELSE heap

\* Mutant of Ranked: compares a with b instead of b with a.
RankedSmallestFirst ==
  [i \in 1 .. Cardinality(heap) |->
     CHOOSE x \in heap :
       Cardinality({y \in heap : Size[y] < Size[x]
                      \/ (Size[x] = Size[y] /\ Text[y] < Text[x])}) = i - 1]

\* sort_unstable_by: larger files first, equal sizes by the text of the path.
Ranked ==
  [i \in 1 .. Cardinality(heap) |->
     CHOOSE x \in heap :
       Cardinality({y \in heap : Size[x] < Size[y]
                      \/ (Size[x] = Size[y] /\ Text[y] < Text[x])}) = i - 1]

-----------------------------------------------------------------------------
Init ==
  /\ pc = "walk"
  /\ stack = {Root}
  /\ pending = {}
  /\ heap = {} /\ filesSeen = 0 /\ bytesSeen = 0
  /\ report = <<>>
  /\ opened = {} /\ seen = {} /\ missed = {}

\* The listing of the last directory is finished: the next one is popped.
Pop(d) ==
  /\ pc = "walk" /\ pending = {} /\ d \in stack
  /\ stack' = stack \ {d}
  /\ opened' = opened \union {d}
  /\ UNCHANGED <<pc, kept, report>>

\* Mutant of OpenDirectory: looks at the top of the stack and leaves it there.
OpenDirectoryAgain(d) ==
  /\ pc = "walk" /\ pending = {} /\ d \in stack
  /\ opened' = opened \union {d}
  /\ pending' = Children[d]
  /\ UNCHANGED <<pc, stack, kept, report, missed>>

OpenDirectory(d) ==
  /\ Pop(d)
  /\ pending' = Children[d]
  /\ UNCHANGED missed

SkipDirectory(d) ==
  /\ Pop(d)
  /\ missed' = missed \union {d}
  /\ UNCHANGED pending

Take(x) ==
  /\ pc = "walk" /\ x \in pending
  /\ pending' = pending \ {x}
  /\ UNCHANGED <<pc, report, opened>>

\* The entry, its type or its metadata cannot be read, or it is a link.
SkipEntry(x) ==
  /\ Take(x)
  /\ missed' = missed \union {x}
  /\ UNCHANGED <<stack, kept>>

\* Mutant of PushDirectory: follows symbolic links.
PushDirectoryOrLink(x) ==
  /\ Kind[x] \in {"dir", "symlink"}
  /\ Take(x)
  /\ stack' = stack \union {x}
  /\ UNCHANGED <<kept, missed>>

PushDirectory(x) ==
  /\ Kind[x] = "dir"
  /\ Take(x)
  /\ stack' = stack \union {x}
  /\ UNCHANGED <<kept, missed>>

PassOther(x) ==
  /\ Kind[x] = "other"
  /\ Take(x)
  /\ UNCHANGED <<stack, kept, missed>>

CountFile(x) ==
  /\ Kind[x] = "file"
  /\ Take(x)
  /\ heap' = Offered(x)
  /\ filesSeen' = SaturatingAdd(filesSeen, 1)
  /\ bytesSeen' = SaturatingAdd(bytesSeen, Size[x])
  /\ seen' = seen \union {x}
  /\ UNCHANGED <<stack, missed>>

Finish ==
  /\ pc = "walk" /\ pending = {} /\ stack = {}
  /\ pc' = "done"
  /\ report' = Ranked
  /\ UNCHANGED <<stack, pending, kept, opened, missed>>

Next ==
  \/ \E d \in stack : OpenDirectory(d) \/ SkipDirectory(d)
  \/ \E x \in pending :
       SkipEntry(x) \/ PushDirectory(x) \/ PassOther(x) \/ CountFile(x)
  \/ Finish

Spec == Init /\ [][Next]_vars

\* The walk is one loop of one thread.
FairSpec == Spec /\ WF_vars(Next)

-----------------------------------------------------------------------------
(* Properties.                                                             *)

\* Types, and the bound of the heap, which scan_largest allocates once.
TypeOK ==
  /\ pc \in {"walk", "done"}
  /\ stack \subseteq Dir /\ opened \subseteq Dir
  /\ pending \subseteq Node /\ missed \subseteq Node
  /\ heap \subseteq seen /\ seen \subseteq File
  /\ filesSeen \in 0 .. MaxTotal /\ bytesSeen \in 0 .. MaxTotal
  /\ IsFiniteSet(heap) /\ Cardinality(heap) <= Limit

\* At every point of the walk the heap holds the largest files seen so far: it
\* is not full only if it holds all of them, and no file that was dropped or
\* refused is larger than one that was kept, in whatever order they came.
LargestKept ==
  /\ heap # seen => Cardinality(heap) = Limit
  /\ \A x \in heap, y \in seen \ heap : Size[y] <= Size[x]

\* The report is as long as the limit allows, the file at rank i has the i-th
\* largest size of all files counted, and files of one size stand in the order of
\* their texts, although the heap that chose them orders paths otherwise.
RanksExact ==
  /\ pc = "done" =>
       LET n == Cardinality(seen)
       IN  DOMAIN report = 1 .. (IF n < Limit THEN n ELSE Limit)
  /\ \A i \in DOMAIN report :
       /\ Cardinality({y \in seen : Size[y] > Size[report[i]]}) < i
       /\ Cardinality({y \in seen : Size[y] >= Size[report[i]]}) >= i
  /\ \A i, j \in DOMAIN report :
       i < j /\ Size[report[i]] = Size[report[j]] => Text[report[i]] < Text[report[j]]

\* The directories the walk must open: the root, and what a directory that could
\* be read lists; that is, those in every set that is closed under listing.
Closed(C) == Root \in C /\ \A d \in C \ missed : (Children[d] \cap Dir) \ missed \subseteq C
ReachableDirs == {d \in Dir : \A C \in SUBSET Dir : Closed(C) => d \in C}
Reachable == UNION {Children[d] \ missed : d \in ReachableDirs \ missed}

Sum(S) ==
  LET sum[T \in SUBSET S] ==
        IF T = {} THEN 0
        ELSE LET x == CHOOSE x \in T : TRUE IN Size[x] + sum[T \ {x}]
  IN  sum[S]

\* A finished walk counted each file that can be reached without passing a link
\* or something unreadable once, and its totals are theirs.
TotalsExact ==
  pc = "done" =>
     /\ seen = Reachable \cap File
     /\ filesSeen = SaturatingAdd(Cardinality(seen), 0)
     /\ bytesSeen = SaturatingAdd(Sum(seen), 0)

\* The walk ends with a report.
WalkEnds == <>(pc = "done")

=============================================================================
