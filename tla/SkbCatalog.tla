----------------------------- MODULE SkbCatalog -----------------------------
(***************************************************************************)
(* What the file index promises its callers, without tables, hashes or     *)
(* buckets: files are collected in the order the scan meets them (their    *)
(* position is their file id), the collection is sealed once, and while    *)
(* the index serves, a name is answered with exactly the files whose name  *)
(* folds to the same lower-case text, the smallest id first.  SkbIndex     *)
(* implements this module.                                                 *)
(***************************************************************************)
EXTENDS Integers, Sequences

CONSTANTS
  Name,        \* file names, as they are spelled on disk or in a query
  Fold,        \* Fold[n]: the character-wise lower-cased spelling of n
  MaxFiles     \* MAX_INDEX_ENTRIES

NoFile == -1   \* the None of an Option<u32>; ids are naturals

VARIABLES
  phase,       \* "collect", "building", "serving" or "refused"
  files,       \* the names collected, file id i at position i + 1
  answer,      \* answer[n]: the ids of the files that match n
  first        \* first[n]: the smallest of them, or NoFile

vars == <<phase, files, answer, first>>

Nothing == [n \in Name |-> {}]
NoFirst == [n \in Name |-> NoFile]

Matches(n) == {id \in 0 .. Len(files) - 1 : Fold[files[id + 1]] = Fold[n]}

Least(S) == CHOOSE x \in S : \A y \in S : x <= y

LeastOrNone(S) == IF S = {} THEN NoFile ELSE Least(S)

Init ==
  /\ phase = "collect"
  /\ files = <<>>
  /\ answer = Nothing
  /\ first = NoFirst

Add(n) ==
  /\ phase = "collect"
  /\ Len(files) < MaxFiles
  /\ files' = Append(files, n)
  /\ UNCHANGED <<phase, answer, first>>

\* A limit of the format is reached (ids, string pools): the whole collection
\* is refused.
Refuse ==
  /\ phase = "collect"
  /\ phase' = "refused"
  /\ UNCHANGED <<files, answer, first>>

Seal ==
  /\ phase = "collect"
  /\ phase' = "building"
  /\ UNCHANGED <<files, answer, first>>

Publish ==
  /\ phase = "building"
  /\ phase' = "serving"
  /\ answer' = [n \in Name |-> Matches(n)]
  /\ first' = [n \in Name |-> LeastOrNone(Matches(n))]
  /\ UNCHANGED files

\* The index is saved and a later process loads it: no answer in between, and
\* the same files, with the same ids, afterwards.
Restart ==
  /\ phase = "serving"
  /\ phase' = "building"
  /\ answer' = Nothing
  /\ first' = NoFirst
  /\ UNCHANGED files

Next ==
  \/ \E n \in Name : Add(n)
  \/ Refuse
  \/ Seal
  \/ Publish
  \/ Restart

Spec == Init /\ [][Next]_vars

=============================================================================
