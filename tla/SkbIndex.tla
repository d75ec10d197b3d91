------------------------------ MODULE SkbIndex ------------------------------
(***************************************************************************)
(* The compact file index of src/index.rs: entries collected by a scan,    *)
(* the lookup table sorted by (hash, id), the adaptive directory of hash   *)
(* prefixes that rebuild_prefix_table fills one slot at a time, a save and *)
(* load that keep the table and rebuild the directory, and the lookups     *)
(* that read it.                                                           *)
(*                                                                         *)
(* Positions, ids, hashes and prefixes count from 0, as in the code; only  *)
(* the sequence `entries` counts from 1.  A width of b bits is represented *)
(* by its number of buckets, 2^b, and the shift  hash >> (64 - b)  by the  *)
(* division it computes.                                                   *)
(***************************************************************************)
EXTENDS Integers, Sequences, FiniteSets

CONSTANTS
  Name,             \* file names, as spelled on disk or in a query
  Fold,             \* Fold[n]: the character-wise lower-cased spelling of n
  FilenameHash,     \* FilenameHash[n]: filename_hash(n)
  HashSpace,        \* the number of hash values (2^64)
  MaxFiles,         \* MAX_INDEX_ENTRIES
  SmallBuckets,     \* 2^PREFIX_BITS_SMALL, and so on
  MediumBuckets,
  LargeBuckets,
  MediumThreshold,  \* PREFIX_MEDIUM_THRESHOLD, PREFIX_LARGE_THRESHOLD
  LargeThreshold

Hash == 0 .. HashSpace - 1
BucketCounts == {SmallBuckets, MediumBuckets, LargeBuckets}

\* A hash is computed from the folded name alone (filename_hash and
\* filename_eq walk the same stream of lower-case characters), so two
\* spellings that compare equal hash alike; the converse need not hold.
ASSUME NameAssumption ==
  /\ FilenameHash \in [Name -> Hash]
  /\ \A m, n \in Name : Fold[m] = Fold[n] => FilenameHash[m] = FilenameHash[n]

\* Every bucket holds the same number of consecutive hashes (true of powers
\* of two).
ASSUME SizeAssumption ==
  /\ HashSpace \in Nat /\ HashSpace > 0
  /\ MaxFiles \in Nat
  /\ \A b \in BucketCounts : b \in Nat /\ b > 0 /\ HashSpace % b = 0

NoFile == -1

VARIABLES
  pc,            \* "scan", "fill", "ready"; "limit" and "refused" are errors
  entries,       \* the indexed names, the one with id i at position i + 1
  lookupHashes,  \* lookup_hashes, lookup_ids: arrays over Positions
  lookupIds,
  buckets,       \* 2^prefix_bits
  prefixStarts,  \* prefix_starts: an array over 0 .. buckets
  position,      \* the locals of rebuild_prefix_table
  nextPrefix

lookup == <<lookupHashes, lookupIds>>
table == <<buckets, prefixStarts, position, nextPrefix>>
vars == <<pc, entries, lookupHashes, lookupIds,
          buckets, prefixStarts, position, nextPrefix>>

Count == Len(entries)
Positions == 0 .. Count - 1
EntryName(id) == entries[id + 1]

-----------------------------------------------------------------------------
(* The pure helpers.                                                       *)

ChoosePrefixBits(count) ==
  CASE count >= LargeThreshold -> LargeBuckets
    [] count < LargeThreshold /\ count >= MediumThreshold -> MediumBuckets
    [] OTHER -> SmallBuckets

HashPrefix(h) == h \div (HashSpace \div buckets)

\* slice::partition_point on the sorted hashes at positions lo .. hi - 1: the
\* first position whose hash is not below h, and the first whose hash is above
\* it (hi where there is none).
Least(S) == CHOOSE x \in S : \A y \in S : x <= y
FirstNotBelow(lo, hi, h) ==
  Least({p \in lo .. hi - 1 : lookupHashes[p] >= h} \union {hi})
FirstAbove(lo, hi, h) ==
  Least({p \in lo .. hi - 1 : lookupHashes[p] > h} \union {hi})

\* Mutant of HashRange: ends at the start of its own bucket.
HashRangeWrongBucketEnd(h) ==
  LET lo == prefixStarts[HashPrefix(h)]
      hi == prefixStarts[HashPrefix(h) + 1] - 1
      start == FirstNotBelow(lo, hi, h)
  IN  IF start >= hi \/ lookupHashes[start] # h
      THEN [start |-> start, end |-> start]
      ELSE [start |-> start, end |-> FirstAbove(start, hi, h)]

\* hash_range: the half-open interval of positions that can hold h.
HashRange(h) ==
  LET lo == prefixStarts[HashPrefix(h)]
      hi == prefixStarts[HashPrefix(h) + 1]
      start == FirstNotBelow(lo, hi, h)
  IN  IF start = hi \/ lookupHashes[start] # h
      THEN [start |-> start, end |-> start]
      ELSE [start |-> start, end |-> FirstAbove(start, hi, h)]

\* Mutant of CandidatePositions: trusts the hash.
CandidatePositionsUnverified(n) ==
  LET r == HashRange(FilenameHash[n])
  IN  r.start .. r.end - 1

\* The positions of the range that survive the check of the real name: a
\* collision of hashes must not produce a match.
CandidatePositions(n) ==
  LET r == HashRange(FilenameHash[n])
  IN  {p \in r.start .. r.end - 1 : Fold[EntryName(lookupIds[p])] = Fold[n]}

ExactCandidates(n) == {lookupIds[p] : p \in CandidatePositions(n)}

\* The scan of the range stops at the first position that matches.
LookupFirstId(n) ==
  IF CandidatePositions(n) = {} THEN NoFile
  ELSE lookupIds[Least(CandidatePositions(n))]

\* Mutant of VisitExactCandidates: takes a limit of 0 literally.
VisitUnclamped(n, limit) ==
  {lookupIds[p] : p \in
     {p \in CandidatePositions(n) :
        Cardinality({q \in CandidatePositions(n) : q < p}) < limit}}

\* visit_exact_candidates_with_hash: the same walk, stopped after `limit`
\* visits; a limit of 0 is raised to 1.
VisitExactCandidates(n, limit) ==
  LET bound == IF limit = 0 THEN 1 ELSE limit
  IN  {lookupIds[p] : p \in
         {p \in CandidatePositions(n) :
            Cardinality({q \in CandidatePositions(n) : q < p}) < bound}}

-----------------------------------------------------------------------------
(* Collecting and sorting.                                                 *)

Init ==
  /\ pc = "scan"
  /\ entries = <<>>
  /\ lookupHashes = <<>>
  /\ lookupIds = <<>>
  /\ buckets = SmallBuckets
  /\ prefixStarts = [p \in 0 .. SmallBuckets |-> 0]
  /\ position = 0
  /\ nextPrefix = 0

\* The is_file branch of scan: one more entry, or the error that ends the scan
\* when there is no id left.
PushFile(n) ==
  /\ pc = "scan"
  /\ Count < MaxFiles
  /\ entries' = Append(entries, n)
  /\ UNCHANGED <<pc, lookup, table>>

PushPastLimit ==
  /\ pc = "scan"
  /\ Count >= MaxFiles
  /\ pc' = "limit"
  /\ UNCHANGED <<entries, lookup, table>>

\* sort_unstable_by (hash, then id): ids are distinct, so one order qualifies.
SortedByHashThenId(ids) ==
  \A i, j \in Positions :
     i < j => LET hi == FilenameHash[EntryName(ids[i])]
                  hj == FilenameHash[EntryName(ids[j])]
              IN  hi < hj \/ (hi = hj /\ ids[i] < ids[j])

\* The first lines of rebuild_prefix_table: a zeroed table of the width chosen
\* for the number of entries.
StartRebuild ==
  /\ buckets' = ChoosePrefixBits(Count)
  /\ prefixStarts' = [p \in 0 .. ChoosePrefixBits(Count) |-> 0]
  /\ position' = 0
  /\ nextPrefix' = 0

InstallSortedLookup ==
  /\ pc = "scan"
  /\ \E ids \in [Positions -> Positions] :
        /\ SortedByHashThenId(ids)
        /\ lookupIds' = ids
        /\ lookupHashes' = [p \in Positions |-> FilenameHash[EntryName(ids[p])]]
  /\ StartRebuild
  /\ pc' = "fill"
  /\ UNCHANGED entries

-----------------------------------------------------------------------------
(* The two loops of rebuild_prefix_table.                                  *)

\* while next_prefix <= prefix
FillBucket ==
  /\ pc = "fill"
  /\ position < Count
  /\ nextPrefix <= HashPrefix(lookupHashes[position])
  /\ prefixStarts' = [prefixStarts EXCEPT ![nextPrefix] = position]
  /\ nextPrefix' = nextPrefix + 1
  /\ UNCHANGED <<pc, entries, lookup, buckets, position>>

NextPosition ==
  /\ pc = "fill"
  /\ position < Count
  /\ nextPrefix > HashPrefix(lookupHashes[position])
  /\ position' = position + 1
  /\ UNCHANGED <<pc, entries, lookup, buckets, prefixStarts, nextPrefix>>

\* Mutant of FillTail: writes one bucket past the table.
FillTailPastEnd ==
  /\ pc = "fill"
  /\ position = Count
  /\ nextPrefix <= buckets + 1
  /\ prefixStarts' = [prefixStarts EXCEPT ![nextPrefix] = Count]
  /\ nextPrefix' = nextPrefix + 1
  /\ UNCHANGED <<pc, entries, lookup, buckets, position>>

\* Mutant of FillTail: forgets to advance.
FillTailNoIncrement ==
  /\ pc = "fill"
  /\ position = Count
  /\ nextPrefix < buckets + 1
  /\ prefixStarts' = [prefixStarts EXCEPT ![nextPrefix] = Count]
  /\ UNCHANGED <<pc, entries, lookup, buckets, position, nextPrefix>>

\* while next_prefix < table_len
FillTail ==
  /\ pc = "fill"
  /\ position = Count
  /\ nextPrefix < buckets + 1
  /\ prefixStarts' = [prefixStarts EXCEPT ![nextPrefix] = Count]
  /\ nextPrefix' = nextPrefix + 1
  /\ UNCHANGED <<pc, entries, lookup, buckets, position>>

Serve ==
  /\ pc = "fill"
  /\ position = Count
  /\ nextPrefix = buckets + 1
  /\ pc' = "ready"
  /\ UNCHANGED <<entries, lookup, table>>

-----------------------------------------------------------------------------
(* save and load.  The file holds the entries and the two sorted arrays; the *)
(* prefix directory is not stored but rebuilt.                               *)

LoadAccepts ==
  /\ \A p \in Positions : p + 1 \in Positions => lookupHashes[p] <= lookupHashes[p + 1]
  /\ \A p \in Positions : lookupIds[p] < Count

SaveAndLoad ==
  /\ pc = "ready"
  /\ IF LoadAccepts
     THEN pc' = "fill" /\ StartRebuild
     ELSE pc' = "refused" /\ UNCHANGED table
  /\ UNCHANGED <<entries, lookup>>

Next ==
  \/ \E n \in Name : PushFile(n)
  \/ PushPastLimit
  \/ InstallSortedLookup
  \/ FillBucket
  \/ NextPosition
  \/ FillTail
  \/ Serve
  \/ SaveAndLoad

Spec == Init /\ [][Next]_vars

\* rebuild_prefix_table runs to its end in the thread that called it.
FairSpec == Spec /\ WF_vars(FillBucket \/ NextPosition \/ FillTail \/ Serve)

-----------------------------------------------------------------------------
(* Properties.                                                             *)

\* Types, and the array bounds every step keeps: the tables are as long as the
\* entries, every stored id is an entry and every bucket start a position.
TypeOK ==
  /\ pc \in {"scan", "fill", "ready", "limit", "refused"}
  /\ entries \in Seq(Name)
  /\ Count <= MaxFiles
  /\ buckets \in BucketCounts
  /\ prefixStarts \in [0 .. buckets -> 0 .. Count]
  /\ position \in 0 .. Count
  /\ nextPrefix \in 0 .. buckets + 1
  /\ pc \in {"fill", "ready", "refused"} =>
        /\ lookupIds \in [Positions -> Positions]
        /\ lookupHashes \in [Positions -> Hash]

\* Once the directory is built, hash_range reads a legal slice for every hash,
\* the empty buckets, the first and the last bucket included, and returns
\* exactly the positions that hold that hash.
HashRangeExact ==
  pc = "ready" => \A h \in Hash :
     LET r == HashRange(h) IN
     /\ prefixStarts[HashPrefix(h)] <= prefixStarts[HashPrefix(h) + 1]
     /\ r.start \in 0 .. r.end /\ r.end \in 0 .. Count
     /\ r.start .. r.end - 1 = {p \in Positions : lookupHashes[p] = h}

\* A bounded visit returns the smallest ids of the full answer, as many as the
\* limit allows and never fewer than one where there is one: first, bounded
\* and full lookups cannot disagree.
VisitIsPrefixOfCandidates ==
  pc = "ready" => \A n \in Name, limit \in 0 .. MaxFiles :
     LET visited == VisitExactCandidates(n, limit)
         all == ExactCandidates(n)
     IN  /\ visited \subseteq all
         /\ \A i \in visited, j \in all \ visited : i < j
         /\ visited # all => Cardinality(visited) = IF limit = 0 THEN 1 ELSE limit
         /\ all # {} => LookupFirstId(n) \in visited

\* The tables implement the catalogue of SkbCatalog: a query is answered with
\* exactly the files of that name whatever collides in the hash, the smallest
\* id comes first, and an index that was saved is accepted by load and answers
\* as before.
CatalogPhase ==
  [scan |-> "collect", fill |-> "building", ready |-> "serving",
   limit |-> "refused", refused |-> "refused"][pc]

CatalogAnswer ==
  [n \in Name |-> IF pc = "ready" THEN ExactCandidates(n) ELSE {}]

CatalogFirst ==
  [n \in Name |-> IF pc = "ready" THEN LookupFirstId(n) ELSE NoFile]

Catalog == INSTANCE SkbCatalog
             WITH phase <- CatalogPhase, files <- entries,
                  answer <- CatalogAnswer, first <- CatalogFirst

ImplementsCatalog == Catalog!Spec

\* The lookup table lists every entry once, by hash and then by id.
LookupInv ==
  pc \in {"fill", "ready"} =>
     /\ SortedByHashThenId(lookupIds)
     /\ \A p \in Positions : lookupHashes[p] = FilenameHash[EntryName(lookupIds[p])]
     /\ \A id \in Positions : \E p \in Positions : lookupIds[p] = id

\* Slot p splits the table: below it only smaller prefixes, from it on none.
Splits(p) ==
  \A i \in Positions :
     IF i < prefixStarts[p] THEN HashPrefix(lookupHashes[i]) < p
                            ELSE HashPrefix(lookupHashes[i]) >= p

\* The loop invariant of rebuild_prefix_table: the slots written so far split
\* the table, and no position behind the cursor belongs to a later slot.
PrefixInv ==
  /\ pc \in {"fill", "ready"} =>
        /\ \A p \in 0 .. nextPrefix - 1 : Splits(p)
        /\ \A i \in Positions : i < position => HashPrefix(lookupHashes[i]) < nextPrefix
  /\ pc = "ready" => nextPrefix = buckets + 1

\* What every step preserves, and what the theorems rest on.
IndexInv == TypeOK /\ LookupInv /\ PrefixInv /\ pc # "refused"

\* The loops of rebuild_prefix_table end: every rebuild reaches a serving index.
RebuildEnds == pc = "fill" ~> pc = "ready"

=============================================================================
