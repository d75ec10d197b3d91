----------------------------- MODULE SkbEngine ------------------------------
(***************************************************************************)
(* SearchEngine: the compact index (L1), the four-way hot cache (L0), the  *)
(* usage state that ranks it and the copy of that state on disk.  A lookup *)
(* tries L0, then L1; a learning find records the name, rebuilds the cache *)
(* and saves.                                                              *)
(*                                                                         *)
(* The weight of a name grows with its count and with the time of its last *)
(* access.  Only the comparison that surely follows is kept: a name with a *)
(* larger count that was also used last ranks above the other; every other *)
(* order, ties in the iteration order of the HashMap included, may happen. *)
(***************************************************************************)
EXTENDS Integers, Sequences, FiniteSets

CONSTANTS
  Name,          \* spellings that are indexed or asked for, keys included
  Fold,          \* character-wise lower case; filename_eq compares it
  Norm,          \* normalize_filename: the key of the usage state
  FilenameHash,  \* filename_hash
  Indexes,       \* the file lists a scan may have left: sequences of names
  HotWays,       \* HOT_WAYS
  Capacities,    \* values set_hot_capacity is called with
  DefaultCapacity,
  Limits,        \* the limits find is called with
  MaxCount       \* u64::MAX, where access_count saturates

Key == {Norm[n] : n \in Name}
NoKey == "none"
NoReply == [kind |-> "none"]

ASSUME NameAssumption ==
  /\ IsFiniteSet(Name) /\ NoKey \notin Name
  /\ \A n \in Name : Norm[n] \in Name /\ FilenameHash[n] \in Nat
  /\ \A m, n \in Name : Fold[m] = Fold[n] => FilenameHash[m] = FilenameHash[n]

ASSUME SizeAssumption ==
  /\ HotWays \in Nat /\ HotWays > 0
  /\ DefaultCapacity \in Nat /\ DefaultCapacity > 0
  /\ Capacities \subseteq Nat /\ Limits \subseteq Nat
  /\ MaxCount \in Nat /\ MaxCount > 0
  /\ Indexes \subseteq Seq(Name)

VARIABLES
  files,     \* the index: file id i has the name files[i + 1]
  counts,    \* state.records: the access count of every key
  latest,    \* the key with the largest last_access_ms, if one is known
  capacity,  \* hot_capacity
  hot,       \* the entries of the hot cache
  disk,      \* what state.json holds: counts and latest
  reply      \* what the last find returned

vars == <<files, counts, latest, capacity, hot, disk, reply>>

-----------------------------------------------------------------------------
(* L1, as SkbIndex establishes it: all ids whose name folds alike.         *)

EntryName(id) == files[id + 1]
CandidatesIn(fs, n) == {id \in 0 .. Len(fs) - 1 : Fold[fs[id + 1]] = Fold[n]}
ExactCandidates(n) == CandidatesIn(files, n)

Least(S) == CHOOSE x \in S : \A y \in S : x <= y

\* The first ids of an ascending list, truncated to limit.max(1).
Truncate(ids, limit) ==
  LET bound == IF limit = 0 THEN 1 ELSE limit
  IN  {id \in ids : Cardinality({j \in ids : j < id}) < bound}

-----------------------------------------------------------------------------
(* L0.                                                                     *)

\* HotCache::new: enough sets for the capacity, rounded up to a power of two.
SetCount(cap) ==
  LET wanted == ((IF cap < HotWays THEN HotWays ELSE cap) + HotWays - 1) \div HotWays
  IN  CHOOSE s \in {2 ^ i : i \in 0 .. wanted} : s >= wanted /\ (s = 1 \/ s \div 2 < wanted)

\* set_base: a set that the hash alone selects (the code folds the hash to its
\* low bits first).
SetOf(hash, cap) == hash % SetCount(cap)

\* The orders sort_by may leave, as ranks from 1: a key ranks above every one
\* used less often if it was itself used last.
Rankings(cnt, last) ==
  LET used == {k \in Key : cnt[k] > 0}
  IN  {r \in [used -> 1 .. Cardinality(used)] :
         /\ \A j, k \in used : j # k => r[j] # r[k]
         /\ last \in used => \A k \in used : cnt[last] > cnt[k] => r[last] < r[k]}

\* Mutant of Cached: truncates the wrong end.
CachedWorstFirst(fs, rank, cap) ==
  LET kept == {k \in DOMAIN rank :
                 /\ rank[k] > Cardinality(DOMAIN rank) - cap
                 /\ CandidatesIn(fs, k) # {}}
      ahead(k) == {j \in kept : rank[j] < rank[k]
                     /\ SetOf(FilenameHash[j], cap) = SetOf(FilenameHash[k], cap)}
  IN  {k \in kept : Cardinality(ahead(k)) < HotWays}

\* Mutant of Cached: overfills a set.
CachedOneMoreWay(fs, rank, cap) ==
  LET kept == {k \in DOMAIN rank : rank[k] <= cap /\ CandidatesIn(fs, k) # {}}
      ahead(k) == {j \in kept : rank[j] < rank[k]
                     /\ SetOf(FilenameHash[j], cap) = SetOf(FilenameHash[k], cap)}
  IN  {k \in kept : Cardinality(ahead(k)) <= HotWays}

\* rebuild_hot_cache: rank, truncate to the capacity, drop the names the index
\* does not hold, and insert in order; insert_ranked refuses a full set.
Cached(fs, rank, cap) ==
  LET kept == {k \in DOMAIN rank : rank[k] <= cap /\ CandidatesIn(fs, k) # {}}
      ahead(k) == {j \in kept : rank[j] < rank[k]
                     /\ SetOf(FilenameHash[j], cap) = SetOf(FilenameHash[k], cap)}
  IN  {k \in kept : Cardinality(ahead(k)) < HotWays}

Entry(fs, k, cnt) ==
  [key |-> k, hash |-> FilenameHash[k], ids |-> CandidatesIn(fs, k), count |-> cnt[k]]

RebuildHotCache(fs, cnt, last, cap) ==
  hot' \in {{Entry(fs, k, cnt) : k \in Cached(fs, rank, cap)} :
              rank \in Rankings(cnt, last)}

\* Mutant of HotMatches: trusts the hash.
HotMatchesByHash(n) ==
  {e \in hot : e.hash = FilenameHash[n]}

\* HotCache::find: the hash selects a set and must be equal, and the name of
\* the entry's first file must be the one asked for.
HotMatches(n) ==
  {e \in hot : /\ e.hash = FilenameHash[n]
               /\ Fold[EntryName(Least(e.ids))] = Fold[n]}

L0Hit(n) == HotMatches(n) # {}
HotFind(n) == CHOOSE e \in HotMatches(n) : TRUE

\* find_first_ref and find_refs_reuse: L0 first, then L1.
FindRefs(n, limit) ==
  Truncate(IF L0Hit(n) THEN HotFind(n).ids ELSE ExactCandidates(n), limit)

HotName(k) == [key |-> k, count |-> counts[k], paths |-> Cardinality(ExactCandidates(k))]

\* Mutant of HotNames: truncates before it drops the names without files.
HotNamesTruncatedFirst(rank, limit) ==
  {HotName(k) : k \in {j \in DOMAIN rank : rank[j] <= limit /\ ExactCandidates(j) # {}}}

\* hot_names: the best names that have files.  It ranks the usage state itself
\* and drops names before it truncates, where rebuild_hot_cache does so after.
HotNames(rank, limit) ==
  LET listed == {k \in DOMAIN rank : ExactCandidates(k) # {}}
      place(k) == Cardinality({j \in listed : rank[j] <= rank[k]})
  IN  {HotName(k) : k \in {j \in listed : place(j) <= limit}}

-----------------------------------------------------------------------------
Saturated(c) == IF c < MaxCount THEN c + 1 ELSE MaxCount

\* record_filename.  The clock may have been set back, and then no key is known
\* to have the latest access.
RecordFilename(n) ==
  /\ counts' = [counts EXCEPT ![Norm[n]] = Saturated(@)]
  /\ latest' \in {Norm[n], NoKey}

\* What a process loads when there is no state.json.
NoState == [counts |-> [k \in Key |-> 0], latest |-> NoKey]

Init ==
  /\ files \in Indexes
  /\ counts = [k \in Key |-> 0]
  /\ latest = NoKey
  /\ capacity = DefaultCapacity
  /\ hot = {}
  /\ disk = NoState
  /\ reply = NoReply

\* Mutant of LearnInMemory: leaves the cache as it was.
LearnWithoutRebuild(n) ==
  /\ RecordFilename(n)
  /\ reply' = NoReply
  /\ UNCHANGED <<files, capacity, hot, disk>>

LearnInMemory(n) ==
  /\ RecordFilename(n)
  /\ RebuildHotCache(files, counts', latest', capacity)
  /\ reply' = NoReply
  /\ UNCHANGED <<files, capacity, disk>>

SetHotCapacity(c) ==
  /\ capacity' = IF c = 0 THEN 1 ELSE c
  /\ RebuildHotCache(files, counts, latest, capacity')
  /\ reply' = NoReply
  /\ UNCHANGED <<files, counts, latest, disk>>

\* find_lazy_inner without learning (or with nothing found): an answer only.
\* The usage comes from the cached entry on a hit, from the state on a miss.
Usage(n) == IF L0Hit(n) THEN HotFind(n).count ELSE counts[Norm[n]]

Find(n, limit) ==
  /\ reply' = [kind |-> "hits", name |-> n, limit |-> limit,
               ids |-> FindRefs(n, limit), count |-> Usage(n)]
  /\ UNCHANGED <<files, counts, latest, capacity, hot, disk>>

\* Mutant of LearnedUsage: answers with the usage before learning.
LearnedUsageFromCache(n) == Usage(n)
LearnedUsage(n) == counts'[Norm[n]]

\* find_lazy_inner with learning: the ids are fixed before the cache is
\* rebuilt, the usage is the record just written, and the save of the whole
\* state may fail when everything in memory is done, before or after the fallback
\* of UsageState::save has removed the file that the rename could not replace.
FindAndLearn(n, limit) ==
  /\ ExactCandidates(n) # {}
  /\ RecordFilename(n)
  /\ RebuildHotCache(files, counts', latest', capacity)
  /\ \/ /\ disk' = [counts |-> counts', latest |-> latest']
        /\ reply' = [kind |-> "hits", name |-> n, limit |-> limit,
                     ids |-> FindRefs(n, limit), count |-> LearnedUsage(n)]
     \/ /\ disk' \in {disk, NoState}
        /\ reply' = [kind |-> "error"]
  /\ UNCHANGED <<files, capacity>>

\* A new process: SearchEngine::new over whatever index the last scan left and
\* the usage state on disk.
Restart(newFiles) ==
  /\ files' = newFiles
  /\ counts' = disk.counts
  /\ latest' = disk.latest
  /\ capacity' = DefaultCapacity
  /\ RebuildHotCache(newFiles, counts', latest', DefaultCapacity)
  /\ reply' = NoReply
  /\ UNCHANGED disk

Next ==
  \/ \E n \in Name : LearnInMemory(n)
  \/ \E c \in Capacities : SetHotCapacity(c)
  \/ \E n \in Name, limit \in Limits : Find(n, limit)
  \/ \E n \in Name, limit \in Limits : FindAndLearn(n, limit)
  \/ \E newFiles \in Indexes : Restart(newFiles)

Spec == Init /\ [][Next]_vars

-----------------------------------------------------------------------------
(* Properties.                                                             *)

Usages == [Key -> 0 .. MaxCount]

\* Types, and the bounds of the cache: no more entries than the capacity, no
\* set fuller than its ways, and no entry without a file.
TypeOK ==
  /\ files \in Indexes /\ counts \in Usages /\ latest \in Key \union {NoKey}
  /\ disk \in [counts : Usages, latest : Key \union {NoKey}]
  /\ capacity > 0
  /\ \A e \in hot : e.key \in Key /\ e.ids # {} /\ counts[e.key] > 0
  /\ Cardinality(hot) <= capacity
  /\ \A e \in hot :
        Cardinality({d \in hot : SetOf(d.hash, capacity) = SetOf(e.hash, capacity)}) <= HotWays

\* L0 never answers otherwise than L1: whatever was learned, evicted, ranked or
\* collides in the hash, a hit carries exactly the ids the index holds for the
\* name, so the route a lookup takes cannot be told from its files.
LayersAgree ==
  \A n \in Name : \A e \in HotMatches(n) : e.ids = ExactCandidates(n)

\* The usage copied into a cached entry is never stale: it equals the usage
\* state of the name asked for, after any sequence of learning and resizing.
HotUsageFresh ==
  \A n \in Name : \A e \in HotMatches(n) : e.count = counts[Norm[n]]

\* A name that was learned last and more often than every other, and that has
\* a file, is answered from L0: no capacity, set overflow, hash collision or
\* record of a deleted file may push it out.
TopNameIsHot ==
  \A n \in Name :
     (/\ Norm[n] = latest
      /\ \A k \in Key \ {latest} : counts[k] < counts[latest]
      /\ ExactCandidates(n) # {})
     => L0Hit(n)

\* hot_names and the cache, two rankings of one state that are truncated at
\* different points, agree: however names without files are ranked among the
\* others, a list is filled up to its limit, and a long one shows every name of
\* the cache, with the usage and the number of files the cache has for it.
HotNamesAgree ==
  \A rank \in Rankings(counts, latest) :
     /\ \A limit \in 0 .. Cardinality(Key) :
          LET learned == {k \in Key : counts[k] > 0 /\ ExactCandidates(k) # {}}
          IN  Cardinality(HotNames(rank, limit)) = Least({limit, Cardinality(learned)})
     /\ \A e \in hot :
          [key |-> e.key, count |-> e.count, paths |-> Cardinality(e.ids)]
             \in HotNames(rank, Cardinality(Key))

\* An answer lists the first ids of the name, as many as its limit, and the
\* usage it reports is the current one, its own access included.
ReplyIsCurrent ==
  reply.kind = "hits" =>
     /\ reply.ids = Truncate(ExactCandidates(reply.name), reply.limit)
     /\ reply.count = counts[Norm[reply.name]]

=============================================================================
