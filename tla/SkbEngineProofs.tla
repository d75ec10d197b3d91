-------------------------- MODULE SkbEngineProofs ---------------------------
(***************************************************************************)
(* Proofs about SkbEngine, for every set of names and indexes, every hash  *)
(* function, capacity and limit that satisfies the assumptions there.      *)
(***************************************************************************)
EXTENDS SkbEngine, TLAPS, FiniteSetTheorems, WellFoundedInduction

\* What LayersAgree needs of the cache: each entry is what rebuild_hot_cache
\* makes of a key, from the index and the usage state as they are now.
HotInv ==
  /\ files \in Seq(Name)
  /\ \A e \in hot : \E k \in Key : CandidatesIn(files, k) # {} /\ e = Entry(files, k, counts)

\* Names that filename_eq takes for equal have one key, and a key is its own:
\* so for every name without a capital sigma.
KeyFollowsFold ==
  /\ \A m, n \in Name : Fold[m] = Fold[n] => Norm[m] = Norm[n]
  /\ \A n \in Name : Norm[Norm[n]] = Norm[n]

-----------------------------------------------------------------------------
(* Lemmas.                                                                 *)

\* The first file of a name is one of its files, and no file of it comes before.
LEMMA LeastIsLeast ==
  ASSUME NEW S, S \subseteq Nat, S # {}
  PROVE  Least(S) \in S /\ \A y \in S : Least(S) <= y
<1>1. IsWellFoundedOn(OpToRel(<, Nat), Nat)
  BY NatLessThanWellFounded
<1>2. PICK x \in S : \A y \in S : ~ (<<y, x>> \in OpToRel(<, Nat))
  BY <1>1, WFMin
<1>3. \A y \in S : x <= y
  <2>1. \A y \in S : ~(y < x)
    BY <1>2 DEF OpToRel
  <2> QED
    BY <2>1
<1> QED
  BY <1>2, <1>3 DEF Least

\* rebuild_hot_cache caches only keys that have a file.
LEMMA RebuildEntries ==
  ASSUME NEW fs, NEW cnt, NEW last, NEW cap, RebuildHotCache(fs, cnt, last, cap)
  PROVE  \A e \in hot' : \E k \in Key : CandidatesIn(fs, k) # {} /\ e = Entry(fs, k, cnt)
<1>1. PICK rank \in Rankings(cnt, last) : hot' = {Entry(fs, k, cnt) : k \in Cached(fs, rank, cap)}
  BY DEF RebuildHotCache
<1>2. DOMAIN rank \subseteq Key
  BY DEF Rankings
<1>3. \A k \in Cached(fs, rank, cap) : k \in Key /\ CandidatesIn(fs, k) # {}
  BY <1>2 DEF Cached
<1> QED
  BY <1>1, <1>3

\* An entry that find accepts for a name was made for a key that folds like it.
LEMMA MatchIsOfTheName ==
  ASSUME HotInv, NEW n \in Name, NEW e \in HotMatches(n)
  PROVE  \E k \in Key : /\ Fold[k] = Fold[n]
                        /\ e.ids = ExactCandidates(n)
                        /\ e.count = counts[k]
<1>1. e \in hot /\ Fold[EntryName(Least(e.ids))] = Fold[n]
  BY DEF HotMatches
<1>2. PICK k \in Key : CandidatesIn(files, k) # {} /\ e = Entry(files, k, counts)
  BY <1>1 DEF HotInv
<1>3. e.ids = CandidatesIn(files, k) /\ e.count = counts[k]
  BY <1>2 DEF Entry
<1>4. CandidatesIn(files, k) \subseteq Nat
  BY DEF CandidatesIn, HotInv
<1>5. Least(e.ids) \in CandidatesIn(files, k)
  BY <1>2, <1>3, <1>4, LeastIsLeast
<1>6. Fold[EntryName(Least(e.ids))] = Fold[k]
  BY <1>5 DEF CandidatesIn, EntryName
<1>7. Fold[k] = Fold[n]
  BY <1>1, <1>6
<1>8. CandidatesIn(files, k) = ExactCandidates(n)
  BY <1>7 DEF CandidatesIn, ExactCandidates
<1> QED
  BY <1>3, <1>7, <1>8

LEMMA HotInvAgrees ==
  HotInv => LayersAgree
BY MatchIsOfTheName DEF LayersAgree

LEMMA HotInvFresh ==
  ASSUME KeyFollowsFold, HotInv
  PROVE  HotUsageFresh
<1> SUFFICES ASSUME NEW n \in Name, NEW e \in HotMatches(n)
             PROVE  e.count = counts[Norm[n]]
  BY DEF HotUsageFresh
<1>1. PICK k \in Key : Fold[k] = Fold[n] /\ e.count = counts[k]
  BY MatchIsOfTheName
<1>2. PICK m \in Name : k = Norm[m]
  BY DEF Key
<1>3. k \in Name /\ Norm[k] = k
  BY <1>2, NameAssumption DEF KeyFollowsFold
<1>4. Norm[k] = Norm[n]
  BY <1>1, <1>3 DEF KeyFollowsFold
<1> QED
  BY <1>1, <1>3, <1>4

-----------------------------------------------------------------------------
(* The cache.                                                              *)

LEMMA HotInvInit ==
  Init => HotInv
BY SizeAssumption DEF Init, HotInv

LEMMA HotInvStep ==
  ASSUME HotInv, [Next]_vars
  PROVE  HotInv'
<1>1. CASE UNCHANGED vars
  BY <1>1 DEF HotInv, vars, Entry, CandidatesIn
<1>2. ASSUME NEW n \in Name, LearnInMemory(n)
      PROVE  HotInv'
  BY <1>2, RebuildEntries DEF HotInv, LearnInMemory
<1>3. ASSUME NEW c \in Capacities, SetHotCapacity(c)
      PROVE  HotInv'
  BY <1>3, RebuildEntries DEF HotInv, SetHotCapacity
<1>4. ASSUME NEW n \in Name, NEW limit \in Limits, Find(n, limit)
      PROVE  HotInv'
  BY <1>4 DEF HotInv, Find, Entry, CandidatesIn
<1>5. ASSUME NEW n \in Name, NEW limit \in Limits, FindAndLearn(n, limit)
      PROVE  HotInv'
  BY <1>5, RebuildEntries DEF HotInv, FindAndLearn
<1>6. ASSUME NEW newFiles \in Indexes, Restart(newFiles)
      PROVE  HotInv'
  BY <1>6, RebuildEntries, SizeAssumption DEF HotInv, Restart
<1> QED
  BY <1>1, <1>2, <1>3, <1>4, <1>5, <1>6 DEF Next

\* HotCache::find never answers with other files than the index: for every
\* hash function, capacity and order of learning, resizing and restarting.
THEOREM LayersAlwaysAgree == Spec => []LayersAgree
<1>1. Spec => []HotInv
  BY HotInvInit, HotInvStep, PTL DEF Spec
<1> QED
  BY <1>1, HotInvAgrees, PTL

\* The access count a cached entry carries is that of the name asked for, as
\* long as the key of the usage state follows the comparison of names.
THEOREM HotUsageAlwaysFresh ==
  ASSUME KeyFollowsFold
  PROVE  Spec => []HotUsageFresh
<1>1. Spec => []HotInv
  BY HotInvInit, HotInvStep, PTL DEF Spec
<1>2. HotInv => HotUsageFresh
  BY HotInvFresh
<1> QED
  BY <1>1, <1>2, PTL

-----------------------------------------------------------------------------
(* Answers.                                                                *)

\* The route a lookup takes does not show in the ids it returns.
LEMMA FindRefsExact ==
  ASSUME HotInv, NEW n \in Name, NEW limit
  PROVE  FindRefs(n, limit) = Truncate(ExactCandidates(n), limit)
<1>1. CASE L0Hit(n)
  <2>1. HotFind(n) \in HotMatches(n)
    BY <1>1 DEF HotFind, L0Hit
  <2>2. HotFind(n).ids = ExactCandidates(n)
    BY <2>1, HotInvAgrees DEF LayersAgree
  <2> QED
    BY <1>1, <2>2 DEF FindRefs
<1>2. CASE ~L0Hit(n)
  BY <1>2 DEF FindRefs
<1> QED
  BY <1>1, <1>2

LEMMA UsageExact ==
  ASSUME KeyFollowsFold, HotInv, NEW n \in Name
  PROVE  Usage(n) = counts[Norm[n]]
<1>1. CASE L0Hit(n)
  <2>1. HotFind(n) \in HotMatches(n)
    BY <1>1 DEF HotFind, L0Hit
  <2> QED
    BY <1>1, <2>1, HotInvFresh DEF HotUsageFresh, Usage
<1>2. CASE ~L0Hit(n)
  BY <1>2 DEF Usage
<1> QED
  BY <1>1, <1>2

LEMMA ReplyStep ==
  ASSUME KeyFollowsFold, HotInv, ReplyIsCurrent, [Next]_vars
  PROVE  ReplyIsCurrent'
<1>1. CASE UNCHANGED vars
  BY <1>1 DEF vars, ReplyIsCurrent, Truncate, ExactCandidates, CandidatesIn
<1>2. ASSUME reply' = NoReply PROVE ReplyIsCurrent'
  BY <1>2 DEF NoReply, ReplyIsCurrent
<1>3. ASSUME NEW n \in Name, LearnInMemory(n) PROVE ReplyIsCurrent'
  BY <1>2, <1>3 DEF LearnInMemory
<1>4. ASSUME NEW c \in Capacities, SetHotCapacity(c) PROVE ReplyIsCurrent'
  BY <1>2, <1>4 DEF SetHotCapacity
<1>5. ASSUME NEW newFiles \in Indexes, Restart(newFiles) PROVE ReplyIsCurrent'
  BY <1>2, <1>5 DEF Restart
<1>6. ASSUME NEW n \in Name, NEW limit \in Limits, Find(n, limit) PROVE ReplyIsCurrent'
  <2>1. reply' = [kind |-> "hits", name |-> n, limit |-> limit,
                  ids |-> FindRefs(n, limit), count |-> Usage(n)]
    BY <1>6 DEF Find
  <2>2. counts' = counts /\ ExactCandidates(n)' = ExactCandidates(n)
    BY <1>6 DEF Find, ExactCandidates, CandidatesIn
  <2>3. FindRefs(n, limit) = Truncate(ExactCandidates(n), limit)
    BY FindRefsExact
  <2>4. Usage(n) = counts[Norm[n]]
    BY UsageExact
  <2> QED
    BY <2>1, <2>2, <2>3, <2>4 DEF ReplyIsCurrent, Truncate
<1>7. ASSUME NEW n \in Name, NEW limit \in Limits, FindAndLearn(n, limit) PROVE ReplyIsCurrent'
  <2>1. CASE reply' = [kind |-> "error"]
    BY <2>1 DEF ReplyIsCurrent
  <2>2. CASE reply' = [kind |-> "hits", name |-> n, limit |-> limit,
                       ids |-> FindRefs(n, limit), count |-> LearnedUsage(n)]
    <3>1. ExactCandidates(n)' = ExactCandidates(n)
      BY <1>7 DEF FindAndLearn, ExactCandidates, CandidatesIn
    <3>2. FindRefs(n, limit) = Truncate(ExactCandidates(n), limit)
      BY FindRefsExact
    <3> QED
      BY <2>2, <3>1, <3>2 DEF ReplyIsCurrent, LearnedUsage, Truncate
  <2> QED
    BY <1>7, <2>1, <2>2 DEF FindAndLearn
<1> QED
  BY <1>1, <1>3, <1>4, <1>5, <1>6, <1>7 DEF Next

\* Every answer lists the first ids of the name and its current usage, from
\* whichever layer it comes and whichever saves failed before.
THEOREM RepliesAlwaysCurrent ==
  ASSUME KeyFollowsFold
  PROVE  Spec => []ReplyIsCurrent
<1> DEFINE Inv == HotInv /\ ReplyIsCurrent
<1>1. Init => Inv
  BY HotInvInit DEF Init, NoReply, ReplyIsCurrent
<1>2. Inv /\ [Next]_vars => Inv'
  BY HotInvStep, ReplyStep
<1>3. Spec => []Inv
  BY <1>1, <1>2, PTL DEF Spec
<1> QED
  BY <1>3, PTL

-----------------------------------------------------------------------------
(* The cache as a function of the rest of the state.                      *)

\* The keys of state.records.
Used(cnt) == {k \in Key : cnt[k] > 0}

\* A usage state whose latest key, if it knows one, was used.
KnownLatest(cnt, last) ==
  /\ cnt \in Usages /\ last \in Key \union {NoKey}
  /\ last # NoKey => cnt[last] > 0

\* The entries are those of some order that sort_by may leave.
CacheOf(cache, fs, cnt, last, cap) ==
  \E rank \in Rankings(cnt, last) :
     cache = {Entry(fs, k, cnt) : k \in Cached(fs, rank, cap)}

\* What TypeOK, TopNameIsHot and HotNamesAgree need: whatever was called, the
\* cache is one that rebuild_hot_cache makes of the index, the usage state and
\* the capacity as they are now.
CacheInv ==
  /\ files \in Indexes
  /\ KnownLatest(counts, latest)
  /\ disk \in [counts : Usages, latest : Key \union {NoKey}]
  /\ KnownLatest(disk.counts, disk.latest)
  /\ capacity \in Nat /\ capacity > 0
  /\ CacheOf(hot, files, counts, latest, capacity)

\* A key is compared like the names it is the key of: so for every name without
\* a capital sigma.
KeyFoldsAlike == \A n \in Name : Fold[Norm[n]] = Fold[n]

\* The keys are names, finitely many, and none of them is "none".
LEMMA KeysAreFinite ==
  IsFiniteSet(Key) /\ Key \subseteq Name /\ NoKey \notin Key
<1> DEFINE f == [n \in Name |-> Norm[n]]
<1>1. f \in Surjection(Name, Key)
  BY DEF Surjection, Key
<1> QED
  BY <1>1, NameAssumption, FS_Surjection DEF Key

LEMMA NoStateIsKnown ==
  /\ NoState \in [counts : Usages, latest : Key \union {NoKey}]
  /\ KnownLatest(NoState.counts, NoState.latest)
BY SizeAssumption DEF NoState, Usages, KnownLatest

\* SearchEngine::new without a usage state caches nothing.
LEMMA CacheInvInit == Init => CacheInv
<1> SUFFICES ASSUME Init PROVE CacheInv
  OBVIOUS
<1> DEFINE zero == [k \in Key |-> 0]
           none == [k \in {} |-> 1]
<1>1. files \in Indexes /\ counts = zero /\ latest = NoKey /\ disk = NoState
      /\ capacity = DefaultCapacity /\ hot = {}
  BY DEF Init
<1>2. zero \in Usages
  BY SizeAssumption DEF Usages
<1>3. KnownLatest(zero, NoKey)
  BY <1>2 DEF KnownLatest
<1>4. {k \in Key : zero[k] > 0} = {}
  OBVIOUS
<1> HIDE DEF zero
<1>5. none \in Rankings(zero, NoKey)
  <2>1. none \in [{} -> 1 .. Cardinality({})]
    OBVIOUS
  <2> QED
    BY <1>4, <2>1 DEF Rankings
<1>6. Cached(files, none, capacity) = {}
  BY DEF Cached
<1>7. CacheOf(hot, files, counts, latest, capacity)
  BY <1>1, <1>5, <1>6 DEF CacheOf
<1> QED
  BY <1>1, <1>2, <1>3, <1>7, NoStateIsKnown, SizeAssumption DEF CacheInv

\* record_filename leaves a usage state that knows its latest key.
LEMMA RecordKnows ==
  ASSUME CacheInv, NEW n \in Name, RecordFilename(n)
  PROVE  KnownLatest(counts', latest')
<1>1. Norm[n] \in Key /\ NoKey \notin Key
  BY KeysAreFinite DEF Key
<1>2. counts \in [Key -> 0 .. MaxCount] /\ MaxCount \in Nat /\ MaxCount > 0
  BY SizeAssumption DEF CacheInv, KnownLatest, Usages
<1>3. Saturated(counts[Norm[n]]) \in 0 .. MaxCount /\ Saturated(counts[Norm[n]]) > 0
  BY <1>1, <1>2 DEF Saturated
<1>4. counts' = [counts EXCEPT ![Norm[n]] = Saturated(counts[Norm[n]])] /\ latest' \in {Norm[n], NoKey}
  BY DEF RecordFilename
<1>5. counts' \in [Key -> 0 .. MaxCount] /\ counts'[Norm[n]] > 0
  BY <1>1, <1>2, <1>3, <1>4
<1> QED
  BY <1>1, <1>4, <1>5 DEF KnownLatest, Usages

\* Every operation that changes the index, the usage or the capacity rebuilds the
\* cache, and the others change nothing it depends on.
LEMMA CacheInvStep ==
  ASSUME CacheInv, [Next]_vars
  PROVE  CacheInv'
<1> USE DEF CacheInv
<1>1. CASE UNCHANGED vars
  BY <1>1 DEF vars
<1>2. ASSUME NEW n \in Name, LearnInMemory(n)
      PROVE  CacheInv'
  <2>1. KnownLatest(counts', latest')
    BY <1>2, RecordKnows DEF LearnInMemory
  <2> QED
    BY <1>2, <2>1 DEF LearnInMemory, RebuildHotCache, CacheOf
<1>3. ASSUME NEW c \in Capacities, SetHotCapacity(c)
      PROVE  CacheInv'
  <2>1. capacity' \in Nat /\ capacity' > 0
    BY <1>3, SizeAssumption DEF SetHotCapacity
  <2>2. KnownLatest(counts, latest)' /\ files' = files /\ disk' = disk
    BY <1>3 DEF SetHotCapacity, KnownLatest
  <2>3. CacheOf(hot', files', counts', latest', capacity')
    BY <1>3 DEF SetHotCapacity, RebuildHotCache, CacheOf
  <2> QED
    BY <2>1, <2>2, <2>3
<1>4. ASSUME NEW n \in Name, NEW limit \in Limits, Find(n, limit)
      PROVE  CacheInv'
  BY <1>4 DEF Find
<1>5. ASSUME NEW n \in Name, NEW limit \in Limits, FindAndLearn(n, limit)
      PROVE  CacheInv'
  <2>1. KnownLatest(counts', latest')
    BY <1>5, RecordKnows DEF FindAndLearn
  <2>2. files' = files /\ capacity' = capacity
    BY <1>5 DEF FindAndLearn
  <2>3. CacheOf(hot', files', counts', latest', capacity')
    BY <1>5, <2>2 DEF FindAndLearn, RebuildHotCache, CacheOf
  <2>4. disk' \in {disk, NoState} \/ disk' = [counts |-> counts', latest |-> latest']
    BY <1>5 DEF FindAndLearn
  <2>5. disk' \in [counts : Usages, latest : Key \union {NoKey}] /\ KnownLatest(disk'.counts, disk'.latest)
    <3>1. CASE disk' \in {disk, NoState}
      BY <3>1, NoStateIsKnown
    <3>2. CASE disk' = [counts |-> counts', latest |-> latest']
      BY <2>1, <3>2 DEF KnownLatest
    <3> QED
      BY <2>4, <3>1, <3>2
  <2> QED
    BY <2>1, <2>2, <2>3, <2>5
<1>6. ASSUME NEW newFiles \in Indexes, Restart(newFiles)
      PROVE  CacheInv'
  <2>1. counts' = disk.counts /\ latest' = disk.latest /\ disk' = disk /\ files' = newFiles
        /\ capacity' = DefaultCapacity
    BY <1>6 DEF Restart
  <2>2. CacheOf(hot', files', counts', latest', capacity')
    BY <1>6, <2>1 DEF Restart, RebuildHotCache, CacheOf
  <2> QED
    BY <2>1, <2>2, SizeAssumption
<1> QED
  BY <1>1, <1>2, <1>3, <1>4, <1>5, <1>6 DEF Next

-----------------------------------------------------------------------------
(* Its bounds.                                                             *)

\* The ranks are those of the used keys, from 1, each once.
LEMMA RankingFacts ==
  ASSUME NEW cnt, NEW last, NEW rank \in Rankings(cnt, last)
  PROVE  /\ IsFiniteSet(Used(cnt)) /\ Cardinality(Used(cnt)) \in Nat
         /\ DOMAIN rank = Used(cnt) /\ Used(cnt) \subseteq Key
         /\ rank \in [Used(cnt) -> 1 .. Cardinality(Used(cnt))]
         /\ \A j, k \in Used(cnt) : j # k => rank[j] # rank[k]
         /\ \A i \in 1 .. Cardinality(Used(cnt)) : \E k \in Used(cnt) : rank[k] = i
<1> DEFINE U == Used(cnt)
           n == Cardinality(U)
           T == 1 .. n
<1>1. U \subseteq Key /\ IsFiniteSet(U)
  BY KeysAreFinite, FS_Subset DEF Used
<1>2. n \in Nat
  BY <1>1, FS_CardinalityType
<1>3. rank \in [U -> T] /\ \A j, k \in U : j # k => rank[j] # rank[k]
  BY DEF Rankings, Used
<1> HIDE DEF U
<1>4. IsFiniteSet(T) /\ Cardinality(T) = n
  BY <1>2, FS_Interval
<1> HIDE DEF T
<1>5. rank \in Injection(U, T)
  BY <1>3 DEF Injection, IsInjective
<1>6. rank \in Surjection(U, T)
  BY <1>4, <1>5, FS_Injection
<1>7. \A i \in T : \E k \in U : rank[k] = i
  BY <1>6 DEF Surjection
<1> QED
  BY <1>1, <1>2, <1>3, <1>7 DEF U, T

\* Of finitely many ranked keys one has the last rank.
LEMMA LastRanked ==
  ASSUME NEW G, G # {}, NEW n \in Nat, NEW rank, \A k \in G : rank[k] \in 1 .. n
  PROVE  \E k \in G : \A j \in G : rank[j] <= rank[k]
<1> DEFINE S == {n - rank[k] : k \in G}
<1>1. S \subseteq Nat /\ S # {}
  OBVIOUS
<1>2. PICK k \in G : n - rank[k] = Least(S)
  BY <1>1, LeastIsLeast
<1>3. \A j \in G : n - rank[k] <= n - rank[j]
  BY <1>1, <1>2, LeastIsLeast
<1>4. \A j \in G : rank[j] \in Nat /\ rank[k] \in Nat
  OBVIOUS
<1> QED
  BY <1>3, <1>4

\* An image is no larger.
LEMMA ImageBound ==
  ASSUME NEW S, IsFiniteSet(S), NEW f, NEW T, f \in [S -> T], \A y \in T : \E x \in S : y = f[x]
  PROVE  IsFiniteSet(T) /\ Cardinality(T) <= Cardinality(S)
<1>1. f \in Surjection(S, T)
  BY DEF Surjection
<1> QED
  BY <1>1, FS_Surjection

WithinBounds(C, cap) ==
  /\ IsFiniteSet(C) /\ Cardinality(C) <= cap
  /\ \A s : LET G == {k \in C : SetOf(FilenameHash[k], cap) = s}
            IN  IsFiniteSet(G) /\ Cardinality(G) <= HotWays

\* rebuild_hot_cache caches no more names than the capacity, and no more of one
\* set than it has ways.
LEMMA CachedBounds ==
  ASSUME NEW fs, NEW cnt, NEW last, NEW cap \in Nat, NEW rank \in Rankings(cnt, last)
  PROVE  WithinBounds(Cached(fs, rank, cap), cap)
<1> DEFINE C == Cached(fs, rank, cap)
           U == Used(cnt)
           n == Cardinality(U)
           T == 1 .. cap
           f == [k \in C |-> rank[k]]
           kept == {k \in DOMAIN rank : rank[k] <= cap /\ CandidatesIn(fs, k) # {}}
           ahead(k) == {j \in kept : rank[j] < rank[k]
                     /\ SetOf(FilenameHash[j], cap) = SetOf(FilenameHash[k], cap)}
<1>1. /\ IsFiniteSet(U) /\ n \in Nat /\ DOMAIN rank = U /\ rank \in [U -> 1 .. n]
      /\ \A j, k \in U : j # k => rank[j] # rank[k]
  BY RankingFacts
<1>2. C = {k \in kept : Cardinality(ahead(k)) < HotWays}
  BY DEF Cached
<1>3. kept \subseteq U /\ \A k \in kept : rank[k] \in T
  BY <1>1
<1>4. C \subseteq kept
  BY <1>2
<1> HIDE DEF C, U
<1>5. f \in Injection(C, T)
  BY <1>1, <1>3, <1>4 DEF Injection, IsInjective
<1>6. IsFiniteSet(T) /\ Cardinality(T) = cap
  BY FS_Interval
<1>7. IsFiniteSet(C) /\ Cardinality(C) <= cap
  <2> HIDE DEF T, f
  <2> QED
    BY <1>5, <1>6, FS_Injection
<1>8. ASSUME NEW s
      PROVE  LET G == {k \in C : SetOf(FilenameHash[k], cap) = s}
             IN  IsFiniteSet(G) /\ Cardinality(G) <= HotWays
  <2> DEFINE G == {k \in C : SetOf(FilenameHash[k], cap) = s}
  <2>1. G \subseteq C /\ IsFiniteSet(G)
    BY <1>7, FS_Subset
  <2>2. CASE G = {}
    <3>1. Cardinality(G) = 0
      BY <2>2, FS_EmptySet
    <3> HIDE DEF G
    <3> QED
      BY <2>1, <3>1, SizeAssumption DEF G
  <2>3. CASE G # {}
    <3>1. PICK k \in G : \A j \in G : rank[j] <= rank[k]
      <4>1. \A j \in G : rank[j] \in 1 .. n
        BY <2>1, <1>3, <1>4, <1>1
      <4> HIDE DEF G, n
      <4> QED
        BY <1>1, <2>3, <4>1, LastRanked
    <3>2. \A j \in G \ {k} : j \in ahead(k)
      <4> SUFFICES ASSUME NEW j \in G, j # k PROVE j \in ahead(k)
        OBVIOUS
      <4>1. j \in kept /\ j \in U /\ k \in U
        BY <2>1, <1>3, <1>4
      <4>2. rank[j] # rank[k] /\ rank[j] <= rank[k] /\ rank[j] \in Nat /\ rank[k] \in Nat
        BY <4>1, <3>1, <1>1
      <4> QED
        BY <4>1, <4>2
    <3>3. Cardinality(ahead(k)) < HotWays
      BY <1>2
    <3>4. ahead(k) \subseteq U
      BY <1>3
    <3> DEFINE A == ahead(k)
               H == G \ {k}
    <3>5. H \subseteq A /\ A \subseteq U /\ k \in G
      BY <3>2, <3>4
    <3>6. Cardinality(A) < HotWays
      BY <3>3
    <3>7. Cardinality(H) = Cardinality(G) - 1
      <4> HIDE DEF G
      <4> QED
        BY <2>1, <3>5, FS_RemoveElement
    <3> HIDE DEF A, H, G
    <3>8. IsFiniteSet(A)
      BY <3>5, <1>1, FS_Subset
    <3>9. Cardinality(H) <= Cardinality(A)
      BY <3>5, <3>8, FS_Subset
    <3>10. Cardinality(A) \in Nat /\ Cardinality(G) \in Nat
      BY <3>8, <2>1, FS_CardinalityType
    <3> QED
      BY <3>6, <3>7, <3>9, <3>10, <2>1, SizeAssumption DEF G
  <2> QED
    BY <2>2, <2>3
<1> QED
  BY <1>7, <1>8 DEF C, WithinBounds

\* The bounds of the cache hold for its entries as for the keys they are made of.
LEMMA CacheInvTypes == CacheInv => TypeOK
<1> SUFFICES ASSUME CacheInv PROVE TypeOK
  OBVIOUS
<1>1. PICK rank \in Rankings(counts, latest) :
         hot = {Entry(files, k, counts) : k \in Cached(files, rank, capacity)}
  BY DEF CacheInv, CacheOf
<1> DEFINE C == Cached(files, rank, capacity)
           f == [k \in C |-> Entry(files, k, counts)]
<1>2. /\ capacity \in Nat /\ capacity > 0 /\ files \in Indexes /\ counts \in Usages
      /\ latest \in Key \union {NoKey} /\ disk \in [counts : Usages, latest : Key \union {NoKey}]
  BY DEF CacheInv, KnownLatest
<1>3. /\ IsFiniteSet(C) /\ Cardinality(C) <= capacity
      /\ \A s : LET G == {k \in C : SetOf(FilenameHash[k], capacity) = s}
                IN  IsFiniteSet(G) /\ Cardinality(G) <= HotWays
  <2>1. WithinBounds(C, capacity)
    BY <1>2, CachedBounds
  <2> HIDE DEF C
  <2> QED
    BY <2>1 DEF WithinBounds
<1>4. C \subseteq Used(counts) /\ \A k \in C : CandidatesIn(files, k) # {}
  BY RankingFacts DEF Cached
<1>5. \A e \in hot : e.key \in Key /\ e.ids # {} /\ counts[e.key] > 0
  BY <1>1, <1>4 DEF Used, Entry
<1>6. hot = {f[k] : k \in C}
  BY <1>1
<1>7. Cardinality(hot) <= capacity /\ IsFiniteSet(hot)
  <2>1. f \in [C -> hot] /\ \A e \in hot : \E k \in C : e = f[k]
    BY <1>6
  <2>2. IsFiniteSet(hot) /\ Cardinality(hot) <= Cardinality(C)
    <3> HIDE DEF f, C
    <3> QED
      BY <2>1, <1>3, ImageBound
  <2>3. Cardinality(C) \in Nat /\ Cardinality(hot) \in Nat
    BY <1>3, <2>2, FS_CardinalityType
  <2> HIDE DEF C
  <2> QED
    BY <1>2, <1>3, <2>2, <2>3
<1>8. ASSUME NEW e \in hot
      PROVE  Cardinality({d \in hot : SetOf(d.hash, capacity) = SetOf(e.hash, capacity)}) <= HotWays
  <2> DEFINE s == SetOf(e.hash, capacity)
             D == {d \in hot : SetOf(d.hash, capacity) = s}
             G == {k \in C : SetOf(FilenameHash[k], capacity) = s}
             g == [k \in G |-> f[k]]
  <2>1. IsFiniteSet(G) /\ Cardinality(G) <= HotWays
    BY <1>3
  <2>2. \A k \in C : f[k].hash = FilenameHash[k]
    BY DEF Entry
  <2> HIDE DEF f, C, s
  <2>3. g \in [G -> D] /\ \A d \in D : \E k \in G : d = g[k]
    BY <2>2, <1>6
  <2> HIDE DEF G, D, g
  <2>4. IsFiniteSet(D) /\ Cardinality(D) <= Cardinality(G)
    BY <2>1, <2>3, ImageBound
  <2>5. Cardinality(D) \in Nat /\ Cardinality(G) \in Nat
    BY <2>1, <2>4, FS_CardinalityType
  <2>6. Cardinality(D) <= HotWays
    BY <2>1, <2>4, <2>5, SizeAssumption
  <2> QED
    BY <2>6 DEF D, s
<1> QED
  BY <1>2, <1>5, <1>7, <1>8 DEF TypeOK

\* So the cache is never left as an earlier state made it.
LEMMA CacheInvAlways == Spec => []CacheInv
BY CacheInvInit, CacheInvStep, PTL DEF Spec

\* The cache never holds more names than its capacity nor more of one set than it
\* has ways, and no name without a file or an access.
THEOREM EngineTypes == Spec => []TypeOK
BY CacheInvAlways, CacheInvTypes, PTL

\* The key that leads in count and time has the first rank in every order.
LEMMA TopRanksFirst ==
  ASSUME NEW cnt \in Usages, NEW last \in Key, NEW rank \in Rankings(cnt, last), cnt[last] > 0,
         \A k \in Key \ {last} : cnt[k] < cnt[last]
  PROVE  last \in DOMAIN rank /\ rank[last] = 1
<1> DEFINE U == Used(cnt)
           n == Cardinality(U)
<1>1. /\ IsFiniteSet(U) /\ n \in Nat /\ DOMAIN rank = U /\ U \subseteq Key
      /\ rank \in [U -> 1 .. n] /\ \A i \in 1 .. n : \E k \in U : rank[k] = i
  BY RankingFacts
<1>2. last \in U
  BY DEF Used
<1>3. \A k \in U : cnt[last] > cnt[k] => rank[last] < rank[k]
  BY <1>2 DEF Rankings, Used
<1>4. \A k \in U : cnt[k] \in Nat
  BY <1>1, SizeAssumption DEF Usages
<1> HIDE DEF U, n
<1>5. rank[last] \in 1 .. n
  BY <1>1, <1>2
<1>6. PICK k \in U : rank[k] = 1
  BY <1>1, <1>5
<1>7. k = last
  <2> SUFFICES ASSUME k # last PROVE FALSE
    OBVIOUS
  <2>1. cnt[k] < cnt[last]
    BY <1>1
  <2>2. rank[last] < rank[k]
    BY <2>1, <1>2, <1>3, <1>4
  <2> QED
    BY <2>2, <1>5, <1>6, <1>1
<1> QED
  BY <1>1, <1>2, <1>6, <1>7

\* It is within every capacity and first in its set.
LEMMA CacheInvTop ==
  ASSUME KeyFoldsAlike, CacheInv
  PROVE  TopNameIsHot
<1> SUFFICES ASSUME NEW n \in Name, Norm[n] = latest,
                    \A k \in Key \ {latest} : counts[k] < counts[latest],
                    ExactCandidates(n) # {}
             PROVE  HotMatches(n) # {}
  BY DEF TopNameIsHot, L0Hit
<1>1. latest \in Key /\ latest \in Name /\ counts[latest] > 0 /\ counts \in Usages
      /\ capacity \in Nat /\ capacity > 0
  BY KeysAreFinite DEF CacheInv, KnownLatest, Key
<1>2. PICK rank \in Rankings(counts, latest) :
         hot = {Entry(files, k, counts) : k \in Cached(files, rank, capacity)}
  BY DEF CacheInv, CacheOf
<1>3. latest \in DOMAIN rank /\ rank[latest] = 1
  BY <1>1, TopRanksFirst
<1>4. Fold[latest] = Fold[n]
  BY DEF KeyFoldsAlike
<1>5. CandidatesIn(files, latest) # {} /\ CandidatesIn(files, latest) = CandidatesIn(files, n)
  BY <1>4 DEF CandidatesIn, ExactCandidates
<1> DEFINE kept == {k \in DOMAIN rank : rank[k] <= capacity /\ CandidatesIn(files, k) # {}}
           ahead(k) == {j \in kept : rank[j] < rank[k]
                     /\ SetOf(FilenameHash[j], capacity) = SetOf(FilenameHash[k], capacity)}
<1>6. latest \in kept
  BY <1>1, <1>3, <1>5
<1>7. ahead(latest) = {}
  <2>1. \A j \in DOMAIN rank : rank[j] \in Nat /\ rank[j] >= 1
    BY RankingFacts
  <2> QED
    BY <2>1, <1>3
<1>8. Cardinality(ahead(latest)) < HotWays
  BY <1>7, FS_EmptySet, SizeAssumption
<1>9. latest \in Cached(files, rank, capacity)
  BY <1>6, <1>8 DEF Cached
<1> DEFINE e == Entry(files, latest, counts)
<1>10. e \in hot
  BY <1>2, <1>9
<1>11. e.hash = FilenameHash[latest] /\ e.ids = CandidatesIn(files, latest)
  BY DEF Entry
<1>12. FilenameHash[latest] = FilenameHash[n]
  BY <1>1, <1>4, NameAssumption
<1>13. Fold[EntryName(Least(e.ids))] = Fold[n]
  <2>1. Least(e.ids) \in CandidatesIn(files, latest)
    <3>1. files \in Seq(Name)
      BY SizeAssumption DEF CacheInv
    <3>2. CandidatesIn(files, latest) \subseteq Nat
      BY <3>1 DEF CandidatesIn
    <3> QED
      BY <3>2, <1>5, <1>11, LeastIsLeast
  <2> QED
    BY <2>1, <1>4 DEF CandidatesIn, EntryName
<1> QED
  BY <1>10, <1>11, <1>12, <1>13 DEF HotMatches

\* The name that leads in both count and time is answered by the hot cache as
\* soon as it has a file.
THEOREM TopNameAlwaysHot ==
  ASSUME KeyFoldsAlike
  PROVE  Spec => []TopNameIsHot
<1>1. CacheInv => TopNameIsHot
  BY CacheInvTop
<1> QED
  BY <1>1, CacheInvAlways, PTL

-----------------------------------------------------------------------------
(* hot_names.                                                              *)

\* What comes before each member of S in a strict order of all of S.
IsOrderOf(Before, S) ==
  /\ Before \in [S -> SUBSET S]
  /\ \A x \in S : x \notin Before[x]
  /\ \A x, y \in S : x = y \/ x \in Before[y] \/ y \in Before[x]
  /\ \A x, y \in S : y \in Before[x] => Before[y] \subseteq Before[x]

\* The members of a finite ordered set have the ranks 0 .. n - 1, each once.
LEMMA Ranking ==
  ASSUME NEW S, IsFiniteSet(S), NEW Before, IsOrderOf(Before, S)
  PROVE  LET rank == [x \in S |-> Cardinality(Before[x])]
         IN  rank \in Bijection(S, 0 .. Cardinality(S) - 1)
<1> DEFINE rank == [x \in S |-> Cardinality(Before[x])]
           n == Cardinality(S)
           T == 0 .. n - 1
<1>0. n \in Nat
  BY FS_CardinalityType
<1>1. ASSUME NEW x \in S
      PROVE  IsFiniteSet(Before[x]) /\ Cardinality(Before[x]) \in Nat /\ Cardinality(Before[x]) < n
  <2>0. Before[x] \subseteq S /\ x \notin Before[x]
    BY DEF IsOrderOf
  <2>1. IsFiniteSet(Before[x]) /\ Cardinality(Before[x]) <= n
    BY <2>0, FS_Subset
  <2>2. Cardinality(Before[x]) = n => Before[x] = S
    BY <2>0, FS_Subset
  <2>3. Cardinality(Before[x]) # n
    BY <2>2, <2>0
  <2>4. Cardinality(Before[x]) \in Nat
    BY <2>1, FS_CardinalityType
  <2> QED
    BY <2>1, <2>3, <2>4, <1>0
<1>2. ASSUME NEW x \in S, NEW y \in S, y \in Before[x]
      PROVE  Cardinality(Before[y]) < Cardinality(Before[x])
  <2>0. Before[y] \subseteq Before[x] /\ y \notin Before[y]
    BY <1>2 DEF IsOrderOf
  <2>1. /\ Cardinality(Before[y]) <= Cardinality(Before[x])
        /\ Cardinality(Before[y]) = Cardinality(Before[x]) => Before[y] = Before[x]
    BY <2>0, <1>1, FS_Subset
  <2> QED
    BY <2>0, <2>1, <1>1, <1>2
<1>3. rank \in [S -> T]
  <2> SUFFICES ASSUME NEW x \in S PROVE Cardinality(Before[x]) \in T
    OBVIOUS
  <2>1. Cardinality(Before[x]) \in Nat /\ Cardinality(Before[x]) < n
    BY <1>1
  <2> QED
    BY <2>1, <1>0
<1>4. ASSUME NEW x \in S, NEW y \in S, rank[x] = rank[y] PROVE x = y
  <2>1. Cardinality(Before[x]) = Cardinality(Before[y])
    BY <1>4
  <2>2. ~(x \in Before[y]) /\ ~(y \in Before[x])
    BY <2>1, <1>2, <1>1
  <2> QED
    BY <2>2 DEF IsOrderOf
<1>5. rank \in Injection(S, T)
  BY <1>3, <1>4 DEF Injection, IsInjective
<1>6. IsFiniteSet(T) /\ Cardinality(T) = n
  BY <1>0, FS_Interval
<1>7. rank \in Surjection(S, T)
  <2> HIDE DEF rank, T
  <2> QED
    BY <1>5, <1>6, FS_Injection
<1> QED
  BY <1>5, <1>7 DEF Bijection

\* The members of a finite ordered set that come first are as many as wanted,
\* or all.
LEMMA FirstPlaces ==
  ASSUME NEW S, IsFiniteSet(S), NEW Before, IsOrderOf(Before, S), NEW limit \in Nat
  PROVE  LET first == {x \in S : Cardinality(Before[x]) < limit}
         IN  /\ IsFiniteSet(first)
             /\ limit <= Cardinality(S) => Cardinality(first) = limit
             /\ limit >= Cardinality(S) => first = S
<1> DEFINE rank == [x \in S |-> Cardinality(Before[x])]
           n == Cardinality(S)
           first == {x \in S : Cardinality(Before[x]) < limit}
<1>0. n \in Nat
  BY FS_CardinalityType
<1>1. rank \in Bijection(S, 0 .. n - 1)
  BY Ranking
<1>2. first = {x \in S : rank[x] < limit}
  OBVIOUS
<1> HIDE DEF rank, n, first
<1>3. /\ \A x \in S : rank[x] \in 0 .. n - 1
      /\ \A x, y \in S : rank[x] = rank[y] => x = y
      /\ \A i \in 0 .. n - 1 : \E x \in S : rank[x] = i
  BY <1>1 DEF Bijection, Injection, Surjection, IsInjective
<1>4. first \subseteq S /\ IsFiniteSet(first)
  BY <1>2, FS_Subset
<1>5. ASSUME limit >= n PROVE first = S
  BY <1>0, <1>2, <1>3, <1>5
<1>6. ASSUME limit <= n PROVE Cardinality(first) = limit
  <2> DEFINE g == [x \in first |-> rank[x]]
             B == 0 .. limit - 1
  <2>1. \A x \in first : rank[x] \in B
    BY <1>0, <1>2, <1>3
  <2>2. g \in [first -> B]
    BY <2>1
  <2>3. \A x, y \in first : g[x] = g[y] => x = y
    BY <1>3, <1>4
  <2>4. \A i \in B : \E x \in first : g[x] = i
    <3> SUFFICES ASSUME NEW i \in B PROVE \E x \in first : g[x] = i
      OBVIOUS
    <3>1. i \in 0 .. n - 1 /\ i < limit
      BY <1>0, <1>6
    <3>2. PICK x \in S : rank[x] = i
      BY <3>1, <1>3
    <3> QED
      BY <3>1, <3>2, <1>2
  <2>5. Cardinality(B) = limit
    BY FS_Interval
  <2> HIDE DEF g, B
  <2>6. g \in Surjection(first, B) /\ g \in Injection(first, B)
    BY <2>2, <2>3, <2>4 DEF Surjection, Injection, IsInjective
  <2>7. Cardinality(B) = Cardinality(first)
    BY <2>6, <1>4, FS_Surjection
  <2> QED
    BY <2>5, <2>7
<1> QED
  BY <1>4, <1>5, <1>6 DEF first, n

\* Ranks order the keys that have a file.
Listed(rank) == {k \in DOMAIN rank : ExactCandidates(k) # {}}
RankedBefore(rank) == [k \in Listed(rank) |-> {j \in Listed(rank) : rank[j] < rank[k]}]

\* The place of a name in the list is the number of names before it, and one.
LEMMA RankedListed ==
  ASSUME NEW cnt, NEW last, NEW rank \in Rankings(cnt, last)
  PROVE  /\ IsFiniteSet(Listed(rank)) /\ Listed(rank) \subseteq Key
         /\ IsOrderOf(RankedBefore(rank), Listed(rank))
         /\ \A k \in Listed(rank) :
              /\ Cardinality(RankedBefore(rank)[k]) \in Nat
              /\ Cardinality({j \in Listed(rank) : rank[j] <= rank[k]})
                   = Cardinality(RankedBefore(rank)[k]) + 1
<1> DEFINE L == Listed(rank)
           Before == RankedBefore(rank)
           U == Used(cnt)
           n == Cardinality(U)
<1>1. /\ IsFiniteSet(U) /\ n \in Nat /\ DOMAIN rank = U /\ U \subseteq Key
      /\ rank \in [U -> 1 .. n] /\ \A j, k \in U : j # k => rank[j] # rank[k]
  BY RankingFacts
<1>2. L \subseteq U
  BY <1>1 DEF Listed
<1>3. IsFiniteSet(L) /\ L \subseteq Key
  BY <1>1, <1>2, FS_Subset
<1> HIDE DEF L, U
<1>4. \A k \in L : rank[k] \in Nat
  BY <1>1, <1>2
<1>5. \A j, k \in L : rank[j] = rank[k] => j = k
  BY <1>1, <1>2
<1>6. Before = [k \in L |-> {j \in L : rank[j] < rank[k]}]
  BY DEF RankedBefore, L
<1> HIDE DEF Before
<1>7. IsOrderOf(Before, L)
  <2>1. Before \in [L -> SUBSET L] /\ \A k \in L : k \notin Before[k]
    BY <1>4, <1>6
  <2>2. \A x, y \in L : x = y \/ x \in Before[y] \/ y \in Before[x]
    <3> SUFFICES ASSUME NEW x \in L, NEW y \in L, x # y PROVE x \in Before[y] \/ y \in Before[x]
      OBVIOUS
    <3>1. rank[x] \in Nat /\ rank[y] \in Nat /\ rank[x] # rank[y]
      BY <1>4, <1>5
    <3> QED
      BY <3>1, <1>6
  <2>3. ASSUME NEW x \in L, NEW y \in Before[x] PROVE Before[y] \subseteq Before[x]
    <3>1. y \in L /\ rank[y] < rank[x] /\ rank[y] \in Nat /\ rank[x] \in Nat
      BY <1>4, <1>6
    <3>2. \A z \in L : rank[z] < rank[y] => rank[z] < rank[x]
      BY <3>1, <1>4
    <3> QED
      BY <3>1, <3>2, <1>6
  <2> QED
    BY <2>1, <2>2, <2>3 DEF IsOrderOf
<1>8. ASSUME NEW k \in L
      PROVE  /\ Cardinality(Before[k]) \in Nat
             /\ Cardinality({j \in L : rank[j] <= rank[k]}) = Cardinality(Before[k]) + 1
  <2> DEFINE B == Before[k]
             D == {j \in L : rank[j] <= rank[k]}
  <2>1. B \subseteq L /\ k \notin B
    BY <1>4, <1>6
  <2>2. D = B \union {k}
    <3>1. \A j \in L : rank[j] <= rank[k] <=> (rank[j] < rank[k] \/ j = k)
      BY <1>4, <1>5
    <3> QED
      BY <3>1, <1>6
  <2> HIDE DEF B, D
  <2>3. IsFiniteSet(B)
    BY <2>1, <1>3, FS_Subset
  <2>4. Cardinality(D) = Cardinality(B) + 1
    BY <2>1, <2>2, <2>3, FS_AddElement
  <2> QED
    BY <2>3, <2>4, FS_CardinalityType DEF B, D
<1> QED
  BY <1>3, <1>7, <1>8 DEF L, Before

\* hot_names fills its list up to the limit.
LEMMA ListFilled ==
  ASSUME NEW rank \in Rankings(counts, latest), NEW limit \in Nat
  PROVE  LET listed == Listed(rank)
         IN  /\ limit <= Cardinality(listed) => Cardinality(HotNames(rank, limit)) = limit
             /\ limit >= Cardinality(listed) =>
                  /\ HotNames(rank, limit) = {HotName(k) : k \in listed}
                  /\ Cardinality(HotNames(rank, limit)) = Cardinality(listed)
<1> DEFINE L == Listed(rank)
           Before == RankedBefore(rank)
           first == {k \in L : Cardinality(Before[k]) < limit}
           place(k) == Cardinality({j \in L : rank[j] <= rank[k]})
           names == HotNames(rank, limit)
           g == [k \in first |-> HotName(k)]
<1>1. /\ IsFiniteSet(L) /\ IsOrderOf(Before, L)
      /\ \A k \in L : Cardinality(Before[k]) \in Nat /\ place(k) = Cardinality(Before[k]) + 1
  BY RankedListed
<1>2. first = {k \in L : place(k) <= limit}
  <2> SUFFICES ASSUME NEW k \in L PROVE Cardinality(Before[k]) < limit <=> place(k) <= limit
    OBVIOUS
  <2>1. Cardinality(Before[k]) \in Nat /\ place(k) = Cardinality(Before[k]) + 1
    BY <1>1
  <2> HIDE DEF place, Before
  <2> QED
    BY <2>1
<1>3. names = {HotName(k) : k \in first}
  BY <1>2 DEF HotNames, Listed
<1>4. /\ IsFiniteSet(first)
      /\ limit <= Cardinality(L) => Cardinality(first) = limit
      /\ limit >= Cardinality(L) => first = L
  <2> HIDE DEF L, Before
  <2> QED
    BY <1>1, FirstPlaces
<1>5. \A j, k \in first : g[j] = g[k] => j = k
  BY DEF HotName
<1>6. g \in [first -> names] /\ \A x \in names : \E k \in first : g[k] = x
  BY <1>3
<1> HIDE DEF g, first, names, L
<1>7. g \in Surjection(first, names) /\ g \in Injection(first, names)
  BY <1>5, <1>6 DEF Surjection, Injection, IsInjective
<1>8. Cardinality(names) = Cardinality(first)
  BY <1>4, <1>7, FS_Surjection
<1> QED
  BY <1>3, <1>4, <1>8 DEF names, L

\* The names of the cache are used and have a file, so the list holds them.
LEMMA CacheInvNames == CacheInv => HotNamesAgree
<1> SUFFICES ASSUME CacheInv, NEW rank \in Rankings(counts, latest)
             PROVE  /\ \A limit \in 0 .. Cardinality(Key) :
                         LET learned == {k \in Key : counts[k] > 0 /\ ExactCandidates(k) # {}}
                         IN  Cardinality(HotNames(rank, limit)) = Least({limit, Cardinality(learned)})
                    /\ \A e \in hot :
                         [key |-> e.key, count |-> e.count, paths |-> Cardinality(e.ids)]
                            \in HotNames(rank, Cardinality(Key))
  BY DEF HotNamesAgree
<1> DEFINE L == Listed(rank)
           learned == {k \in Key : counts[k] > 0 /\ ExactCandidates(k) # {}}
<1>1. DOMAIN rank = Used(counts)
  BY RankingFacts
<1>2. learned = L
  BY <1>1 DEF Listed, Used
<1>3. L \subseteq Key /\ IsFiniteSet(L)
  BY RankedListed
<1>4. IsFiniteSet(Key)
  BY KeysAreFinite
<1> HIDE DEF L, learned
<1>5. Cardinality(L) \in Nat /\ Cardinality(Key) \in Nat /\ Cardinality(L) <= Cardinality(Key)
  BY <1>3, <1>4, FS_Subset, FS_CardinalityType
<1>6. ASSUME NEW limit \in 0 .. Cardinality(Key)
      PROVE  Cardinality(HotNames(rank, limit)) = Least({limit, Cardinality(L)})
  <2> DEFINE n == Cardinality(L)
             names == HotNames(rank, limit)
  <2>1. limit \in Nat /\ n \in Nat
    BY <1>5
  <2>2. /\ limit <= n => Cardinality(names) = limit
        /\ limit >= n => Cardinality(names) = n
    BY <2>1, ListFilled DEF L
  <2> HIDE DEF n, names
  <2>3. Least({limit, n}) \in {limit, n} /\ \A y \in {limit, n} : Least({limit, n}) <= y
    BY <2>1, LeastIsLeast
  <2>4. Cardinality(names) = Least({limit, n})
    BY <2>1, <2>2, <2>3
  <2> QED
    BY <2>4 DEF n, names
<1>7. ASSUME NEW e \in hot
      PROVE  [key |-> e.key, count |-> e.count, paths |-> Cardinality(e.ids)]
               \in HotNames(rank, Cardinality(Key))
  <2>1. HotNames(rank, Cardinality(Key)) = {HotName(k) : k \in L}
    BY <1>5, ListFilled DEF L
  <2>2. PICK r \in Rankings(counts, latest) :
          hot = {Entry(files, k, counts) : k \in Cached(files, r, capacity)}
    BY DEF CacheInv, CacheOf
  <2>3. PICK k \in Cached(files, r, capacity) : e = Entry(files, k, counts)
    BY <2>2
  <2>4. k \in Used(counts) /\ CandidatesIn(files, k) # {}
    BY <2>3, RankingFacts DEF Cached
  <2>5. k \in L
    BY <2>4, <1>1 DEF L, Listed, ExactCandidates
  <2>6. HotName(k) = [key |-> e.key, count |-> e.count, paths |-> Cardinality(e.ids)]
    BY <2>3 DEF HotName, Entry, ExactCandidates
  <2> QED
    BY <2>1, <2>5, <2>6
<1>8. \A limit \in 0 .. Cardinality(Key) :
         Cardinality(HotNames(rank, limit)) = Least({limit, Cardinality(learned)})
  BY <1>2, <1>6
<1> QED
  BY <1>7, <1>8 DEF learned

\* hot_names and the cache agree, whichever way either breaks its ties.
THEOREM HotNamesAlwaysAgree == Spec => []HotNamesAgree
BY CacheInvAlways, CacheInvNames, PTL

=============================================================================
