--------------------------- MODULE SkbIndexProofs ---------------------------
(***************************************************************************)
(* Proofs about SkbIndex, for every set of names, every hash function and  *)
(* every choice of sizes that satisfies the two assumptions there.         *)
(***************************************************************************)
EXTENDS SkbIndex, TLAPS, FiniteSetTheorems, FunctionTheorems,
        WellFoundedInduction

-----------------------------------------------------------------------------
(* Naturals and hash prefixes.                                             *)

\* A nonempty set of naturals has a least element: what the operator Least
\* of SkbIndex (the first position a search stops at) returns.
LEMMA LeastIsLeast ==
  ASSUME NEW S, S \subseteq Nat, S # {}
  PROVE  Least(S) \in S /\ \A y \in S : Least(S) <= y
<1>1. IsWellFoundedOn(OpToRel(<, Nat), Nat)
  BY NatLessThanWellFounded
<1>2. PICK x \in S : \A y \in S : ~ (<<y, x>> \in OpToRel(<, Nat))
  BY <1>1, WFMin
<1>3. \A y \in S : ~(y < x)
  BY <1>2 DEF OpToRel
<1>4. \A y \in S : x <= y
  BY <1>3
<1> QED
  BY <1>4 DEF Least

\* hash_prefix of a hash is a bucket of the directory, and grows with the hash.
LEMMA HashPrefixInRange ==
  ASSUME buckets \in BucketCounts, NEW h \in Hash
  PROVE  HashPrefix(h) \in 0 .. buckets - 1
<1> DEFINE w == HashSpace \div buckets
<1>1. buckets \in Nat /\ buckets > 0 /\ HashSpace \in Nat /\ HashSpace > 0 /\ HashSpace % buckets = 0
  BY SizeAssumption
<1>2. w \in Nat /\ HashSpace = buckets * w
  BY <1>1
<1>3. w > 0
  BY <1>1, <1>2
<1>4. h \in 0 .. (buckets * w) - 1
  BY <1>2 DEF Hash
<1>5. h \div w \in 0 .. buckets - 1
  <2> HIDE DEF w
  <2> QED BY <1>1, <1>2, <1>3, <1>4
<1> QED
  BY <1>5 DEF HashPrefix

LEMMA HashPrefixMonotone ==
  ASSUME buckets \in BucketCounts, NEW h \in Hash, NEW k \in Hash, h <= k
  PROVE  HashPrefix(h) <= HashPrefix(k)
<1> DEFINE w == HashSpace \div buckets
<1>1. buckets \in Nat /\ buckets > 0 /\ HashSpace \in Nat /\ HashSpace > 0 /\ HashSpace % buckets = 0
  BY SizeAssumption
<1>2. w \in Nat /\ HashSpace = buckets * w
  BY <1>1
<1>3. w > 0
  BY <1>1, <1>2
<1>4. h \in Nat /\ k \in Nat
  BY <1>1 DEF Hash
<1>5. h \div w <= k \div w
  <2> HIDE DEF w
  <2> QED BY <1>2, <1>3, <1>4
<1> QED
  BY <1>5 DEF HashPrefix

\* A table sorted by hash then id is sorted by hash.
LEMMA HashesAscend ==
  ASSUME TypeOK, LookupInv, pc \in {"fill", "ready"},
         NEW i \in Positions, NEW j \in Positions, i <= j
  PROVE  /\ lookupHashes[i] \in Hash /\ lookupHashes[j] \in Hash
         /\ lookupHashes[i] <= lookupHashes[j]
<1>1. lookupHashes[i] \in Hash /\ lookupHashes[j] \in Hash
  BY DEF TypeOK
<1>2. CASE i = j
  BY <1>1, <1>2, SizeAssumption DEF Hash
<1>3. CASE i < j
  BY <1>1, <1>3, SizeAssumption DEF Hash, LookupInv, SortedByHashThenId
<1> QED
  BY <1>1, <1>2, <1>3 DEF Positions, Count

\* What comes before each member of S in a strict order of all of S.
IsOrderOf(Before, S) ==
  /\ Before \in [S -> SUBSET S]
  /\ \A x \in S : x \notin Before[x]
  /\ \A x, y \in S : x = y \/ x \in Before[y] \/ y \in Before[x]
  /\ \A x, y \in S : y \in Before[x] => Before[y] \subseteq Before[x]

\* The members of a finite ordered set have the ranks 0 .. n - 1, each once.
LEMMA Ranking ==
  ASSUME NEW S, IsFiniteSet(S), NEW Before, IsOrderOf(Before, S)
  PROVE  LET rank == [x \in S |-> Cardinality(Before[x])]
         IN  rank \in Bijection(S, 0 .. Cardinality(S) - 1)
<1> DEFINE rank == [x \in S |-> Cardinality(Before[x])]
           n == Cardinality(S)
           T == 0 .. n - 1
<1>0. n \in Nat
  BY FS_CardinalityType
<1>1. ASSUME NEW x \in S
      PROVE  IsFiniteSet(Before[x]) /\ Cardinality(Before[x]) \in Nat /\ Cardinality(Before[x]) < n
  <2>0. Before[x] \subseteq S /\ x \notin Before[x]
    BY DEF IsOrderOf
  <2>1. IsFiniteSet(Before[x]) /\ Cardinality(Before[x]) <= n
    BY <2>0, FS_Subset
  <2>2. Cardinality(Before[x]) = n => Before[x] = S
    BY <2>0, FS_Subset
  <2>3. Cardinality(Before[x]) # n
    BY <2>2, <2>0
  <2>4. Cardinality(Before[x]) \in Nat
    BY <2>1, FS_CardinalityType
  <2> QED
    BY <2>1, <2>3, <2>4, <1>0
<1>2. ASSUME NEW x \in S, NEW y \in S, y \in Before[x]
      PROVE  Cardinality(Before[y]) < Cardinality(Before[x])
  <2>0. Before[y] \subseteq Before[x] /\ y \notin Before[y]
    BY <1>2 DEF IsOrderOf
  <2>1. /\ Cardinality(Before[y]) <= Cardinality(Before[x])
        /\ Cardinality(Before[y]) = Cardinality(Before[x]) => Before[y] = Before[x]
    BY <2>0, <1>1, FS_Subset
  <2> QED
    BY <2>0, <2>1, <1>1, <1>2
<1>3. rank \in [S -> T]
  <2> SUFFICES ASSUME NEW x \in S PROVE Cardinality(Before[x]) \in T
    OBVIOUS
  <2>1. Cardinality(Before[x]) \in Nat /\ Cardinality(Before[x]) < n
    BY <1>1
  <2> QED
    BY <2>1, <1>0
<1>4. ASSUME NEW x \in S, NEW y \in S, rank[x] = rank[y] PROVE x = y
  <2>1. Cardinality(Before[x]) = Cardinality(Before[y])
    BY <1>4
  <2>2. ~(x \in Before[y]) /\ ~(y \in Before[x])
    BY <2>1, <1>2, <1>1
  <2> QED
    BY <2>2 DEF IsOrderOf
<1>5. rank \in Injection(S, T)
  BY <1>3, <1>4 DEF Injection, IsInjective
<1>6. IsFiniteSet(T) /\ Cardinality(T) = n
  BY <1>0, FS_Interval
<1>7. rank \in Surjection(S, T)
  <2> HIDE DEF rank, T
  <2> QED
    BY <1>5, <1>6, FS_Injection
<1> QED
  BY <1>5, <1>7 DEF Bijection

-----------------------------------------------------------------------------
(* The inductive invariant.                                                *)

\* An ascending arrangement of all ids is onto: it repeats none, and there are
\* as many places as ids.  This is why no file can be missing from the table.
LEMMA SortedIsOnto ==
  ASSUME entries \in Seq(Name),
         NEW ids \in [Positions -> Positions], SortedByHashThenId(ids)
  PROVE  \A id \in Positions : \E p \in Positions : ids[p] = id
<1>1. Count \in Nat
  BY DEF Count
<1>2. IsFiniteSet(Positions)
  BY <1>1, FS_Interval DEF Positions
<1>3. \A p \in Positions : FilenameHash[EntryName(ids[p])] \in Hash
  <2>1. \A p \in Positions : ids[p] + 1 \in 1 .. Len(entries)
    BY <1>1 DEF Positions, Count
  <2> QED
    BY <2>1, NameAssumption DEF EntryName
<1>4. \A i, j \in Positions : i < j => ids[i] # ids[j]
  <2> SUFFICES ASSUME NEW i \in Positions, NEW j \in Positions, i < j, ids[i] = ids[j]
               PROVE  FALSE
    OBVIOUS
  <2>1. FilenameHash[EntryName(ids[i])] = FilenameHash[EntryName(ids[j])]
    OBVIOUS
  <2>2. FilenameHash[EntryName(ids[i])] \in Int /\ ids[i] \in Int /\ ids[j] \in Int
    BY <1>1, <1>3, SizeAssumption DEF Hash, Positions
  <2> QED
    BY <2>1, <2>2 DEF SortedByHashThenId
<1>5. ids \in Injection(Positions, Positions)
  <2>1. \A i, j \in Positions : ids[i] = ids[j] => i = j
    BY <1>1, <1>4 DEF Positions
  <2> QED
    BY <2>1 DEF Injection, IsInjective
<1>6. ids \in Surjection(Positions, Positions)
  BY <1>2, <1>5, FS_Injection
<1> QED
  BY <1>6 DEF Surjection

LEMMA IndexInvInit == Init => IndexInv
<1> SUFFICES ASSUME Init PROVE IndexInv
  OBVIOUS
<1> USE DEF Init
<1>1. Count = 0 /\ entries \in Seq(Name)
  BY DEF Count
<1>2. SmallBuckets \in Nat /\ SmallBuckets > 0
  BY SizeAssumption DEF BucketCounts
<1>3. TypeOK
  BY <1>1, <1>2, SizeAssumption DEF TypeOK, BucketCounts
<1> QED
  BY <1>3 DEF IndexInv, LookupInv, PrefixInv

\* Sorting: the table just installed lists every entry once, in order.
LEMMA InstallPreserves ==
  IndexInv /\ InstallSortedLookup => IndexInv'
<1> SUFFICES ASSUME IndexInv, InstallSortedLookup PROVE IndexInv'
  OBVIOUS
<1> USE DEF IndexInv
<1>1. PICK ids \in [Positions -> Positions] :
        /\ SortedByHashThenId(ids)
        /\ lookupIds' = ids
        /\ lookupHashes' = [p \in Positions |-> FilenameHash[EntryName(ids[p])]]
  BY DEF InstallSortedLookup
<1>2. pc' = "fill" /\ entries' = entries /\ Count' = Count /\ Positions' = Positions
  BY DEF InstallSortedLookup, Count, Positions
<1>3. Count \in Nat /\ entries \in Seq(Name)
  BY DEF TypeOK, Count
<1>4. ChoosePrefixBits(Count) \in BucketCounts
  BY DEF ChoosePrefixBits, BucketCounts
<1>5. ChoosePrefixBits(Count) \in Nat /\ ChoosePrefixBits(Count) > 0
  BY <1>4, SizeAssumption
<1>6. \A p \in Positions : FilenameHash[EntryName(ids[p])] \in Hash
  <2>1. \A p \in Positions : ids[p] + 1 \in 1 .. Len(entries)
    BY <1>3 DEF Positions, Count
  <2> QED
    BY <1>3, <2>1, NameAssumption DEF EntryName
<1>7. TypeOK'
  <2>1. lookupIds' \in [Positions -> Positions] /\ lookupHashes' \in [Positions -> Hash]
    BY <1>1, <1>6
  <2>2. buckets' \in BucketCounts /\ position' = 0 /\ nextPrefix' = 0
        /\ prefixStarts' = [p \in 0 .. buckets' |-> 0]
    BY <1>4 DEF InstallSortedLookup, StartRebuild
  <2>3. prefixStarts' \in [0 .. buckets' -> 0 .. Count]
    BY <1>3, <2>2
  <2>4. position' \in 0 .. Count /\ nextPrefix' \in 0 .. buckets' + 1
    BY <1>3, <1>5, <2>2 DEF InstallSortedLookup, StartRebuild
  <2>5. Count <= MaxFiles
    BY DEF TypeOK
  <2> QED
    BY <1>2, <1>3, <2>1, <2>2, <2>3, <2>4, <2>5 DEF TypeOK, Hash, BucketCounts
<1>8. LookupInv'
  <2>1. SortedByHashThenId(lookupIds)'
    BY <1>1, <1>2 DEF SortedByHashThenId, EntryName
  <2>2. \A p \in Positions : lookupHashes'[p] = FilenameHash[EntryName(lookupIds[p])]'
    BY <1>1, <1>2 DEF EntryName
  <2>3. \A id \in Positions : \E p \in Positions : lookupIds'[p] = id
    BY <1>1, <1>3, SortedIsOnto
  <2> QED
    BY <1>2, <2>1, <2>2, <2>3 DEF LookupInv
<1>9. PrefixInv'
  <2>1. position' = 0 /\ nextPrefix' = 0
    BY DEF InstallSortedLookup, StartRebuild
  <2>2. 0 .. nextPrefix' - 1 = {} /\ \A i \in Positions' : ~(i < position')
    BY <1>2, <1>3, <2>1 DEF Positions
  <2> QED
    BY <1>2, <2>2 DEF PrefixInv
<1> QED
  BY <1>2, <1>7, <1>8, <1>9

\* One slot of the directory: every position before the cursor belongs to an
\* earlier bucket, and because the hashes ascend, every one from the cursor on
\* to this bucket or a later one.
LEMMA FillBucketPreserves ==
  IndexInv /\ FillBucket => IndexInv'
<1> SUFFICES ASSUME IndexInv, FillBucket PROVE IndexInv'
  OBVIOUS
<1> USE DEF IndexInv, FillBucket, lookup
<1>1. /\ pc' = "fill" /\ Count' = Count /\ Positions' = Positions
      /\ Count \in Nat /\ position \in Positions
  BY DEF TypeOK, Count, Positions
<1>2. buckets \in Nat /\ buckets > 0
  BY SizeAssumption DEF TypeOK
<1>3. \A i \in Positions : lookupHashes[i] \in Hash
  BY DEF TypeOK
<1>4. \A i \in Positions : HashPrefix(lookupHashes[i]) \in 0 .. buckets - 1
  BY <1>3, HashPrefixInRange DEF TypeOK
<1>5. nextPrefix \in 0 .. buckets - 1
  BY <1>1, <1>2, <1>4 DEF TypeOK
<1>6. TypeOK'
  BY <1>1, <1>2, <1>5 DEF TypeOK
<1>7. LookupInv'
  BY <1>1 DEF LookupInv, SortedByHashThenId, EntryName
<1>8. \A i \in Positions : HashPrefix(lookupHashes[i])' = HashPrefix(lookupHashes[i])
  BY DEF HashPrefix
<1>9. \A p \in 0 .. nextPrefix' - 1 : Splits(p)'
  <2> SUFFICES ASSUME NEW p \in 0 .. nextPrefix PROVE Splits(p)'
    BY <1>5
  <2>1. CASE p < nextPrefix
    <3>1. prefixStarts'[p] = prefixStarts[p]
      BY <2>1, <1>5 DEF TypeOK
    <3>2. Splits(p)
      BY <2>1, <1>5 DEF PrefixInv
    <3> QED
      BY <1>1, <1>8, <3>1, <3>2 DEF Splits
  <2>2. CASE p = nextPrefix
    <3>1. prefixStarts'[p] = position
      BY <2>2, <1>5, <1>2 DEF TypeOK
    <3>2. \A i \in Positions : i < position => HashPrefix(lookupHashes[i]) < p
      BY <2>2 DEF PrefixInv
    <3>3. ASSUME NEW i \in Positions, ~(i < position)
          PROVE  HashPrefix(lookupHashes[i]) >= p
      <4>1. position <= i
        BY <1>1, <3>3 DEF Positions
      <4>2. lookupHashes[position] <= lookupHashes[i]
        BY <1>1, <4>1, HashesAscend
      <4>3. HashPrefix(lookupHashes[position]) <= HashPrefix(lookupHashes[i])
        BY <1>1, <1>3, <4>2, HashPrefixMonotone DEF TypeOK
      <4> QED
        BY <1>1, <1>4, <1>5, <2>2, <4>3
    <3> QED
      BY <1>1, <1>8, <3>1, <3>2, <3>3 DEF Splits
  <2> QED
    BY <1>5, <2>1, <2>2
<1>10. \A i \in Positions : i < position => HashPrefix(lookupHashes[i]) < nextPrefix'
  <2>1. \A i \in Positions : i < position => HashPrefix(lookupHashes[i]) < nextPrefix
    BY DEF PrefixInv
  <2> QED
    BY <1>4, <1>5, <2>1
<1>11. PrefixInv'
  BY <1>1, <1>8, <1>9, <1>10 DEF PrefixInv
<1> QED
  BY <1>1, <1>6, <1>7, <1>11

LEMMA NextPositionPreserves ==
  IndexInv /\ NextPosition => IndexInv'
<1> SUFFICES ASSUME IndexInv, NextPosition PROVE IndexInv'
  OBVIOUS
<1> USE DEF IndexInv, NextPosition, lookup
<1>1. /\ pc' = "fill" /\ Count' = Count /\ Positions' = Positions
      /\ Count \in Nat /\ position \in Positions
  BY DEF TypeOK, Count, Positions
<1>2. TypeOK'
  BY <1>1 DEF TypeOK, Positions
<1>3. LookupInv'
  BY <1>1 DEF LookupInv, SortedByHashThenId, EntryName
<1>4. \A i \in Positions : HashPrefix(lookupHashes[i])' = HashPrefix(lookupHashes[i])
  BY DEF HashPrefix
<1>5. \A p : Splits(p)' <=> Splits(p)
  BY <1>1, <1>4 DEF Splits
<1>6. \A i \in Positions : i < position + 1 => HashPrefix(lookupHashes[i]) < nextPrefix
  <2> SUFFICES ASSUME NEW i \in Positions, i < position + 1
               PROVE  HashPrefix(lookupHashes[i]) < nextPrefix
    OBVIOUS
  <2>1. CASE i < position
    BY <2>1 DEF PrefixInv
  <2>2. CASE i = position
    <3>1. HashPrefix(lookupHashes[i]) \in Int /\ nextPrefix \in Int
      BY HashPrefixInRange, SizeAssumption DEF TypeOK
    <3> QED
      BY <2>2, <3>1
  <2> QED
    BY <1>1, <2>1, <2>2 DEF Positions
<1>7. PrefixInv'
  BY <1>1, <1>4, <1>5, <1>6 DEF PrefixInv
<1> QED
  BY <1>1, <1>2, <1>3, <1>7

\* The slots after the last hash, which the empty index fills with nothing else.
LEMMA FillTailPreserves ==
  IndexInv /\ FillTail => IndexInv'
<1> SUFFICES ASSUME IndexInv, FillTail PROVE IndexInv'
  OBVIOUS
<1> USE DEF IndexInv, FillTail, lookup
<1>1. /\ pc' = "fill" /\ Count' = Count /\ Positions' = Positions
      /\ Count \in Nat
  BY DEF TypeOK, Count, Positions
<1>2. buckets \in Nat /\ buckets > 0
  BY SizeAssumption DEF TypeOK
<1>3. nextPrefix \in 0 .. buckets
  BY <1>2 DEF TypeOK
<1>4. TypeOK'
  BY <1>1, <1>2, <1>3 DEF TypeOK
<1>5. LookupInv'
  BY <1>1 DEF LookupInv, SortedByHashThenId, EntryName
<1>6. \A i \in Positions : HashPrefix(lookupHashes[i])' = HashPrefix(lookupHashes[i])
  BY DEF HashPrefix
<1>7. \A i \in Positions : HashPrefix(lookupHashes[i]) \in Int /\ i < Count
  BY <1>1, <1>2, HashPrefixInRange DEF TypeOK, Positions
<1>8. \A i \in Positions : HashPrefix(lookupHashes[i]) < nextPrefix
  BY <1>7 DEF PrefixInv
<1>9. \A p \in 0 .. nextPrefix' - 1 : Splits(p)'
  <2> SUFFICES ASSUME NEW p \in 0 .. nextPrefix PROVE Splits(p)'
    BY <1>3
  <2>1. CASE p < nextPrefix
    <3>1. prefixStarts'[p] = prefixStarts[p]
      BY <2>1, <1>3 DEF TypeOK
    <3>2. Splits(p)
      BY <2>1, <1>3 DEF PrefixInv
    <3> QED
      BY <1>1, <1>6, <3>1, <3>2 DEF Splits
  <2>2. CASE p = nextPrefix
    <3>1. prefixStarts'[p] = Count
      BY <2>2, <1>3, <1>2 DEF TypeOK
    <3> QED
      BY <1>1, <1>6, <1>7, <1>8, <2>2, <3>1 DEF Splits
  <2> QED
    BY <1>3, <2>1, <2>2
<1>10. \A i \in Positions : HashPrefix(lookupHashes[i]) < nextPrefix'
  BY <1>3, <1>7, <1>8
<1>11. PrefixInv'
  BY <1>1, <1>6, <1>9, <1>10 DEF PrefixInv
<1> QED
  BY <1>1, <1>4, <1>5, <1>11

LEMMA ServePreserves ==
  IndexInv /\ Serve => IndexInv'
<1> SUFFICES ASSUME IndexInv, Serve PROVE IndexInv'
  OBVIOUS
<1> USE DEF IndexInv, Serve, lookup, table
<1>1. pc' = "ready" /\ Count' = Count /\ Positions' = Positions
  BY DEF Count, Positions
<1>2. TypeOK'
  BY <1>1 DEF TypeOK
<1>3. LookupInv'
  BY <1>1 DEF LookupInv, SortedByHashThenId, EntryName
<1>4. \A i \in Positions : HashPrefix(lookupHashes[i])' = HashPrefix(lookupHashes[i])
  BY DEF HashPrefix
<1>5. \A p : Splits(p)' <=> Splits(p)
  BY <1>1, <1>4 DEF Splits
<1>6. PrefixInv'
  BY <1>1, <1>4, <1>5 DEF PrefixInv
<1> QED
  BY <1>1, <1>2, <1>3, <1>6

\* load accepts what save wrote, and starts the directory afresh.
LEMMA SaveAndLoadPreserves ==
  IndexInv /\ SaveAndLoad => IndexInv'
<1> SUFFICES ASSUME IndexInv, SaveAndLoad PROVE IndexInv'
  OBVIOUS
<1> USE DEF IndexInv, SaveAndLoad, lookup
<1>1. Count \in Nat /\ pc \in {"fill", "ready"}
  BY DEF TypeOK, Count
<1>2. LoadAccepts
  <2>1. \A p \in Positions : p + 1 \in Positions =>
           lookupHashes[p] <= lookupHashes[p + 1]
    BY <1>1, HashesAscend DEF Positions
  <2>2. \A p \in Positions : lookupIds[p] < Count
    BY <1>1 DEF TypeOK, Positions
  <2> QED
    BY <2>1, <2>2 DEF LoadAccepts
<1>3. pc' = "fill" /\ StartRebuild
  BY <1>2
<1>4. Count' = Count /\ Positions' = Positions
  BY DEF Count, Positions
<1>5. ChoosePrefixBits(Count) \in BucketCounts
  BY DEF ChoosePrefixBits, BucketCounts
<1>6. ChoosePrefixBits(Count) \in Nat /\ ChoosePrefixBits(Count) > 0
  BY <1>5, SizeAssumption
<1>7. TypeOK'
  BY <1>1, <1>3, <1>4, <1>5, <1>6 DEF TypeOK, StartRebuild, Hash, BucketCounts
<1>8. LookupInv'
  BY <1>1, <1>3, <1>4 DEF LookupInv, SortedByHashThenId, EntryName
<1>9. 0 .. nextPrefix' - 1 = {} /\ \A i \in Positions' : ~(i < position')
  BY <1>1, <1>3, <1>4 DEF StartRebuild, Positions
<1>10. PrefixInv'
  BY <1>3, <1>9 DEF PrefixInv
<1> QED
  BY <1>3, <1>7, <1>8, <1>10

LEMMA ScanPreserves ==
  ASSUME IndexInv, PushPastLimit \/ \E n \in Name : PushFile(n)
  PROVE  IndexInv'
<1> USE DEF IndexInv, lookup, table
<1>1. CASE PushPastLimit
  BY <1>1 DEF PushPastLimit, TypeOK, LookupInv, PrefixInv, Count
<1>2. ASSUME NEW n \in Name, PushFile(n)
      PROVE  IndexInv'
  <2>1. pc' = "scan" /\ entries' \in Seq(Name) /\ Count' = Count + 1 /\ Count \in Nat
    BY <1>2 DEF PushFile, TypeOK, Count
  <2>2. TypeOK'
    BY <1>2, <2>1, SizeAssumption DEF PushFile, TypeOK
  <2> QED
    BY <1>2, <2>1, <2>2 DEF LookupInv, PrefixInv
<1> QED
  BY <1>1, <1>2

LEMMA IndexInvStep == IndexInv /\ [Next]_vars => IndexInv'
<1> SUFFICES ASSUME IndexInv, [Next]_vars PROVE IndexInv'
  OBVIOUS
<1>1. CASE PushPastLimit \/ \E n \in Name : PushFile(n)
  BY <1>1, ScanPreserves
<1>2. CASE InstallSortedLookup
  BY <1>2, InstallPreserves
<1>3. CASE FillBucket
  BY <1>3, FillBucketPreserves
<1>4. CASE NextPosition
  BY <1>4, NextPositionPreserves
<1>5. CASE FillTail
  BY <1>5, FillTailPreserves
<1>6. CASE Serve
  BY <1>6, ServePreserves
<1>7. CASE SaveAndLoad
  BY <1>7, SaveAndLoadPreserves
<1>8. CASE UNCHANGED vars
  BY <1>8 DEF vars, IndexInv, TypeOK, LookupInv, PrefixInv, SortedByHashThenId,
             Splits, HashPrefix, EntryName, Positions, Count
<1> QED
  BY <1>1, <1>2, <1>3, <1>4, <1>5, <1>6, <1>7, <1>8 DEF Next

\* Type correctness of the index, and the array bounds it states: every slot of
\* the directory is a position and every id an entry, so no table access panics.
THEOREM TypeCorrect == Spec => []TypeOK
<1>1. Spec => []IndexInv
  BY IndexInvInit, IndexInvStep, PTL DEF Spec
<1>2. IndexInv => TypeOK
  BY DEF IndexInv
<1> QED
  BY <1>1, <1>2, PTL

-----------------------------------------------------------------------------
(* Lookups.                                                                *)

\* The first position of lo .. hi - 1 with a property, or hi: what
\* partition_point returns, stated once for both of its uses.
LEMMA FirstInRange ==
  ASSUME NEW lo \in Nat, NEW hi \in Nat, lo <= hi,
         NEW S, S \subseteq lo .. hi - 1
  PROVE  /\ Least(S \union {hi}) \in lo .. hi
         /\ Least(S \union {hi}) < hi => Least(S \union {hi}) \in S
         /\ \A p \in S : Least(S \union {hi}) <= p
<1>1. S \union {hi} \subseteq Nat /\ S \union {hi} # {}
  OBVIOUS
<1>2. /\ Least(S \union {hi}) \in S \union {hi}
      /\ \A y \in S \union {hi} : Least(S \union {hi}) <= y
  BY <1>1, LeastIsLeast
<1>3. Least(S \union {hi}) <= hi /\ \A p \in S : Least(S \union {hi}) <= p
  BY <1>2
<1>4. Least(S \union {hi}) < hi => Least(S \union {hi}) \in S
  BY <1>2
<1>5. Least(S \union {hi}) \in lo .. hi
  <2>1. ASSUME NEW m \in S \union {hi} PROVE m \in lo .. hi
    <3>1. CASE m = hi
      BY <3>1
    <3>2. CASE m \in lo .. hi - 1
      BY <3>2
    <3> QED BY <3>1, <3>2
  <2> QED BY <1>2, <2>1
<1> QED
  BY <1>3, <1>4, <1>5

\* The directory narrows and the two searches finish: hash_range returns the
\* positions of the hash, whatever buckets are empty.
LEMMA HashRangeCorrect ==
  ASSUME IndexInv, pc = "ready", NEW h \in Hash
  PROVE  /\ prefixStarts[HashPrefix(h)] <= prefixStarts[HashPrefix(h) + 1]
         /\ HashRange(h).start \in 0 .. HashRange(h).end
         /\ HashRange(h).end \in 0 .. Count
         /\ HashRange(h).start .. HashRange(h).end - 1
              = {p \in Positions : lookupHashes[p] = h}
<1> DEFINE P == HashPrefix(h)
           lo == prefixStarts[P]
           hi == prefixStarts[P + 1]
           start == FirstNotBelow(lo, hi, h)
           end == FirstAbove(start, hi, h)
           hits == {p \in Positions : lookupHashes[p] = h}
<1>1. Count \in Nat /\ buckets \in Nat /\ buckets > 0
  BY SizeAssumption DEF IndexInv, TypeOK, Count
<1>2. P \in 0 .. buckets - 1
  BY HashPrefixInRange DEF IndexInv, TypeOK
<1>3. lo \in 0 .. Count /\ hi \in 0 .. Count
  BY <1>1, <1>2 DEF IndexInv, TypeOK
<1>4. \A i \in Positions :
        /\ lookupHashes[i] \in Hash /\ lookupHashes[i] \in Int
        /\ HashPrefix(lookupHashes[i]) \in Int
  BY HashPrefixInRange, SizeAssumption DEF IndexInv, TypeOK, Hash
<1>5. Splits(P) /\ Splits(P + 1)
  BY <1>1, <1>2 DEF IndexInv, PrefixInv
<1>6. lo <= hi
  <2> SUFFICES ASSUME hi < lo PROVE FALSE
    BY <1>3
  <2>1. hi \in Positions
    BY <1>1, <1>3 DEF Positions
  <2>2. HashPrefix(lookupHashes[hi]) < P
    BY <1>5, <2>1 DEF Splits
  <2>3. HashPrefix(lookupHashes[hi]) >= P + 1
    BY <1>3, <1>5, <2>1 DEF Splits
  <2> QED
    BY <1>2, <1>4, <2>1, <2>2, <2>3
<1>7. hits \subseteq lo .. hi - 1
  <2> SUFFICES ASSUME NEW i \in Positions, lookupHashes[i] = h
               PROVE  i \in lo .. hi - 1
    OBVIOUS
  <2>1. ~(i < lo)
    <3>1. i < lo => HashPrefix(lookupHashes[i]) < P
      BY <1>5 DEF Splits
    <3> QED
      BY <1>2, <3>1
  <2>2. i < hi
    <3>1. ~(i < hi) => HashPrefix(lookupHashes[i]) >= P + 1
      BY <1>5 DEF Splits
    <3> QED
      BY <1>2, <3>1
  <2> QED
    BY <1>1, <1>3, <2>1, <2>2 DEF Positions
<1>8. h \in Int /\ lo .. hi - 1 \subseteq Positions /\ lo \in Nat /\ hi \in Nat
  BY <1>1, <1>3, SizeAssumption DEF Hash, Positions
<1>9. /\ start \in lo .. hi
      /\ start < hi => lookupHashes[start] >= h
      /\ \A p \in lo .. hi - 1 : lookupHashes[p] >= h => start <= p
  <2> DEFINE S == {p \in lo .. hi - 1 : lookupHashes[p] >= h}
  <2>1. S \subseteq lo .. hi - 1
    OBVIOUS
  <2>2. start = Least(S \union {hi})
    BY DEF FirstNotBelow
  <2>3. /\ start \in lo .. hi
        /\ start < hi => start \in S
        /\ \A p \in S : start <= p
    <3> HIDE DEF S, start, lo, hi
    <3> QED BY <1>6, <1>8, <2>1, <2>2, FirstInRange
  <2> QED
    BY <2>3
<1>10. /\ end \in start .. hi
       /\ end < hi => lookupHashes[end] > h
       /\ \A p \in start .. hi - 1 : lookupHashes[p] > h => end <= p
  <2> DEFINE S == {p \in start .. hi - 1 : lookupHashes[p] > h}
  <2>1. S \subseteq start .. hi - 1
    OBVIOUS
  <2>2. end = Least(S \union {hi})
    BY DEF FirstAbove
  <2>3. start \in Nat /\ start <= hi
    BY <1>8, <1>9
  <2>4. /\ end \in start .. hi
        /\ end < hi => end \in S
        /\ \A p \in S : end <= p
    <3> HIDE DEF S, start, end, lo, hi
    <3> QED BY <1>8, <2>1, <2>2, <2>3, FirstInRange
  <2> QED
    BY <2>4
<1> HIDE DEF start, end, lo, hi, P
<1>11. CASE start = hi \/ lookupHashes[start] # h
  <2>1. HashRange(h) = [start |-> start, end |-> start]
    BY <1>11 DEF HashRange, start, lo, hi, P
  <2>2. hits = {}
    <3> SUFFICES ASSUME NEW i \in Positions, lookupHashes[i] = h PROVE FALSE
      OBVIOUS
    <3>1. i \in lo .. hi - 1
      BY <1>7
    <3>2. start <= i
      BY <1>8, <1>9, <3>1
    <3>3. start \in Positions /\ start < hi /\ lookupHashes[start] # h
      BY <1>8, <1>9, <1>11, <3>1, <3>2
    <3>4. lookupHashes[start] <= lookupHashes[i]
      BY <3>2, <3>3, HashesAscend DEF IndexInv
    <3> QED
      BY <1>4, <1>8, <1>9, <3>3, <3>4
  <2>3. start .. start - 1 = {}
    BY <1>8, <1>9
  <2>4. HashRange(h).start = start /\ HashRange(h).end = start
    BY <2>1
  <2>5. start \in 0 .. start /\ start \in 0 .. Count
    BY <1>1, <1>3, <1>8, <1>9
  <2>6. prefixStarts[HashPrefix(h)] <= prefixStarts[HashPrefix(h) + 1]
    BY <1>6 DEF lo, hi, P
  <2> QED
    BY <2>2, <2>3, <2>4, <2>5, <2>6
<1>12. CASE ~(start = hi \/ lookupHashes[start] # h)
  <2>1. HashRange(h) = [start |-> start, end |-> end]
    BY <1>12 DEF HashRange, start, end, lo, hi, P
  <2>2. ASSUME NEW i \in start .. end - 1
        PROVE  i \in hits
    <3>1. i \in lo .. hi - 1 /\ i \in Positions /\ start \in Positions /\ start <= i
      BY <1>8, <1>9, <1>10, <2>2
    <3>2. ~(lookupHashes[i] > h)
      BY <1>8, <1>9, <1>10, <2>2, <3>1
    <3>3. lookupHashes[start] <= lookupHashes[i]
      BY <3>1, HashesAscend DEF IndexInv
    <3> QED
      BY <1>4, <1>8, <1>12, <3>1, <3>2, <3>3
  <2>3. ASSUME NEW i \in Positions, lookupHashes[i] = h
        PROVE  i \in start .. end - 1
    <3>1. i \in lo .. hi - 1
      BY <1>7, <2>3
    <3>2. start <= i
      BY <1>8, <1>9, <2>3, <3>1
    <3>3. i < end
      <4> SUFFICES ASSUME end <= i PROVE FALSE
        BY <1>8, <1>9, <1>10, <3>1
      <4>1. end \in Positions /\ end < hi
        BY <1>8, <1>9, <1>10, <3>1
      <4>2. lookupHashes[end] <= lookupHashes[i]
        BY <4>1, HashesAscend DEF IndexInv
      <4> QED
        BY <1>4, <1>8, <1>10, <2>3, <4>1, <4>2
    <3> QED
      BY <1>8, <1>9, <1>10, <3>1, <3>2, <3>3
  <2>4. start .. end - 1 = hits
    BY <2>2, <2>3
  <2>5. HashRange(h).start = start /\ HashRange(h).end = end
    BY <2>1
  <2>6. start \in 0 .. end /\ end \in 0 .. Count
    BY <1>1, <1>3, <1>8, <1>9, <1>10
  <2>7. prefixStarts[HashPrefix(h)] <= prefixStarts[HashPrefix(h) + 1]
    BY <1>6 DEF lo, hi, P
  <2> QED
    BY <2>4, <2>5, <2>6, <2>7
<1> QED
  BY <1>11, <1>12

\* hash_range is exact in every serving state: the prefix directory and the two
\* binary searches lose no entry of the hash and add no other.
THEOREM HashRangeIsExact == Spec => []HashRangeExact
<1>1. Spec => []IndexInv
  BY IndexInvInit, IndexInvStep, PTL DEF Spec
<1>2. IndexInv => HashRangeExact
  BY HashRangeCorrect DEF HashRangeExact
<1> QED
  BY <1>1, <1>2, PTL

-----------------------------------------------------------------------------
(* Refinement of the catalogue.                                            *)

\* Checking the real name over the range of the hash leaves exactly the
\* positions of the files with that name, because equal names hash alike.
LEMMA CandidatePositionsCorrect ==
  ASSUME IndexInv, pc = "ready", NEW n \in Name
  PROVE  CandidatePositions(n)
           = {p \in Positions : Fold[EntryName(lookupIds[p])] = Fold[n]}
<1>1. FilenameHash[n] \in Hash
  BY NameAssumption
<1>2. HashRange(FilenameHash[n]).start .. HashRange(FilenameHash[n]).end - 1
        = {p \in Positions : lookupHashes[p] = FilenameHash[n]}
  BY <1>1, HashRangeCorrect
<1>3. \A p \in Positions : EntryName(lookupIds[p]) \in Name
  <2>1. \A p \in Positions : lookupIds[p] + 1 \in 1 .. Len(entries) /\ entries \in Seq(Name)
    BY DEF IndexInv, TypeOK, Positions, Count
  <2> QED
    BY <2>1 DEF EntryName
<1>4. \A p \in Positions : Fold[EntryName(lookupIds[p])] = Fold[n] =>
         lookupHashes[p] = FilenameHash[n]
  BY <1>3, NameAssumption DEF IndexInv, LookupInv
<1> QED
  BY <1>2, <1>4 DEF CandidatePositions

\* Within the answer to a query the ids ascend with the positions.
LEMMA CandidateIdsAscend ==
  ASSUME IndexInv, pc = "ready", NEW n \in Name
  PROVE  /\ IsFiniteSet(CandidatePositions(n)) /\ CandidatePositions(n) \subseteq Nat
         /\ \A p \in CandidatePositions(n) : lookupIds[p] \in Nat
         /\ \A p, q \in CandidatePositions(n) : p < q => lookupIds[p] < lookupIds[q]
<1> DEFINE C == CandidatePositions(n)
<1>1. C = {p \in Positions : Fold[EntryName(lookupIds[p])] = Fold[n]}
  BY CandidatePositionsCorrect
<1>2. Count \in Nat /\ Positions \subseteq Nat /\ IsFiniteSet(Positions)
  <2>1. Count \in Nat
    BY DEF IndexInv, TypeOK, Count
  <2> QED
    BY <2>1, FS_Interval DEF Positions
<1>3. \A p \in C : p \in Positions /\ lookupIds[p] \in Positions /\ EntryName(lookupIds[p]) \in Name
  <2> SUFFICES ASSUME NEW p \in C
               PROVE  p \in Positions /\ lookupIds[p] \in Positions /\ EntryName(lookupIds[p]) \in Name
    OBVIOUS
  <2>1. p \in Positions /\ lookupIds[p] \in Positions
    BY <1>1 DEF IndexInv, TypeOK
  <2>2. lookupIds[p] + 1 \in 1 .. Len(entries) /\ entries \in Seq(Name)
    BY <2>1 DEF IndexInv, TypeOK, Positions, Count
  <2> QED
    BY <2>1, <2>2 DEF EntryName
<1>4. ASSUME NEW p \in C, NEW q \in C, p < q PROVE lookupIds[p] < lookupIds[q]
  <2>1. Fold[EntryName(lookupIds[p])] = Fold[EntryName(lookupIds[q])]
    BY <1>1
  <2>2. FilenameHash[EntryName(lookupIds[p])] = FilenameHash[EntryName(lookupIds[q])]
    BY <1>3, <2>1, NameAssumption
  <2>3. FilenameHash[EntryName(lookupIds[p])] \in Int
    BY <1>3, NameAssumption, SizeAssumption DEF Hash
  <2> QED
    BY <1>3, <1>4, <2>2, <2>3 DEF IndexInv, LookupInv, SortedByHashThenId
<1>5. IsFiniteSet(C) /\ C \subseteq Nat
  BY <1>1, <1>2, FS_Subset
<1> QED
  BY <1>2, <1>3, <1>4, <1>5

\* They are the ids the catalogue names, the smallest first.
LEMMA CandidatesCorrect ==
  ASSUME IndexInv, pc = "ready", NEW n \in Name
  PROVE  /\ ExactCandidates(n) = Catalog!Matches(n)
         /\ LookupFirstId(n) = Catalog!LeastOrNone(Catalog!Matches(n))
<1> DEFINE C == CandidatePositions(n)
           M == {id \in Positions : Fold[EntryName(id)] = Fold[n]}
<1>1. C = {p \in Positions : Fold[EntryName(lookupIds[p])] = Fold[n]}
  BY CandidatePositionsCorrect
<1>2. Catalog!Matches(n) = M
  BY DEF Catalog!Matches, EntryName, Positions, Count
<1>3. \A p \in Positions : lookupIds[p] \in Positions
  BY DEF IndexInv, TypeOK
<1>4. \A id \in Positions : \E p \in Positions : lookupIds[p] = id
  BY DEF IndexInv, LookupInv
<1>5. ExactCandidates(n) = M
  BY <1>1, <1>3, <1>4 DEF ExactCandidates
<1>6. CASE C = {}
  BY <1>2, <1>5, <1>6 DEF ExactCandidates, LookupFirstId, NoFile,
     Catalog!LeastOrNone, Catalog!NoFile
<1>7. CASE C # {}
  <2>1. C \subseteq Nat /\ Count \in Nat
    BY <1>1 DEF Positions, IndexInv, TypeOK, Count
  <2> DEFINE f == Least(C)
  <2>2. f \in C /\ \A p \in C : f <= p
    BY <1>7, <2>1, LeastIsLeast
  <2>3. M # {} /\ M \subseteq Nat
    BY <1>5, <1>7, <2>1 DEF ExactCandidates, Positions
  <2>4. Least(M) \in M /\ \A y \in M : Least(M) <= y
    BY <2>3, LeastIsLeast
  <2>5. lookupIds[f] \in M
    BY <1>5, <2>2 DEF ExactCandidates
  <2>6. \A id \in M : lookupIds[f] <= id
    <3> SUFFICES ASSUME NEW id \in M PROVE lookupIds[f] <= id
      OBVIOUS
    <3>1. PICK q \in C : lookupIds[q] = id
      BY <1>5 DEF ExactCandidates
    <3>2. f \in Positions /\ q \in Positions /\ f <= q
      BY <1>1, <2>2, <3>1
    <3>3. lookupIds[f] \in Nat /\ lookupIds[q] \in Nat
      BY <1>3, <2>1, <3>2 DEF Positions
    <3>4. CASE f = q
      BY <3>1, <3>3, <3>4
    <3>5. CASE f < q
      <4>1. lookupIds[f] < lookupIds[q]
        BY <2>2, <3>1, <3>5, CandidateIdsAscend
      <4> QED
        BY <3>1, <3>3, <4>1
    <3> QED
      BY <2>1, <3>2, <3>4, <3>5 DEF Positions
  <2>7. lookupIds[f] = Least(M)
    BY <2>3, <2>4, <2>5, <2>6
  <2>8. LookupFirstId(n) = Least(M)
    BY <1>7, <2>7 DEF LookupFirstId
  <2>9. Catalog!LeastOrNone(M) = Least(M)
    BY <2>3 DEF Catalog!LeastOrNone, Catalog!Least, Least
  <2> QED
    BY <1>2, <1>5, <2>8, <2>9
<1> QED
  BY <1>6, <1>7

\* The same fact as one formula, so that it can be read of the next state.
Answers ==
  \A n \in Name : /\ ExactCandidates(n) = Catalog!Matches(n)
                  /\ LookupFirstId(n) = Catalog!LeastOrNone(Catalog!Matches(n))

LEMMA AnswersCorrect == IndexInv /\ pc = "ready" => Answers
  BY CandidatesCorrect DEF Answers

LEMMA AnswersCorrectNext == (IndexInv /\ pc = "ready" => Answers)'
  BY AnswersCorrect, PTL

LEMMA CatalogInit == Init => Catalog!Init
  BY DEF Init, Catalog!Init, CatalogPhase, CatalogAnswer, CatalogFirst,
         Catalog!Nothing, Catalog!NoFirst, NoFile, Catalog!NoFile

\* Steps that neither start nor stop serving leave the answers empty.
LEMMA NotServing ==
  ASSUME pc # "ready"
  PROVE  CatalogAnswer = Catalog!Nothing /\ CatalogFirst = Catalog!NoFirst
  BY DEF CatalogAnswer, CatalogFirst, Catalog!Nothing, Catalog!NoFirst,
         NoFile, Catalog!NoFile

LEMMA NotServingNext ==
  ASSUME pc' # "ready"
  PROVE  CatalogAnswer' = Catalog!Nothing /\ CatalogFirst' = Catalog!NoFirst
  BY DEF CatalogAnswer, CatalogFirst, Catalog!Nothing, Catalog!NoFirst,
         NoFile, Catalog!NoFile

LEMMA CatalogStep ==
  IndexInv /\ IndexInv' /\ [Next]_vars => [Catalog!Next]_(Catalog!vars)
<1> SUFFICES ASSUME IndexInv, IndexInv', [Next]_vars
             PROVE  [Catalog!Next]_(Catalog!vars)
  OBVIOUS
<1> USE DEF lookup, table
<1>1. ASSUME NEW n \in Name, PushFile(n)
      PROVE  Catalog!Add(n)
  <2>1. pc = "scan" /\ pc' = "scan"
    BY <1>1 DEF PushFile
  <2> QED
    BY <1>1, <2>1, NotServing, NotServingNext
    DEF PushFile, Catalog!Add, CatalogPhase, Count
<1>2. CASE PushPastLimit
  <2>1. pc = "scan" /\ pc' = "limit" /\ Count = MaxFiles
    BY <1>2, SizeAssumption DEF PushPastLimit, IndexInv, TypeOK, Count
  <2>2. Catalog!Refuse
    BY <1>2, <2>1, NotServing, NotServingNext
    DEF PushPastLimit, Catalog!Refuse, CatalogPhase, Count
  <2> QED
    BY <2>2 DEF Catalog!Next
<1>3. CASE InstallSortedLookup
  <2>1. pc = "scan" /\ pc' = "fill"
    BY <1>3 DEF InstallSortedLookup
  <2>2. Catalog!Seal
    BY <1>3, <2>1, NotServing, NotServingNext
    DEF InstallSortedLookup, Catalog!Seal, CatalogPhase
  <2> QED
    BY <2>2 DEF Catalog!Next
<1>4. CASE FillBucket \/ NextPosition \/ FillTail
  <2>1. pc = "fill" /\ pc' = "fill" /\ entries' = entries
    BY <1>4 DEF FillBucket, NextPosition, FillTail
  <2> QED
    BY <2>1, NotServing, NotServingNext DEF Catalog!vars, CatalogPhase
<1>5. CASE Serve
  <2>1. pc = "fill" /\ pc' = "ready" /\ entries' = entries
    BY <1>5 DEF Serve
  <2>2. \A n \in Name : /\ ExactCandidates(n)' = Catalog!Matches(n)'
                        /\ LookupFirstId(n)' = Catalog!LeastOrNone(Catalog!Matches(n))'
    BY <2>1, AnswersCorrectNext DEF Answers
  <2>3. \A n \in Name : Catalog!Matches(n)' = Catalog!Matches(n)
    BY <2>1 DEF Catalog!Matches
  <2>4. CatalogAnswer' = [n \in Name |-> Catalog!Matches(n)]
    BY <2>1, <2>2, <2>3 DEF CatalogAnswer
  <2>5. CatalogFirst' = [n \in Name |-> Catalog!LeastOrNone(Catalog!Matches(n))]
    BY <2>1, <2>2, <2>3 DEF CatalogFirst, Catalog!LeastOrNone
  <2>6. Catalog!Publish
    BY <2>1, <2>4, <2>5 DEF Catalog!Publish, CatalogPhase
  <2> QED
    BY <2>6 DEF Catalog!Next
<1>6. CASE SaveAndLoad
  <2>1. pc = "ready" /\ pc' = "fill" /\ entries' = entries
    BY <1>6 DEF SaveAndLoad, IndexInv
  <2>2. Catalog!Restart
    BY <2>1, NotServingNext DEF Catalog!Restart, CatalogPhase
  <2> QED
    BY <2>2 DEF Catalog!Next
<1>7. CASE UNCHANGED vars
  BY <1>7 DEF vars, Catalog!vars, CatalogPhase, CatalogAnswer, CatalogFirst,
     ExactCandidates, LookupFirstId, CandidatePositions, HashRange, HashPrefix,
     FirstNotBelow, FirstAbove, EntryName
<1> QED
  BY <1>1, <1>2, <1>3, <1>4, <1>5, <1>6, <1>7 DEF Next, Catalog!Next

\* The hashed, bucketed, sorted tables behave as the plain catalogue: exact
\* answers whatever collides, smallest id first, unchanged by save and load.
THEOREM IndexImplementsCatalog == Spec => ImplementsCatalog
<1>1. Spec => []IndexInv
  BY IndexInvInit, IndexInvStep, PTL DEF Spec
<1> QED
  BY <1>1, CatalogInit, CatalogStep, PTL DEF Spec, ImplementsCatalog, Catalog!Spec

-----------------------------------------------------------------------------
(* Bounded visits.                                                         *)

\* The first b numbers of C, and what is expected of them.
TheFirst(C, b) == {p \in C : Cardinality({q \in C : q < p}) < b}
IsFirstFew(V, C, b) ==
  /\ \A p \in V, q \in C \ V : p < q
  /\ V # C => IsFiniteSet(V) /\ Cardinality(V) = b
  /\ b > 0 => \A p \in C : (\A q \in C : p <= q) => p \in V

\* The first b candidates, by position: all of them, or b.
LEMMA FirstFew ==
  ASSUME NEW C, IsFiniteSet(C), C \subseteq Nat, NEW b \in Nat
  PROVE  IsFirstFew(TheFirst(C, b), C, b)
<1> DEFINE Before == [p \in C |-> {q \in C : q < p}]
           rank == [p \in C |-> Cardinality(Before[p])]
           V == {p \in C : Cardinality({q \in C : q < p}) < b}
           k == Cardinality(C)
<1>0. k \in Nat
  BY FS_CardinalityType
<1>1. IsOrderOf(Before, C)
  <2>1. Before \in [C -> SUBSET C] /\ \A p \in C : p \notin Before[p]
    OBVIOUS
  <2>2. \A p, q \in C : p = q \/ p \in Before[q] \/ q \in Before[p]
    OBVIOUS
  <2>3. ASSUME NEW p \in C, NEW q \in Before[p] PROVE Before[q] \subseteq Before[p]
    <3>1. p \in Nat /\ q \in Nat /\ q \in C /\ q < p
      OBVIOUS
    <3>2. \A x \in C : x < q => x < p
      BY <3>1
    <3> QED
      BY <3>1, <3>2
  <2> QED
    BY <2>1, <2>2, <2>3 DEF IsOrderOf
<1>2. rank \in Bijection(C, 0 .. k - 1)
  <2> HIDE DEF Before
  <2> QED
    BY <1>1, Ranking
<1>3. V = {p \in C : rank[p] < b}
  OBVIOUS
<1>4. \A p \in C : rank[p] \in 0 .. k - 1
  <2> HIDE DEF rank
  <2> QED
    BY <1>2 DEF Bijection, Injection
<1>5. \A p, q \in C : q <= p => rank[q] <= rank[p]
  <2> SUFFICES ASSUME NEW p \in C, NEW q \in C, q <= p PROVE rank[q] <= rank[p]
    OBVIOUS
  <2>1. Before[q] \subseteq Before[p] /\ Before[p] \subseteq C
    <3>1. p \in Nat /\ q \in Nat
      OBVIOUS
    <3>2. \A x \in C : x < q => x < p
      BY <3>1
    <3> QED
      BY <3>2
  <2>2. IsFiniteSet(Before[p])
    BY <2>1, FS_Subset
  <2> HIDE DEF Before
  <2>3. Cardinality(Before[q]) <= Cardinality(Before[p])
    BY <2>1, <2>2, FS_Subset
  <2> QED
    BY <2>3
<1> HIDE DEF rank, V, Before, k
<1>6. ASSUME NEW p \in V, NEW q \in C \ V PROVE p < q
  <2>1. p \in C /\ q \in C /\ rank[p] < b /\ ~(rank[q] < b)
    BY <1>3
  <2>2. rank[p] \in Nat /\ rank[q] \in Nat /\ p \in Nat /\ q \in Nat
    BY <2>1, <1>4, <1>0
  <2> QED
    BY <2>1, <2>2, <1>5
<1>7. ASSUME V # C PROVE IsFiniteSet(V) /\ Cardinality(V) = b
  <2> DEFINE f == [p \in V |-> rank[p]]
             B == 0 .. b - 1
  <2>1. PICK q \in C : ~(rank[q] < b)
    BY <1>3, <1>7
  <2>2. b <= k - 1
    BY <2>1, <1>4, <1>0
  <2>3. V \subseteq C /\ \A p \in V : rank[p] \in B
    BY <1>3, <1>4, <1>0
  <2>4. f \in [V -> B]
    BY <2>3
  <2>5. \A x, y \in V : f[x] = f[y] => x = y
    BY <2>3, <1>2 DEF Bijection, Injection, IsInjective
  <2>6. \A i \in B : \E p \in V : f[p] = i
    <3> SUFFICES ASSUME NEW i \in B PROVE \E p \in V : f[p] = i
      OBVIOUS
    <3>1. i \in 0 .. k - 1 /\ i < b
      BY <2>2, <1>0
    <3>2. PICK p \in C : rank[p] = i
      BY <3>1, <1>2 DEF Bijection, Surjection
    <3>3. p \in V
      BY <3>1, <3>2, <1>3
    <3> QED
      BY <3>2, <3>3
  <2>7. IsFiniteSet(B) /\ Cardinality(B) = b
    BY FS_Interval
  <2> HIDE DEF f, B
  <2>8. f \in Injection(V, B) /\ f \in Surjection(V, B)
    BY <2>4, <2>5, <2>6 DEF Injection, IsInjective, Surjection
  <2> QED
    BY <2>7, <2>8, FS_Injection
<1>8. ASSUME b > 0, NEW p \in C, \A q \in C : p <= q PROVE p \in V
  <2>1. \A q \in C : ~(q < p)
    BY <1>8
  <2>2. Cardinality({q \in C : q < p}) = 0
    <3>1. {q \in C : q < p} = {}
      BY <2>1
    <3> QED
      BY <3>1, FS_EmptySet
  <2> QED
    BY <2>2, <1>8 DEF V
<1> QED
  BY <1>6, <1>7, <1>8 DEF V, TheFirst, IsFirstFew

\* What a bounded visit returns.
LEMMA VisitCorrect ==
  ASSUME IndexInv, pc = "ready", NEW n \in Name, NEW limit \in 0 .. MaxFiles
  PROVE  LET visited == VisitExactCandidates(n, limit)
             all == ExactCandidates(n)
         IN  /\ visited \subseteq all
             /\ \A i \in visited, j \in all \ visited : i < j
             /\ visited # all => Cardinality(visited) = IF limit = 0 THEN 1 ELSE limit
             /\ all # {} => LookupFirstId(n) \in visited
<1> DEFINE C == CandidatePositions(n)
           b == IF limit = 0 THEN 1 ELSE limit
           V == {p \in C : Cardinality({q \in C : q < p}) < b}
           visited == VisitExactCandidates(n, limit)
           all == ExactCandidates(n)
<1>1. /\ IsFiniteSet(C) /\ C \subseteq Nat
      /\ \A p \in C : lookupIds[p] \in Nat
      /\ \A p, q \in C : p < q => lookupIds[p] < lookupIds[q]
  BY CandidateIdsAscend
<1>2. b \in Nat /\ b > 0
  BY SizeAssumption
<1>3. visited = {lookupIds[p] : p \in V} /\ all = {lookupIds[p] : p \in C} /\ V \subseteq C
  BY DEF VisitExactCandidates, ExactCandidates
<1> HIDE DEF C, b
<1>4. /\ \A p \in V, q \in C \ V : p < q
      /\ V # C => IsFiniteSet(V) /\ Cardinality(V) = b
      /\ \A p \in C : (\A q \in C : p <= q) => p \in V
  <2>1. V = TheFirst(C, b)
    BY DEF TheFirst
  <2>2. IsFirstFew(TheFirst(C, b), C, b)
    BY <1>1, <1>2, FirstFew
  <2> HIDE DEF V
  <2> QED
    BY <2>1, <2>2, <1>2 DEF IsFirstFew
<1> HIDE DEF V, visited, all
<1>5. visited \subseteq all
  BY <1>3
<1>6. \A i \in visited, j \in all \ visited : i < j
  BY <1>1, <1>3, <1>4
<1>7. ASSUME visited # all PROVE Cardinality(visited) = b
  <2>1. IsFiniteSet(V) /\ Cardinality(V) = b
    BY <1>3, <1>4, <1>7
  <2> DEFINE f == [p \in V |-> lookupIds[p]]
  <2>2. f \in [V -> visited] /\ \A i \in visited : \E p \in V : f[p] = i
    BY <1>3
  <2>3. \A p, q \in V : f[p] = f[q] => p = q
    <3> SUFFICES ASSUME NEW p \in V, NEW q \in V, p # q PROVE f[p] # f[q]
      OBVIOUS
    <3>1. p \in C /\ q \in C /\ p \in Nat /\ q \in Nat
      BY <1>1, <1>3
    <3>2. p < q \/ q < p
      BY <3>1
    <3> QED
      BY <3>1, <3>2, <1>1
  <2> HIDE DEF f
  <2>4. f \in Injection(V, visited) /\ f \in Surjection(V, visited)
    BY <2>2, <2>3 DEF Injection, IsInjective, Surjection
  <2> QED
    BY <2>1, <2>4, FS_Surjection
<1>8. ASSUME all # {} PROVE LookupFirstId(n) \in visited
  <2>1. C # {}
    BY <1>3, <1>8
  <2>2. Least(C) \in C /\ \A q \in C : Least(C) <= q
    BY <1>1, <2>1, LeastIsLeast
  <2>3. Least(C) \in V
    BY <1>4, <2>2
  <2> QED
    BY <1>3, <2>1, <2>3 DEF LookupFirstId, C
<1> QED
  BY <1>5, <1>6, <1>7, <1>8 DEF visited, all, b

\* A bounded visit returns the smallest ids of the full answer, and the first lookup
\* is among them, for every hash function, table and limit.
THEOREM VisitsArePrefixes == Spec => []VisitIsPrefixOfCandidates
<1>1. Spec => []IndexInv
  BY IndexInvInit, IndexInvStep, PTL DEF Spec
<1>2. IndexInv => VisitIsPrefixOfCandidates
  BY VisitCorrect DEF VisitIsPrefixOfCandidates
<1> QED
  BY <1>1, <1>2, PTL

-----------------------------------------------------------------------------
(* The rebuild ends: what can be said of it without fairness.            *)

\* The iterations that the two loops of rebuild_prefix_table still have to make.
IterationsLeft == (Count - position) + (buckets + 1 - nextPrefix)

RebuildAdvances ==
  pc = "fill" =>
     \/ IterationsLeft' \in Nat /\ IterationsLeft' < IterationsLeft
     \/ IterationsLeft = 0 /\ pc' = "ready"

\* No iteration of rebuild_prefix_table leaves as many to make as before, and it
\* returns only when none is left: with the fairness of FairSpec it ends.
THEOREM RebuildAlwaysAdvances == Spec => [][RebuildAdvances]_vars
<1>1. Spec => []IndexInv
  BY IndexInvInit, IndexInvStep, PTL DEF Spec
<1>2. IndexInv /\ [Next]_vars => [RebuildAdvances]_vars
  <2> SUFFICES ASSUME IndexInv, Next, pc = "fill"
               PROVE  \/ IterationsLeft' \in Nat /\ IterationsLeft' < IterationsLeft
                      \/ IterationsLeft = 0 /\ pc' = "ready"
    BY DEF RebuildAdvances
  <2>1. /\ Count \in Nat /\ position \in 0 .. Count
        /\ buckets \in Nat /\ nextPrefix \in 0 .. buckets + 1
    BY SizeAssumption DEF IndexInv, TypeOK, Count
  <2>2. CASE FillBucket
    <3>1. HashPrefix(lookupHashes[position]) \in 0 .. buckets - 1
      BY <2>1, <2>2, HashPrefixInRange DEF FillBucket, IndexInv, TypeOK, Positions
    <3>2. nextPrefix < buckets
      BY <2>1, <2>2, <3>1 DEF FillBucket
    <3>3. nextPrefix' = nextPrefix + 1 /\ UNCHANGED <<position, buckets, Count>>
      BY <2>2 DEF FillBucket, Count
    <3> QED
      BY <2>1, <3>2, <3>3 DEF IterationsLeft
  <2>3. CASE NextPosition
    <3>1. position < Count /\ position' = position + 1 /\ UNCHANGED <<nextPrefix, buckets, Count>>
      BY <2>3 DEF NextPosition, Count
    <3> QED
      BY <2>1, <3>1 DEF IterationsLeft
  <2>4. CASE FillTail
    <3>1. nextPrefix < buckets + 1 /\ nextPrefix' = nextPrefix + 1 /\ UNCHANGED <<position, buckets, Count>>
      BY <2>4 DEF FillTail, Count
    <3> QED
      BY <2>1, <3>1 DEF IterationsLeft
  <2>5. CASE Serve
    BY <2>1, <2>5 DEF Serve, IterationsLeft
  <2>6. ~ \E n \in Name : PushFile(n)
    BY DEF PushFile
  <2>7. ~PushPastLimit /\ ~InstallSortedLookup /\ ~SaveAndLoad
    BY DEF PushPastLimit, InstallSortedLookup, SaveAndLoad
  <2> QED
    BY <2>2, <2>3, <2>4, <2>5, <2>6, <2>7 DEF Next
<1> QED
  BY <1>1, <1>2, PTL DEF Spec

=============================================================================
