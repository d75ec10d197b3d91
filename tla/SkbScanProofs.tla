---------------------------- MODULE SkbScanProofs ----------------------------
(***************************************************************************)
(* What a scan builds, for every tree, every choice of what can be read    *)
(* and every limit: the paths of the entries read back, a directory is     *)
(* stored once, and a finished scan holds exactly what could be reached.   *)
(***************************************************************************)
EXTENDS SkbScan, TLAPS, FiniteSetTheorems

USE TreeAssumption

-----------------------------------------------------------------------------
(* The string pools.                                                       *)

PoolOK(pool) ==
  /\ pool.size \in 0 .. MaxPool
  /\ \A offset \in DOMAIN pool.at : offset \in Nat /\ offset < pool.size

\* A pushed text starts where the pool ended and moves nothing.
LEMMA PushKeeps ==
  ASSUME NEW pool, PoolOK(pool), NEW t, TextSize[t] \in Nat, Fits(pool, t),
         NEW new, new = PushPoolString(pool, t)
  PROVE  /\ PoolOK(new)
         /\ ValidOffset(new, pool.size) /\ new.at[pool.size] = t
         /\ \A offset \in DOMAIN pool.at :
              /\ offset # pool.size
              /\ ValidOffset(new, offset) /\ new.at[offset] = pool.at[offset]
<1>1. /\ new.size = pool.size + TextSize[t] + 1
      /\ DOMAIN new.at = DOMAIN pool.at \union {pool.size}
      /\ \A o \in DOMAIN new.at : new.at[o] = IF o = pool.size THEN t ELSE pool.at[o]
  BY DEF PushPoolString, Insert
<1>2. pool.size \in Nat /\ new.size \in 0 .. MaxPool /\ pool.size < new.size
  BY <1>1 DEF PoolOK, Fits
<1>3. \A o \in DOMAIN new.at : o \in Nat /\ o < new.size
  BY <1>1, <1>2 DEF PoolOK
<1>4. \A o \in DOMAIN pool.at : o # pool.size
  BY <1>2 DEF PoolOK
<1> QED
  BY <1>1, <1>2, <1>3, <1>4 DEF PoolOK, ValidOffset

-----------------------------------------------------------------------------
(* Sequences.                                                              *)

\* What a sequence holds after an append.
LEMMA RangeAppend ==
  ASSUME NEW S, NEW s \in Seq(S), NEW x \in S
  PROVE  /\ Append(s, x) \in Seq(S)
         /\ Range(Append(s, x)) = Range(s) \union {x}
         /\ NoRepeats(s) /\ x \notin Range(s) => NoRepeats(Append(s, x))
<1> DEFINE t == Append(s, x)
           n == Len(s)
<1>1. /\ n \in Nat /\ DOMAIN s = 1 .. n /\ DOMAIN t = 1 .. n + 1 /\ t \in Seq(S)
      /\ t[n + 1] = x /\ \A i \in 1 .. n : t[i] = s[i]
  OBVIOUS
<1> HIDE DEF t, n
<1>2. Range(t) \subseteq Range(s) \union {x}
  <2> SUFFICES ASSUME NEW i \in 1 .. n + 1 PROVE t[i] \in Range(s) \union {x}
    BY <1>1 DEF Range
  <2>1. i = n + 1 \/ i \in 1 .. n
    BY <1>1
  <2> QED
    BY <2>1, <1>1 DEF Range
<1>3. Range(s) \subseteq Range(t)
  <2> SUFFICES ASSUME NEW i \in 1 .. n PROVE s[i] \in Range(t)
    BY <1>1 DEF Range
  <2>1. i \in 1 .. n + 1 /\ t[i] = s[i]
    BY <1>1
  <2> QED
    BY <2>1, <1>1 DEF Range
<1>4. x \in Range(t)
  BY <1>1 DEF Range
<1>5. ASSUME NoRepeats(s), x \notin Range(s) PROVE NoRepeats(t)
  <2> SUFFICES ASSUME NEW i \in 1 .. n + 1, NEW j \in 1 .. n + 1, i # j
               PROVE  t[i] # t[j]
    BY <1>1 DEF NoRepeats
  <2>1. \A k \in 1 .. n : s[k] # x
    BY <1>1, <1>5 DEF Range
  <2>2. CASE i \in 1 .. n /\ j \in 1 .. n
    BY <1>1, <1>5, <2>2 DEF NoRepeats
  <2>3. CASE i = n + 1 \/ j = n + 1
    <3>1. i \in 1 .. n \/ j \in 1 .. n
      BY <1>1
    <3> QED
      BY <1>1, <2>1, <2>3, <3>1
  <2> QED
    BY <1>1, <2>2, <2>3
<1> QED
  BY <1>1, <1>2, <1>3, <1>4, <1>5 DEF t

\* What a stack without repetitions holds after a pop.
LEMMA RangePop ==
  ASSUME NEW S, NEW s \in Seq(S), s # <<>>, NoRepeats(s)
  PROVE  /\ s[Len(s)] \in Range(s)
         /\ Range(SubSeq(s, 1, Len(s) - 1)) = Range(s) \ {s[Len(s)]}
         /\ NoRepeats(SubSeq(s, 1, Len(s) - 1))
<1> DEFINE n == Len(s)
           t == SubSeq(s, 1, n - 1)
<1>1. /\ n \in Nat /\ n > 0 /\ DOMAIN s = 1 .. n
      /\ DOMAIN t = 1 .. n - 1 /\ \A i \in 1 .. n - 1 : t[i] = s[i]
  OBVIOUS
<1> HIDE DEF t, n
<1>2. s[n] \in Range(s)
  BY <1>1 DEF Range
<1>3. Range(t) \subseteq Range(s) \ {s[n]}
  <2> SUFFICES ASSUME NEW i \in 1 .. n - 1 PROVE t[i] \in Range(s) \ {s[n]}
    BY <1>1 DEF Range
  <2>1. i \in 1 .. n /\ n \in 1 .. n /\ i # n /\ t[i] = s[i]
    BY <1>1
  <2> QED
    BY <2>1, <1>1 DEF Range, NoRepeats
<1>4. Range(s) \ {s[n]} \subseteq Range(t)
  <2> SUFFICES ASSUME NEW i \in 1 .. n, s[i] # s[n] PROVE s[i] \in Range(t)
    BY <1>1 DEF Range
  <2>1. i \in 1 .. n - 1
    BY <1>1
  <2> QED
    BY <2>1, <1>1 DEF Range
<1>5. NoRepeats(t)
  BY <1>1 DEF NoRepeats
<1> QED
  BY <1>2, <1>3, <1>4, <1>5 DEF t, n

-----------------------------------------------------------------------------
(* The inductive invariant: the walk, the interned directories, and the    *)
(* entries.                                                                *)

Walk ==
  /\ pc \in {"pop", "children", "done", "failed"}
  /\ stack \in Seq(Dir) /\ dir \in Dir
  /\ pending \subseteq Children[dir] /\ (pc = "pop" => pending = {})
  /\ skipped \subseteq Node /\ unread \subseteq Dir

DirText(i) == dirPool.at[dirOffsets[i]]

\* dir_ids and dir_offsets are inverse to each other.
Directories ==
  /\ PoolOK(dirPool)
  /\ dirOffsets \in Seq(Nat) /\ Len(dirOffsets) <= MaxDirs
  /\ \A t \in DOMAIN dirIds :
       /\ dirIds[t] \in Nat /\ dirIds[t] < Len(dirOffsets)
       /\ DirText(dirIds[t] + 1) = t
  /\ \A i \in 1 .. Len(dirOffsets) :
       /\ dirOffsets[i] \in DOMAIN dirPool.at
       /\ DirText(i) \in DOMAIN dirIds /\ dirIds[DirText(i)] = i - 1

Resolves(e, x) ==
  /\ ValidOffset(namePool, e.nameOffset)
  /\ namePool.at[e.nameOffset] = Text[x]
  /\ e.parentId \in Nat /\ e.parentId < Len(dirOffsets)
  /\ DirText(e.parentId + 1) = Text[Parent(x)]

Entries ==
  /\ PoolOK(namePool)
  /\ entries \in Seq([nameOffset : Nat, parentId : Nat]) /\ Len(entries) <= MaxFiles
  /\ indexed \in Seq(Node) /\ Len(indexed) = Len(entries)
  /\ \A i \in 1 .. Len(entries) : Resolves(entries[i], indexed[i])
  /\ DOMAIN dirIds = {Text[Parent(x)] : x \in Range(indexed)}

IInv == Walk /\ Directories /\ Entries

LEMMA InitInv == Init => IInv
<1> SUFFICES ASSUME Init
             PROVE  IInv
  OBVIOUS
<1>1. PoolOK(namePool) /\ PoolOK(dirPool)
  BY DEF Init, EmptyPool, PoolOK
<1>2. Walk
  BY DEF Init, Walk, Dir
<1>3. Directories
  BY <1>1 DEF Init, Directories
<1>4. Range(indexed) = {} /\ DOMAIN dirIds = {}
  BY DEF Init, Range
<1>5. Entries
  BY <1>1, <1>4 DEF Init, Entries
<1> QED
  BY <1>2, <1>3, <1>5 DEF IInv

-----------------------------------------------------------------------------
(* The walk.                                                               *)

LEMMA WalkStep ==
  ASSUME Walk, [Next]_vars
  PROVE  Walk'
<1> USE DEF Walk, walk
<1>1. CASE UNCHANGED vars
  BY <1>1 DEF vars
<1>2. ASSUME stack # <<>>
      PROVE  Top \in Dir /\ Popped \in Seq(Dir)
  BY <1>2 DEF Top, Popped
<1>3. CASE OpenDirectory \/ SkipDirectory
  <2>1. CASE OpenDirectory
    BY <1>2, <2>1 DEF OpenDirectory
  <2>2. CASE SkipDirectory
    BY <1>2, <2>2 DEF SkipDirectory
  <2> QED
    BY <1>3, <2>1, <2>2
<1>4. ASSUME NEW x \in pending, SkipChild(x) \/ PassOther(x) \/ IndexFile(x)
      PROVE  Walk'
  BY <1>4 DEF SkipChild, PassOther, IndexFile, Dir
<1>5. ASSUME NEW x \in pending, PushDirectory(x)
      PROVE  Walk'
  BY <1>5 DEF PushDirectory, Dir
<1>6. ASSUME NEW x \in pending, GiveUp(x)
      PROVE  Walk'
  BY <1>6 DEF GiveUp
<1>7. CASE FinishDirectory \/ Finish
  BY <1>7 DEF FinishDirectory, Finish
<1> QED
  BY <1>1, <1>3, <1>4, <1>5, <1>6, <1>7 DEF Next

-----------------------------------------------------------------------------
(* IndexFile: its directory, then its entry.                               *)

\* intern_directory keeps the ids that were given, and gives the text one.
LEMMA InternKeeps ==
  ASSUME Directories, NEW t, TextSize[t] \in Nat, CanIntern(t), InternDirectory(t)
  PROVE  /\ Directories'
         /\ DOMAIN dirIds' = DOMAIN dirIds \union {t}
         /\ Len(dirOffsets) <= Len(dirOffsets')
         /\ \A i \in 1 .. Len(dirOffsets) : DirText(i)' = DirText(i)
<1>1. CASE Interned(t)
  <2>1. UNCHANGED <<dirPool, dirOffsets, dirIds>> /\ t \in DOMAIN dirIds
    BY <1>1 DEF InternDirectory, Interned
  <2>2. Directories'
    <3> SUFFICES ASSUME UNCHANGED <<dirPool, dirOffsets, dirIds>>
                 PROVE  Directories'
      BY <2>1
    <3> QED
      BY DEF Directories, DirText, PoolOK
  <2>3. Len(dirOffsets) \in Nat /\ Len(dirOffsets') = Len(dirOffsets)
    BY <2>1 DEF Directories
  <2>4. \A i \in 1 .. Len(dirOffsets) : DirText(i)' = DirText(i)
    BY <2>1 DEF DirText
  <2>5. DOMAIN dirIds' = DOMAIN dirIds \union {t}
    BY <2>1
  <2> QED
    BY <2>2, <2>3, <2>4, <2>5
<1>2. CASE ~Interned(t)
  <2> DEFINE n == Len(dirOffsets)
  <2>1. /\ t \notin DOMAIN dirIds /\ Fits(dirPool, t) /\ n < MaxDirs
        /\ dirOffsets' = Append(dirOffsets, dirPool.size)
        /\ dirIds' = Insert(dirIds, t, n)
        /\ dirPool' = PushPoolString(dirPool, t)
    BY <1>2 DEF InternDirectory, Interned, CanIntern
  <2>2. /\ PoolOK(dirPool')
        /\ dirPool.size \in DOMAIN dirPool'.at /\ dirPool'.at[dirPool.size] = t
        /\ \A offset \in DOMAIN dirPool.at :
             offset \in DOMAIN dirPool'.at /\ dirPool'.at[offset] = dirPool.at[offset]
    BY <2>1, PushKeeps DEF Directories, ValidOffset
  <2>3. /\ n \in Nat /\ dirPool.size \in Nat
        /\ dirOffsets' \in Seq(Nat) /\ Len(dirOffsets') = n + 1
        /\ dirOffsets'[n + 1] = dirPool.size
        /\ \A i \in 1 .. n : dirOffsets'[i] = dirOffsets[i]
    BY <2>1 DEF Directories, PoolOK
  <2>4. /\ DOMAIN dirIds' = DOMAIN dirIds \union {t}
        /\ dirIds'[t] = n
        /\ \A u \in DOMAIN dirIds : dirIds'[u] = dirIds[u]
    BY <2>1 DEF Insert
  <2> DEFINE newText(i) == dirPool'.at[dirOffsets'[i]]
  <2>5. newText(n + 1) = t
    BY <2>2, <2>3 DEF DirText
  <2>6. \A i \in 1 .. n : dirOffsets'[i] \in DOMAIN dirPool'.at /\ newText(i) = DirText(i)
    BY <2>2, <2>3 DEF DirText, Directories
  <2>7. \A u \in DOMAIN dirIds' :
          /\ dirIds'[u] \in Nat /\ dirIds'[u] < n + 1
          /\ newText(dirIds'[u] + 1) = u
    <3> SUFFICES ASSUME NEW u \in DOMAIN dirIds'
                 PROVE  /\ dirIds'[u] \in Nat /\ dirIds'[u] < n + 1
                        /\ newText(dirIds'[u] + 1) = u
      OBVIOUS
    <3>1. CASE u = t
      BY <2>3, <2>4, <2>5, <3>1
    <3>2. CASE u # t
      <4>1. u \in DOMAIN dirIds /\ dirIds'[u] = dirIds[u]
        BY <2>4, <3>2
      <4>2. dirIds[u] \in Nat /\ dirIds[u] < n /\ DirText(dirIds[u] + 1) = u
        BY <4>1 DEF Directories
      <4>3. dirIds[u] + 1 \in 1 .. n
        BY <2>3, <4>2
      <4> QED
        BY <2>3, <2>6, <4>1, <4>2, <4>3
    <3> QED
      BY <3>1, <3>2
  <2>8. \A i \in 1 .. n + 1 :
          /\ dirOffsets'[i] \in DOMAIN dirPool'.at
          /\ newText(i) \in DOMAIN dirIds' /\ dirIds'[newText(i)] = i - 1
    <3> SUFFICES ASSUME NEW i \in 1 .. n + 1
                 PROVE  /\ dirOffsets'[i] \in DOMAIN dirPool'.at
                        /\ newText(i) \in DOMAIN dirIds' /\ dirIds'[newText(i)] = i - 1
      OBVIOUS
    <3>1. CASE i = n + 1
      BY <2>2, <2>3, <2>4, <2>5, <3>1
    <3>2. CASE i \in 1 .. n
      BY <2>4, <2>6, <3>2 DEF Directories
    <3> QED
      BY <2>3, <3>1, <3>2
  <2>9. Len(dirOffsets') <= MaxDirs
    BY <2>1, <2>3
  <2>10. \A i \in 1 .. n : DirText(i)' = DirText(i)
    BY <2>6 DEF DirText
  <2> HIDE DEF n
  <2>11. Directories'
    BY <2>2, <2>3, <2>7, <2>8, <2>9 DEF Directories, DirText
  <2> QED
    BY <2>3, <2>4, <2>10, <2>11 DEF n
<1> QED
  BY <1>1, <1>2

LEMMA ParentIsDir ==
  ASSUME Walk, NEW x \in pending
  PROVE  x \in Node /\ Parent(x) = dir
<1>1. dir \in Dir /\ x \in Children[dir]
  BY DEF Walk
<1>2. \A d \in Dir : x \in Children[d] => d = dir
  BY <1>1
<1> QED
  BY <1>1, <1>2 DEF Parent, Dir

LEMMA IndexFileStep ==
  ASSUME IInv, NEW x \in pending, IndexFile(x)
  PROVE  Directories' /\ Entries'
<1> DEFINE t == Text[dir]
           n == Len(entries)
           e == [nameOffset |-> namePool.size, parentId |-> dirIds'[t]]
<1>1. /\ InternDirectory(t) /\ CanIntern(t) /\ Fits(namePool, Text[x]) /\ n < MaxFiles
      /\ namePool' = PushPoolString(namePool, Text[x])
      /\ entries' = Append(entries, e) /\ indexed' = Append(indexed, x)
  BY DEF IndexFile, HasRoom
<1>2. x \in Node /\ Parent(x) = dir /\ dir \in Node
  BY ParentIsDir DEF IInv, Walk, Dir
<1>3. TextSize[t] \in Nat /\ TextSize[Text[x]] \in Nat
  BY <1>2
<1>4. /\ Directories'
      /\ DOMAIN dirIds' = DOMAIN dirIds \union {t}
      /\ Len(dirOffsets) <= Len(dirOffsets')
      /\ \A i \in 1 .. Len(dirOffsets) : DirText(i)' = DirText(i)
  BY <1>1, <1>3, InternKeeps DEF IInv
<1>5. /\ PoolOK(namePool')
      /\ ValidOffset(namePool', namePool.size) /\ namePool'.at[namePool.size] = Text[x]
      /\ \A offset \in DOMAIN namePool.at :
           ValidOffset(namePool', offset) /\ namePool'.at[offset] = namePool.at[offset]
  BY <1>1, <1>3, PushKeeps DEF IInv, Entries
<1>6. /\ dirIds'[t] \in Nat /\ dirIds'[t] < Len(dirOffsets')
      /\ dirPool'.at[dirOffsets'[dirIds'[t] + 1]] = t
  BY <1>4 DEF Directories, DirText
<1>7. namePool.size \in Nat
  BY DEF IInv, Entries, PoolOK
<1>8. e \in [nameOffset : Nat, parentId : Nat]
  BY <1>6, <1>7
<1> HIDE DEF e, t
<1>9. /\ entries \in Seq([nameOffset : Nat, parentId : Nat]) /\ indexed \in Seq(Node)
      /\ n \in Nat /\ Len(indexed) = n
  BY DEF IInv, Entries
<1>10. /\ entries' \in Seq([nameOffset : Nat, parentId : Nat]) /\ indexed' \in Seq(Node)
       /\ Len(entries') = n + 1 /\ Len(indexed') = n + 1
       /\ entries'[n + 1] = e /\ indexed'[n + 1] = x
       /\ \A i \in 1 .. n : entries'[i] = entries[i] /\ indexed'[i] = indexed[i]
  BY <1>1, <1>2, <1>8, <1>9
<1>11. \A i \in 1 .. n + 1 : Resolves(entries[i], indexed[i])'
  <2> SUFFICES ASSUME NEW i \in 1 .. n + 1
               PROVE  Resolves(entries[i], indexed[i])'
    OBVIOUS
  <2>1. CASE i = n + 1
    BY <1>2, <1>5, <1>6, <1>10, <2>1 DEF Resolves, DirText, e, t
  <2>2. CASE i \in 1 .. n
    <3>1. Resolves(entries[i], indexed[i])
      BY <2>2 DEF IInv, Entries
    <3>2. entries'[i] = entries[i] /\ indexed'[i] = indexed[i]
      BY <1>10, <2>2
    <3>3. entries[i].parentId + 1 \in 1 .. Len(dirOffsets)
      BY <3>1 DEF Resolves, IInv, Directories
    <3>4. entries[i].nameOffset \in DOMAIN namePool.at
      BY <3>1 DEF Resolves, ValidOffset
    <3>5. Len(dirOffsets) \in Nat /\ Len(dirOffsets') \in Nat
      BY <1>4 DEF IInv, Directories
    <3> QED
      BY <1>4, <1>5, <3>1, <3>2, <3>3, <3>4, <3>5 DEF Resolves, DirText
  <2> QED
    BY <1>9, <2>1, <2>2
<1>12. Range(indexed') = Range(indexed) \union {x}
  BY <1>1, <1>2, <1>9, RangeAppend
<1>13. DOMAIN dirIds' = {Text[Parent(y)] : y \in Range(indexed')}
  BY <1>2, <1>4, <1>12 DEF IInv, Entries, t
<1>14. Entries'
  BY <1>1, <1>5, <1>9, <1>10, <1>11, <1>13 DEF Entries
<1> QED
  BY <1>4, <1>14

LEMMA InvStep == IInv /\ [Next]_vars => IInv'
<1> SUFFICES ASSUME IInv, [Next]_vars
             PROVE  IInv'
  OBVIOUS
<1>1. Walk'
  BY WalkStep DEF IInv
<1>2. ASSUME NEW x \in pending, IndexFile(x)
      PROVE  Directories' /\ Entries'
  BY <1>2, IndexFileStep
<1>3. UNCHANGED built \/ \E x \in pending : IndexFile(x)
  BY DEF Next, vars, built, OpenDirectory, SkipDirectory, SkipChild, PushDirectory,
     PassOther, GiveUp, FinishDirectory, Finish
<1>4. CASE UNCHANGED built
  <2>1. UNCHANGED <<entries, namePool, dirPool, dirOffsets, dirIds, indexed>>
    BY <1>4 DEF built
  <2>2. Directories'
    BY <2>1 DEF IInv, Directories, DirText, PoolOK
  <2>3. PoolOK(namePool)' /\ \A i \in 1 .. Len(entries) : Resolves(entries[i], indexed[i])'
    BY <2>1 DEF IInv, Entries, Resolves, DirText, PoolOK, ValidOffset
  <2>4. Entries'
    BY <2>1, <2>3 DEF IInv, Entries, Range
  <2> QED
    BY <1>1, <2>2, <2>4 DEF IInv
<1> QED
  BY <1>1, <1>2, <1>3, <1>4 DEF IInv

LEMMA Invariant == Spec => []IInv
BY InitInv, InvStep, PTL DEF Spec

-----------------------------------------------------------------------------
(* What the walk reaches.                                                  *)

Waiting == Range(stack)
Opened == Range(opened)
Indexed == Range(indexed)
Met == Waiting \union Opened \union pending \union Indexed

\* Nothing is met twice.
MetOnce ==
  /\ opened \in Seq(Dir) /\ indexed \in Seq(File)
  /\ NoRepeats(stack) /\ NoRepeats(opened) /\ NoRepeats(indexed)
  /\ Waiting \cap Opened = {} /\ unread \subseteq Opened
  /\ pending \cap (Waiting \union Opened \union Indexed) = {}
  /\ skipped \cap Met = {}

\* Everything met or skipped was listed by a directory that could be read, and
\* what such a directory lists is met, skipped or of no interest.
Listed ==
  /\ Root \in Waiting \union Opened
  /\ \A x \in Met \union skipped : x = Root \/ \E d \in Opened \ unread : x \in Children[d]
  /\ \A d \in Opened \ unread : \A x \in Children[d] :
        x \in Met \union skipped \/ Kind[x] \notin {"dir", "file"}

\* C is closed under what has been listed so far.
ClosedSoFar(C) ==
  Root \in C /\ \A d \in (C \cap Opened) \ unread : (Children[d] \cap Dir) \ skipped \subseteq C

\* No directory is met that the scan need not open.
OnlyReachable == \A C \in SUBSET Node : ClosedSoFar(C) => Waiting \union Opened \subseteq C

Reach == MetOnce /\ Listed /\ OnlyReachable

\* The scan begins with the root on its stack.
LEMMA InitReach == Init => Reach
<1> SUFFICES ASSUME Init PROVE Reach
  OBVIOUS
<1>1. Waiting = {Root} /\ Opened = {} /\ Indexed = {} /\ NoRepeats(stack)
  BY DEF Init, Waiting, Opened, Indexed, Range, NoRepeats
<1>2. NoRepeats(opened) /\ NoRepeats(indexed) /\ opened \in Seq(Dir) /\ indexed \in Seq(File)
  BY DEF Init, NoRepeats
<1>3. pending = {} /\ skipped = {} /\ unread = {}
  BY DEF Init
<1> QED
  BY <1>1, <1>2, <1>3 DEF Reach, MetOnce, Listed, OnlyReachable, ClosedSoFar, Met

\* What opening the top of the stack does to the sets.
LEMMA PopMoves ==
  ASSUME Walk, MetOnce, OpenDirectory \/ SkipDirectory
  PROVE  /\ Top \in Dir /\ Top \in Waiting /\ Waiting' = Waiting \ {Top}
         /\ Opened' = Opened \union {Top} /\ pending = {}
         /\ NoRepeats(stack') /\ NoRepeats(opened') /\ opened' \in Seq(Dir)
         /\ UNCHANGED <<indexed, Indexed, skipped>>
<1>1. /\ stack # <<>> /\ stack \in Seq(Dir) /\ stack' = Popped /\ opened' = Append(opened, Top)
      /\ UNCHANGED <<indexed, skipped>> /\ pending = {}
  BY DEF OpenDirectory, SkipDirectory, Walk, built
<1>2. /\ Top \in Waiting /\ Waiting' = Waiting \ {Top} /\ NoRepeats(stack')
  BY <1>1, RangePop DEF MetOnce, Waiting, Top, Popped
<1>3. Top \in Dir
  BY <1>1 DEF Top
<1>4. Top \notin Opened
  BY <1>2 DEF MetOnce
<1>5. /\ opened' \in Seq(Dir) /\ Opened' = Opened \union {Top} /\ NoRepeats(opened')
  BY <1>1, <1>3, <1>4, RangeAppend DEF MetOnce, Opened
<1> QED
  BY <1>1, <1>2, <1>3, <1>5 DEF Indexed

\* The children of a directory that was never opened have not been met.
LEMMA ChildrenAreNew ==
  ASSUME Walk, MetOnce, Listed, NEW d \in Waiting
  PROVE  d \in Dir /\ d \notin Opened /\ Children[d] \cap (Waiting \union Opened \union Indexed \union skipped) = {}
<1>1. d \in Dir /\ d \notin Opened /\ Opened \subseteq Dir
  <2>1. stack \in Seq(Dir) /\ opened \in Seq(Dir)
    BY DEF Walk, MetOnce
  <2>2. Waiting \subseteq Dir
    BY <2>1 DEF Waiting, Range
  <2>3. Opened \subseteq Dir
    BY <2>1 DEF Opened, Range
  <2>4. Waiting \cap Opened = {}
    BY DEF MetOnce
  <2> QED
    BY <2>2, <2>3, <2>4
<1> SUFFICES ASSUME NEW x \in Children[d], x \in Waiting \union Opened \union Indexed \union skipped
             PROVE  FALSE
  BY <1>1
<1>2. x # Root
  BY <1>1
<1>3. PICK e \in Opened \ unread : x \in Children[e]
  BY <1>2 DEF Listed, Met
<1>4. e = d
  BY <1>1, <1>3
<1> QED
  BY <1>1, <1>3, <1>4

\* A directory that can be listed makes its children pending.
LEMMA OpenReach ==
  ASSUME Walk, Reach, OpenDirectory
  PROVE  Reach'
<1> USE DEF Reach
<1>1. /\ Top \in Dir /\ Top \in Waiting /\ Waiting' = Waiting \ {Top}
      /\ Opened' = Opened \union {Top} /\ pending = {}
      /\ NoRepeats(stack') /\ NoRepeats(opened') /\ opened' \in Seq(Dir)
      /\ UNCHANGED <<indexed, Indexed, skipped>>
  BY PopMoves
<1>2. pending' = Children[Top] /\ UNCHANGED unread
  BY DEF OpenDirectory
<1>3. Top \notin Opened /\ Children[Top] \cap (Waiting \union Opened \union Indexed \union skipped) = {}
  BY <1>1, ChildrenAreNew
<1>4. MetOnce'
  BY <1>1, <1>2, <1>3 DEF MetOnce, Met
<1>5. Top \notin unread
  BY <1>3 DEF MetOnce
<1>6. Listed'
  <2>1. (Root \in Waiting \union Opened)'
    BY <1>1 DEF Listed
  <2>2. (\A x \in Met \union skipped : x = Root \/ \E d \in Opened \ unread : x \in Children[d])'
    BY <1>1, <1>2, <1>5 DEF Listed, Met
  <2>3. (\A d \in Opened \ unread : \A x \in Children[d] :
           x \in Met \union skipped \/ Kind[x] \notin {"dir", "file"})'
    BY <1>1, <1>2 DEF Listed, Met
  <2> QED
    BY <2>1, <2>2, <2>3 DEF Listed
<1>7. OnlyReachable'
  <2>1. ASSUME NEW C \in SUBSET Node, ClosedSoFar(C)' PROVE ClosedSoFar(C)
    BY <1>1, <1>2, <2>1 DEF ClosedSoFar
  <2> QED
    BY <1>1, <2>1 DEF OnlyReachable
<1> QED
  BY <1>4, <1>6, <1>7

\* A directory that cannot be listed leads nowhere.
LEMMA SkipReach ==
  ASSUME Walk, Reach, SkipDirectory
  PROVE  Reach'
<1> USE DEF Reach
<1>1. /\ Top \in Dir /\ Top \in Waiting /\ Waiting' = Waiting \ {Top}
      /\ Opened' = Opened \union {Top} /\ pending = {}
      /\ NoRepeats(stack') /\ NoRepeats(opened') /\ opened' \in Seq(Dir)
      /\ UNCHANGED <<indexed, Indexed, skipped>>
  BY PopMoves
<1>2. pending' = {} /\ unread' = unread \union {Top}
  BY <1>1 DEF SkipDirectory
<1>3. Top \notin Opened
  BY <1>1 DEF MetOnce
<1>4. Opened' \ unread' = Opened \ unread /\ Met' = Met
  BY <1>1, <1>2, <1>3 DEF Met
<1>5. MetOnce'
  BY <1>1, <1>2, <1>4 DEF MetOnce
<1>6. Listed'
  BY <1>1, <1>4 DEF Listed
<1>7. OnlyReachable'
  BY <1>1, <1>2, <1>3 DEF OnlyReachable, ClosedSoFar
<1> QED
  BY <1>5, <1>6, <1>7

\* A child that is passed over leads nowhere: apply the invariant to the closed set
\* with it.
LEMMA SkipChildReach ==
  ASSUME Walk, Reach, NEW x \in pending, SkipChild(x)
  PROVE  Reach'
<1> USE DEF Reach
<1>1. pending' = pending \ {x} /\ skipped' = skipped \union {x} /\ UNCHANGED <<stack, opened, unread, indexed>>
  BY DEF SkipChild, built
<1>2. UNCHANGED <<Waiting, Opened, Indexed>>
  BY <1>1 DEF Waiting, Opened, Indexed
<1>3. MetOnce'
  <2>1. Met' = Met \ {x}
    BY <1>1, <1>2 DEF Met, MetOnce
  <2> QED
    BY <1>1, <1>2, <2>1 DEF MetOnce
<1>4. (Met \union skipped)' = Met \union skipped
  BY <1>1, <1>2 DEF Met
<1>5. Listed'
  BY <1>1, <1>2, <1>4 DEF Listed
<1>6. OnlyReachable'
  <2> SUFFICES ASSUME NEW C \in SUBSET Node, ClosedSoFar(C)'
               PROVE  Waiting \union Opened \subseteq C
    BY <1>2 DEF OnlyReachable
  <2>1. x \in Node /\ x \notin Waiting \union Opened
    BY DEF Walk, MetOnce, Dir
  <2>2. ClosedSoFar(C \union {x})
    <3> SUFFICES ASSUME NEW e \in ((C \union {x}) \cap Opened) \ unread
                 PROVE  (Children[e] \cap Dir) \ skipped \subseteq C \union {x}
      BY <1>1 DEF ClosedSoFar
    <3>1. e \in ((C \cap Opened) \ unread)'
      BY <1>1, <1>2, <2>1
    <3> QED
      BY <3>1, <1>1, <1>2 DEF ClosedSoFar
  <2>3. Waiting \union Opened \subseteq C \union {x}
    BY <2>1, <2>2 DEF OnlyReachable
  <2> QED
    BY <2>1, <2>3
<1> QED
  BY <1>3, <1>5, <1>6

\* A child that is taken goes where it belongs.
LEMMA TakeReach ==
  ASSUME IInv, Reach, NEW x \in pending, PushDirectory(x) \/ PassOther(x) \/ IndexFile(x)
  PROVE  Reach'
<1> USE DEF Reach
<1>0. x \notin Waiting /\ x \notin Opened /\ x \notin Indexed /\ x \notin skipped /\ x \in Node
  BY DEF MetOnce, Met, IInv, Walk, Dir
<1>1. pending' = pending \ {x} /\ UNCHANGED <<opened, unread, skipped, Opened>>
  BY DEF PushDirectory, PassOther, IndexFile, Opened
<1>2. /\ x \in Waiting' \union Indexed' \/ Kind[x] = "other"
      /\ Waiting' \subseteq Waiting \union (IF x \in Dir THEN {x} ELSE {}) /\ Waiting \subseteq Waiting'
      /\ Indexed' \subseteq Indexed \union {x} /\ Indexed \subseteq Indexed'
      /\ NoRepeats(stack') /\ NoRepeats(indexed') /\ indexed' \in Seq(File)
  <2>1. CASE PushDirectory(x)
    <3>1. stack' = Append(stack, x) /\ x \in Dir /\ UNCHANGED indexed /\ stack \in Seq(Dir)
      BY <2>1, <1>0 DEF PushDirectory, built, Dir, IInv, Walk
    <3>2. Waiting' = Waiting \union {x} /\ NoRepeats(stack')
      BY <3>1, <1>0, RangeAppend DEF MetOnce, Waiting
    <3> QED
      BY <3>1, <3>2 DEF MetOnce, Indexed
  <2>2. CASE PassOther(x)
    BY <2>2 DEF PassOther, built, MetOnce, Waiting, Indexed
  <2>3. CASE IndexFile(x)
    <3>1. indexed' = Append(indexed, x) /\ x \in File /\ UNCHANGED stack
      BY <2>3, <1>0 DEF IndexFile, File
    <3>2. Indexed' = Indexed \union {x} /\ NoRepeats(indexed') /\ indexed' \in Seq(File)
      BY <3>1, <1>0, RangeAppend DEF MetOnce, Indexed
    <3> QED
      BY <3>1, <3>2 DEF MetOnce, Waiting
  <2> QED
    BY <2>1, <2>2, <2>3
<1>3. Met' \subseteq Met /\ Met \subseteq Met' \union {x}
  BY <1>1, <1>2 DEF Met
<1>4. MetOnce'
  BY <1>0, <1>1, <1>2, <1>3 DEF MetOnce
<1>5. Listed'
  <2>1. (Root \in Waiting \union Opened)'
    BY <1>1, <1>2 DEF Listed
  <2>2. (\A y \in Met \union skipped : y = Root \/ \E d \in Opened \ unread : y \in Children[d])'
    BY <1>1, <1>3 DEF Listed
  <2>3. x \in Met' \/ Kind[x] \notin {"dir", "file"}
    BY <1>2 DEF Met
  <2>4. (\A d \in Opened \ unread : \A y \in Children[d] :
           y \in Met \union skipped \/ Kind[y] \notin {"dir", "file"})'
    BY <1>1, <1>3, <2>3 DEF Listed
  <2> QED
    BY <2>1, <2>2, <2>4 DEF Listed
<1>6. OnlyReachable'
  <2>1. PICK d \in Opened \ unread : x \in Children[d]
    <3>1. x # Root
      BY <1>0 DEF Listed
    <3> QED
      BY <3>1 DEF Listed, Met
  <2> SUFFICES ASSUME NEW C \in SUBSET Node, ClosedSoFar(C)
               PROVE  Waiting' \union Opened \subseteq C
    BY <1>1 DEF OnlyReachable, ClosedSoFar
  <2>2. Waiting \union Opened \subseteq C
    BY DEF OnlyReachable
  <2>3. x \in Dir => x \in C
    BY <1>0, <2>1, <2>2 DEF ClosedSoFar
  <2> QED
    BY <1>2, <2>2, <2>3
<1> QED
  BY <1>4, <1>5, <1>6

\* Each step keeps account of what the walk has met.
LEMMA NextReach == IInv /\ Reach /\ [Next]_vars => Reach'
<1> SUFFICES ASSUME IInv, Reach, [Next]_vars PROVE Reach'
  OBVIOUS
<1>1. ASSUME UNCHANGED <<stack, pending, opened, indexed, unread, skipped>> PROVE Reach'
  <2>1. UNCHANGED <<Waiting, Opened, Indexed, Met>>
    BY <1>1 DEF Waiting, Opened, Indexed, Met
  <2>2. MetOnce'
    BY <1>1, <2>1 DEF Reach, MetOnce, NoRepeats
  <2>3. Listed' /\ OnlyReachable'
    BY <1>1, <2>1 DEF Reach, Listed, OnlyReachable, ClosedSoFar
  <2> QED
    BY <2>2, <2>3 DEF Reach
<1>2. CASE OpenDirectory
  BY <1>2, OpenReach DEF IInv
<1>3. CASE SkipDirectory
  BY <1>3, SkipReach DEF IInv
<1>4. ASSUME NEW x \in pending, SkipChild(x) PROVE Reach'
  BY <1>4, SkipChildReach DEF IInv
<1>5. ASSUME NEW x \in pending, PushDirectory(x) \/ PassOther(x) \/ IndexFile(x) PROVE Reach'
  BY <1>5, TakeReach
<1>6. ASSUME NEW x \in pending, GiveUp(x) PROVE Reach'
  BY <1>1, <1>6 DEF GiveUp, walk, built
<1>7. CASE FinishDirectory \/ Finish \/ UNCHANGED vars
  BY <1>1, <1>7 DEF FinishDirectory, Finish, walk, built, vars
<1> QED
  BY <1>2, <1>3, <1>4, <1>5, <1>6, <1>7 DEF Next

\* A scan whose stack is empty has indexed and opened what can be reached.
LEMMA EmptyStackIsExact ==
  ASSUME Walk, Reach, pc = "pop", stack = <<>>
  PROVE  Indexed = ReachableFiles /\ Opened = ReachableDirs
<1> USE DEF Reach
<1>0. /\ Waiting = {} /\ pending = {} /\ Opened \subseteq Dir /\ Indexed \subseteq File
      /\ Dir \cap File = {} /\ Dir \subseteq Node
  BY DEF Walk, MetOnce, Waiting, Opened, Indexed, Range, Dir, File
<1>1. Opened \subseteq ReachableDirs
  <2> SUFFICES ASSUME NEW d \in Opened, NEW C \in SUBSET Dir, Closed(C)
               PROVE  d \in C
    BY <1>0 DEF ReachableDirs
  <2>1. ClosedSoFar(C) /\ C \in SUBSET Node
    BY <1>0 DEF ClosedSoFar, Closed
  <2> QED
    BY <2>1 DEF OnlyReachable
<1>2. ReachableDirs \subseteq Opened
  <2>1. Closed(Opened)
    <3> SUFFICES ASSUME NEW d \in Opened \ unread, NEW x \in (Children[d] \cap Dir) \ skipped
                 PROVE  x \in Opened
      BY <1>0 DEF Closed, Listed
    <3>1. x \in Met
      BY DEF Listed, Dir
    <3> QED
      BY <1>0, <3>1 DEF Met
  <2> QED
    BY <1>0, <2>1 DEF ReachableDirs
<1>3. Indexed \subseteq ReachableFiles
  <2> SUFFICES ASSUME NEW x \in Indexed PROVE x \in ReachableFiles
    OBVIOUS
  <2>1. x # Root /\ x \notin skipped /\ x \in Met
    BY <1>0 DEF MetOnce, Met
  <2>2. PICK d \in Opened \ unread : x \in Children[d]
    BY <2>1 DEF Listed
  <2> QED
    BY <1>0, <1>1, <2>1, <2>2 DEF ReachableFiles
<1>4. ReachableFiles \subseteq Indexed
  <2> SUFFICES ASSUME NEW d \in ReachableDirs \ unread, NEW x \in (Children[d] \cap File) \ skipped
               PROVE  x \in Indexed
    BY DEF ReachableFiles
  <2>1. x \in Met
    BY <1>2 DEF Listed, File
  <2> QED
    BY <1>0, <2>1 DEF Met
<1> QED
  BY <1>1, <1>2, <1>3, <1>4

-----------------------------------------------------------------------------
(* The theorems.                                                           *)

\* The scan keeps its shape and never exceeds a limit of the format.
THEOREM TypeCorrect == Spec => []TypeOK
<1>1. IInv => TypeOK
  BY DEF IInv, Walk, Directories, Entries, PoolOK, TypeOK, Dir
<1> QED
  BY <1>1, Invariant, PTL

\* At every moment every entry reads back as the name of its file and the text
\* of the directory that holds it, and load accepts it.
THEOREM PathsAlwaysResolve == Spec => []PathsResolve
<1>1. IInv => PathsResolve
  <2> SUFFICES ASSUME IInv, NEW i \in DOMAIN entries
               PROVE  LET e == entries[i] IN
                      /\ ValidOffset(namePool, e.nameOffset)
                      /\ namePool.at[e.nameOffset] = Text[indexed[i]]
                      /\ e.parentId < Len(dirOffsets)
                      /\ ValidOffset(dirPool, dirOffsets[e.parentId + 1])
                      /\ dirPool.at[dirOffsets[e.parentId + 1]] = Text[Parent(indexed[i])]
    BY DEF PathsResolve
  <2>1. Resolves(entries[i], indexed[i])
    BY DEF IInv, Entries
  <2>2. entries[i].parentId + 1 \in 1 .. Len(dirOffsets)
    BY <2>1 DEF Resolves, IInv, Directories
  <2>3. ValidOffset(dirPool, dirOffsets[entries[i].parentId + 1])
    BY <2>2 DEF IInv, Directories, PoolOK, ValidOffset
  <2> QED
    BY <2>1, <2>3 DEF Resolves, DirText
<1> QED
  BY <1>1, Invariant, PTL

\* No directory text is stored twice, and none without a file in it.
THEOREM DirectoriesAreInternedOnce == Spec => []DirectoriesInternedOnce
<1>1. IInv => DirectoriesInternedOnce
  <2> SUFFICES ASSUME IInv
               PROVE  DirectoriesInternedOnce
    OBVIOUS
  <2> DEFINE texts == [i \in DOMAIN dirOffsets |-> DirText(i)]
  <2>1. DOMAIN dirOffsets = 1 .. Len(dirOffsets) /\ Len(dirOffsets) \in Nat
    BY DEF IInv, Directories
  <2>2. NoRepeats(texts)
    BY <2>1 DEF IInv, Directories, NoRepeats
  <2>3. Range(texts) = DOMAIN dirIds
    <3>1. Range(texts) \subseteq DOMAIN dirIds
      BY <2>1 DEF IInv, Directories, Range
    <3>2. ASSUME NEW t \in DOMAIN dirIds
          PROVE  t \in Range(texts)
      <4>1. dirIds[t] + 1 \in DOMAIN dirOffsets /\ texts[dirIds[t] + 1] = t
        BY <2>1 DEF IInv, Directories
      <4> QED
        BY <4>1 DEF Range
    <3> QED
      BY <3>1, <3>2
  <2>4. Range(texts) = {Text[Parent(x)] : x \in Range(indexed)}
    BY <2>3 DEF IInv, Entries
  <2> QED
    BY <2>2, <2>4 DEF DirectoriesInternedOnce, DirText
<1> QED
  BY <1>1, Invariant, PTL

\* A finished scan has indexed exactly the files that can be reached through what
\* could be read, each once, and has opened each directory once, whatever tree it
\* walked and whatever failed on the way.
THEOREM ScanIsExact == Spec => []ScanExact
<1> DEFINE Inv == IInv /\ Reach /\ ScanExact
<1>1. Init => Inv
  BY InitInv, InitReach DEF Init, ScanExact
<1>2. Inv /\ [Next]_vars => Inv'
  <2> SUFFICES ASSUME Inv, [Next]_vars PROVE Inv'
    OBVIOUS
  <2>1. IInv' /\ Reach'
    BY InvStep, NextReach
  <2>2. CASE Finish
    <3>1. Range(indexed) = ReachableFiles /\ Range(opened) = ReachableDirs
      BY <2>2, EmptyStackIsExact DEF Finish, IInv, Indexed, Opened
    <3>2. UNCHANGED <<indexed, opened, unread, skipped>>
      BY <2>2 DEF Finish, walk, built
    <3>3. ScanExact'
      BY <2>1, <3>1, <3>2 DEF ScanExact, Reach, MetOnce, ReachableFiles, ReachableDirs, Closed, Range
    <3> QED
      BY <2>1, <3>3
  <2>3. CASE UNCHANGED vars
    <3>1. ScanExact'
      BY <2>3 DEF vars, ScanExact, ReachableFiles, ReachableDirs, Closed, Range, NoRepeats
    <3> QED
      BY <2>1, <3>1
  <2>4. CASE Next /\ ~Finish
    <3>1. pc' # "done"
      BY <2>4 DEF Next, OpenDirectory, SkipDirectory, SkipChild, PushDirectory, PassOther,
                  IndexFile, GiveUp, FinishDirectory
    <3> QED
      BY <2>1, <3>1 DEF ScanExact
  <2> QED
    BY <2>2, <2>3, <2>4
<1>3. Inv => ScanExact
  OBVIOUS
<1> QED
  BY <1>1, <1>2, <1>3, PTL DEF Spec

-----------------------------------------------------------------------------
(* The scan ends: what can be said of it without fairness.                *)

\* How far a scan is from its end: directories it has not opened, then children of
\* the listing it has not looked at, then how much of the loop's body is left.
Unopened == Cardinality(Dir \ Opened)
Unlooked == Cardinality(pending)
Phase == [children |-> 2, pop |-> 1, done |-> 0, failed |-> 0][pc]

ScanAdvances ==
  \/ Unopened' < Unopened
  \/ Unopened' = Unopened /\ Unlooked' < Unlooked
  \/ Unopened' = Unopened /\ Unlooked' = Unlooked /\ Phase' < Phase

\* Every step of a scan brings it nearer to its end, whatever links and equal texts
\* there are: no directory is opened twice and no child looked at twice.
THEOREM ScanAlwaysAdvances ==
  ASSUME IsFiniteSet(Node)
  PROVE  Spec => [][ScanAdvances /\ {Unopened', Unlooked', Phase'} \subseteq Nat]_vars
<1> DEFINE Inv == IInv /\ Reach
           Goal == ScanAdvances /\ {Unopened', Unlooked', Phase'} \subseteq Nat
<1>1. Spec => []Inv
  <2>1. Init => Inv
    BY InitInv, InitReach
  <2>2. Inv /\ [Next]_vars => Inv'
    BY InvStep, NextReach
  <2> QED
    BY <2>1, <2>2, PTL DEF Spec
<1>2. Inv => /\ IsFiniteSet(Dir \ Opened) /\ IsFiniteSet(pending)
             /\ Unopened \in Nat /\ Unlooked \in Nat /\ Phase \in Nat
  <2> SUFFICES ASSUME Inv
               PROVE  /\ IsFiniteSet(Dir \ Opened) /\ IsFiniteSet(pending)
                      /\ Unopened \in Nat /\ Unlooked \in Nat /\ Phase \in Nat
    OBVIOUS
  <2>1. pending \subseteq Node /\ Dir \ Opened \subseteq Node
    BY TreeAssumption DEF IInv, Walk, Dir
  <2>2. IsFiniteSet(Dir \ Opened) /\ IsFiniteSet(pending)
    BY <2>1, FS_Subset
  <2>3. Unopened \in Nat /\ Unlooked \in Nat
    BY <2>2, FS_CardinalityType DEF Unopened, Unlooked
  <2>4. Phase \in Nat
    BY DEF IInv, Walk, Phase
  <2> QED
    BY <2>2, <2>3, <2>4
<1>3. (Inv => /\ IsFiniteSet(Dir \ Opened) /\ IsFiniteSet(pending)
              /\ Unopened \in Nat /\ Unlooked \in Nat /\ Phase \in Nat)'
  BY <1>2, PTL
<1>4. Inv /\ Inv' /\ [Next]_vars => [Goal]_vars
  <2> SUFFICES ASSUME Inv, Inv', Next PROVE Goal
    OBVIOUS
  <2>1. /\ IsFiniteSet(Dir \ Opened) /\ IsFiniteSet(pending)
        /\ Unopened \in Nat /\ Unlooked \in Nat /\ Phase \in Nat
    BY <1>2
  <2>2. Unopened' \in Nat /\ Unlooked' \in Nat /\ Phase' \in Nat
    BY <1>3
  <2>3. CASE OpenDirectory \/ SkipDirectory
    <3>1. Top \in Dir \ Opened /\ Opened' = Opened \union {Top}
      BY <2>3, PopMoves DEF IInv, Reach, MetOnce
    <3>2. Dir \ Opened' = (Dir \ Opened) \ {Top}
      BY <3>1
    <3>3. Unopened' = Unopened - 1
      <4> DEFINE S == Dir \ Opened
      <4>1. IsFiniteSet(S) /\ Top \in S /\ Unopened = Cardinality(S) /\ Unopened' = Cardinality(S \ {Top})
        BY <2>1, <3>1, <3>2 DEF Unopened
      <4> HIDE DEF S
      <4> QED
        BY <4>1, FS_RemoveElement
    <3> QED
      BY <2>1, <2>2, <3>3 DEF ScanAdvances
  <2>4. ASSUME NEW x \in pending, SkipChild(x) \/ PushDirectory(x) \/ PassOther(x) \/ IndexFile(x)
        PROVE  Goal
    <3>1. pending' = pending \ {x} /\ opened' = opened
      BY <2>4 DEF SkipChild, PushDirectory, PassOther, IndexFile
    <3>2. Unlooked' = Unlooked - 1
      BY <2>1, <3>1, FS_RemoveElement DEF Unlooked
    <3>3. Unopened' = Unopened
      BY <3>1 DEF Unopened, Opened, Range
    <3> QED
      BY <2>1, <2>2, <3>2, <3>3 DEF ScanAdvances
  <2>5. CASE FinishDirectory \/ Finish \/ \E x \in pending : GiveUp(x)
    <3>1. UNCHANGED <<opened, pending>>
      BY <2>5 DEF FinishDirectory, Finish, GiveUp, walk
    <3>2. \/ pc = "children" /\ pc' = "pop"
          \/ pc = "pop" /\ pc' = "done"
          \/ pc = "children" /\ pc' = "failed"
      BY <2>5 DEF FinishDirectory, Finish, GiveUp
    <3>3. Phase' < Phase
      BY <3>2 DEF Phase
    <3>4. Unopened' = Unopened /\ Unlooked' = Unlooked
      BY <3>1 DEF Unopened, Unlooked, Opened, Range
    <3> QED
      BY <2>2, <3>3, <3>4 DEF ScanAdvances
  <2> QED
    BY <2>3, <2>4, <2>5 DEF Next
<1> QED
  BY <1>1, <1>4, PTL DEF Spec

=============================================================================
