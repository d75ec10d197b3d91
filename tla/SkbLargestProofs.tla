-------------------------- MODULE SkbLargestProofs --------------------------
(***************************************************************************)
(* Proofs about SkbLargest, for every tree, every size and order of paths  *)
(* and every limit that satisfies the assumptions there.                   *)
(***************************************************************************)
EXTENDS SkbLargest, TLAPS, FiniteSetTheorems, WellFoundedInduction

\* Why no file is offered twice: everything the walk has met is the root or a
\* child of an opened directory, of which there is only one, and a child is
\* either still to be looked at or has been.
Met == stack \union opened \union pending \union seen

WalkInv ==
  /\ stack \cap opened = {}
  /\ pending \cap (stack \union opened \union seen) = {}
  /\ \A x \in Met : x = Root \/ \E d \in opened : x \in Children[d]

\* The inductive invariant.
IInv == TypeOK /\ WalkInv /\ LargestKept

-----------------------------------------------------------------------------
(* Lemmas about the heap.                                                  *)

\* Every non-empty set of natural numbers has a least member.
LEMMA LeastNatural ==
  ASSUME NEW S, S \subseteq Nat, S # {}
  PROVE  \E m \in S : \A n \in S : m <= n
<1>1. PICK m \in S : \A n \in S : ~ (<<n, m>> \in OpToRel(<, Nat))
  BY NatLessThanWellFounded, WFMin
<1>2. \A n \in S : ~ (n < m)
  BY <1>1 DEF OpToRel
<1> QED
  BY <1>2

\* What heap.peek() returns is in the heap and no kept file is below it.
LEMMA SmallestIsLeast ==
  ASSUME NEW S, S \subseteq File, S # {}
  PROVE  /\ Smallest(S) \in S
         /\ \A y \in S : Size[Smallest(S)] <= Size[y]
<1>1. PICK a \in S : \A y \in S : Size[a] <= Size[y]
  <2> DEFINE Sizes == {Size[x] : x \in S}
  <2>1. Sizes \subseteq Nat /\ Sizes # {}
    BY SizeAssumption
  <2>2. PICK m \in Sizes : \A n \in Sizes : m <= n
    BY <2>1, LeastNatural
  <2> QED
    BY <2>2
<1> DEFINE Lightest == {x \in S : Size[x] = Size[a]}
<1>2. PICK b \in Lightest : \A y \in Lightest : Path[b] <= Path[y]
  <2> DEFINE Paths == {Path[x] : x \in Lightest}
  <2>1. Paths \subseteq Nat /\ Paths # {}
    BY SizeAssumption
  <2>2. PICK m \in Paths : \A n \in Paths : m <= n
    BY <2>1, LeastNatural
  <2> QED
    BY <2>2
<1>3. b \in S /\ \A y \in S \ {b} : Smaller(b, y)
  <2> SUFFICES ASSUME NEW y \in S \ {b}
               PROVE  Smaller(b, y)
    BY <1>2
  <2>0. Size[a] \in Nat /\ Size[y] \in Nat /\ Path[b] \in Nat /\ Path[y] \in Nat
    BY <1>2, SizeAssumption
  <2>1. CASE Size[y] = Size[a]
    <3>1. Path[b] <= Path[y]
      BY <2>1, <1>2
    <3>2. Path[b] # Path[y]
      BY <1>2, SizeAssumption
    <3> QED
      BY <2>0, <2>1, <3>1, <3>2, <1>2 DEF Smaller
  <2>2. CASE Size[y] # Size[a]
    BY <2>0, <2>2, <1>1, <1>2 DEF Smaller
  <2> QED
    BY <2>1, <2>2
<1>4. Smallest(S) \in S /\ \A y \in S \ {Smallest(S)} : Smaller(Smallest(S), y)
  BY <1>3 DEF Smallest
<1>5. ASSUME NEW y \in S PROVE Size[Smallest(S)] <= Size[y]
  BY <1>4, <1>5, SizeAssumption DEF Smaller
<1> QED
  BY <1>4, <1>5

\* A new file offered to a heap that holds the largest files leaves a heap that
\* does, and that is no larger than the limit.
LEMMA OfferKeepsLargest ==
  ASSUME TypeOK, LargestKept, NEW x \in File, x \notin seen
  PROVE  LET new == Offered(x)
             all == seen \union {x}
         IN  /\ new \subseteq all
             /\ IsFiniteSet(new) /\ Cardinality(new) <= Limit
             /\ new # all => Cardinality(new) = Limit
             /\ \A z \in new, y \in all \ new : Size[y] <= Size[z]
<1> DEFINE new == Offered(x)
           all == seen \union {x}
           n == Cardinality(heap)
<1>1. heap \subseteq File /\ IsFiniteSet(heap) /\ n \in Nat /\ n <= Limit /\ x \notin heap
  BY FS_CardinalityType DEF TypeOK
<1>2. Limit \in Nat /\ Limit > 0
  BY SizeAssumption
<1>3. \A y \in all : Size[y] \in Nat
  BY SizeAssumption DEF TypeOK
<1>4. CASE n < Limit
  <2>1. new = heap \union {x} /\ heap = seen
    BY <1>4, <1>1, <1>2 DEF Offered, LargestKept
  <2>2. IsFiniteSet(new) /\ Cardinality(new) = n + 1
    BY <2>1, <1>1, FS_AddElement
  <2> QED
    BY <2>1, <2>2, <1>1, <1>2, <1>4
<1>5. CASE n = Limit
  <2> DEFINE s == Smallest(heap)
  <2>1. s \in heap /\ \A y \in heap : Size[s] <= Size[y]
    <3>1. heap # {}
      BY <1>1, <1>2, <1>5, FS_EmptySet
    <3> QED
      BY <3>1, <1>1, SmallestIsLeast
  <2>2. CASE Size[x] > Size[s]
    <3>1. new = (heap \ {s}) \union {x}
      BY <2>2, <1>5, <1>2 DEF Offered
    <3>2. IsFiniteSet(heap \ {s}) /\ Cardinality(heap \ {s}) = n - 1
      BY <2>1, <1>1, FS_RemoveElement
    <3>3. IsFiniteSet(new) /\ Cardinality(new) = Limit
      <4>1. x \notin heap \ {s}
        BY <1>1
      <4> HIDE DEF s
      <4>2. IsFiniteSet((heap \ {s}) \union {x}) /\ Cardinality((heap \ {s}) \union {x}) = (n - 1) + 1
        BY <4>1, <3>2, FS_AddElement
      <4> QED
        BY <4>2, <3>1, <1>1, <1>5
    <3>4. ASSUME NEW z \in new, NEW y \in all \ new PROVE Size[y] <= Size[z]
      <4>0. z \in all /\ s \in all
        BY <3>1, <2>1 DEF TypeOK
      <4>1. Size[z] >= Size[s]
        BY <4>0, <3>1, <2>1, <2>2, <1>3
      <4>2. y = s \/ y \in seen \ heap
        BY <3>1
      <4>3. Size[y] <= Size[s]
        BY <4>2, <4>0, <2>1, <1>3 DEF LargestKept
      <4> QED
        BY <4>0, <4>1, <4>3, <1>3
    <3>5. new \subseteq all
      BY <3>1 DEF TypeOK
    <3> QED
      BY <3>3, <3>4, <3>5, <1>2
  <2>3. CASE ~(Size[x] > Size[s])
    <3>1. new = heap
      BY <2>3, <1>5, <1>2 DEF Offered
    <3>2. ASSUME NEW z \in heap, NEW y \in all \ heap PROVE Size[y] <= Size[z]
      <4>0. s \in all /\ z \in all
        BY <2>1 DEF TypeOK
      <4>1. CASE y = x
        BY <4>0, <4>1, <2>1, <2>3, <1>3
      <4>2. CASE y # x
        BY <4>2 DEF LargestKept
      <4> QED
        BY <4>1, <4>2
    <3> QED
      BY <3>1, <3>2, <1>1, <1>5 DEF TypeOK
  <2> QED
    BY <2>2, <2>3
<1> QED
  BY <1>1, <1>2, <1>4, <1>5

-----------------------------------------------------------------------------
(* The invariant.                                                          *)

\* The walk begins with the root on the stack and nothing kept.
LEMMA InitIInv == Init => IInv
<1> SUFFICES ASSUME Init PROVE IInv
  OBVIOUS
<1>1. TypeOK
  BY TreeAssumption, SizeAssumption, FS_EmptySet DEF Init, TypeOK
<1>2. WalkInv /\ LargestKept
  BY DEF Init, WalkInv, Met, LargestKept
<1> QED
  BY <1>1, <1>2 DEF IInv

\* The children of a directory that was never opened have not been met.
LEMMA ChildrenAreNew ==
  ASSUME IInv, NEW d \in stack
  PROVE  Children[d] \cap ((Met \ pending) \union {d}) = {}
<1>1. d \in Dir /\ d \notin opened /\ opened \subseteq Dir
  BY DEF IInv, TypeOK, WalkInv
<1> SUFFICES ASSUME NEW x \in Children[d], x \in Met \/ x = d
             PROVE  FALSE
  OBVIOUS
<1>2. x \in Met
  BY DEF Met
<1>3. x # Root
  BY <1>1, TreeAssumption
<1>4. PICK e \in opened : x \in Children[e]
  BY <1>2, <1>3 DEF IInv, WalkInv
<1>5. e = d
  BY <1>1, <1>4, TreeAssumption
<1> QED
  BY <1>1, <1>4, <1>5

\* Each step of the walk preserves the invariant.
LEMMA NextIInv == IInv /\ [Next]_vars => IInv'
<1> SUFFICES ASSUME IInv, [Next]_vars PROVE IInv'
  OBVIOUS
<1> USE DEF IInv
<1>1. ASSUME NEW d \in stack, OpenDirectory(d) PROVE IInv'
  <2>1. d \in Dir /\ Children[d] \subseteq Node
    BY TreeAssumption DEF TypeOK
  <2>2. TypeOK'
    BY <1>1, <2>1 DEF OpenDirectory, Pop, kept, TypeOK
  <2>3. Children[d] \cap ((Met \ pending) \union {d}) = {}
    BY ChildrenAreNew
  <2>4. WalkInv'
    <3>1. (stack \cap opened = {})'
      BY <1>1 DEF OpenDirectory, Pop, WalkInv
    <3>2. (pending \cap (stack \union opened \union seen) = {})'
      BY <1>1, <2>3 DEF OpenDirectory, Pop, kept, WalkInv, Met
    <3>3. (\A x \in Met : x = Root \/ \E e \in opened : x \in Children[e])'
      BY <1>1 DEF OpenDirectory, Pop, kept, WalkInv, Met
    <3> QED
      BY <3>1, <3>2, <3>3 DEF WalkInv
  <2>5. LargestKept'
    BY <1>1 DEF OpenDirectory, Pop, kept, LargestKept
  <2> QED
    BY <2>2, <2>4, <2>5
<1>2. ASSUME NEW d \in stack, SkipDirectory(d) PROVE IInv'
  <2>1. d \in Node /\ d \in Dir
    BY DEF TypeOK, Dir
  <2>2. TypeOK'
    BY <1>2, <2>1 DEF SkipDirectory, Pop, kept, TypeOK
  <2>3. WalkInv'
    BY <1>2 DEF SkipDirectory, Pop, kept, WalkInv, Met
  <2>4. LargestKept'
    BY <1>2 DEF SkipDirectory, Pop, kept, LargestKept
  <2> QED
    BY <2>2, <2>3, <2>4
<1>3. ASSUME NEW x \in pending, SkipEntry(x) \/ PassOther(x) PROVE IInv'
  <2>1. TypeOK'
    BY <1>3 DEF SkipEntry, PassOther, Take, kept, TypeOK
  <2>2. WalkInv'
    BY <1>3 DEF SkipEntry, PassOther, Take, kept, WalkInv, Met
  <2>3. LargestKept'
    BY <1>3 DEF SkipEntry, PassOther, Take, kept, LargestKept
  <2> QED
    BY <2>1, <2>2, <2>3
<1>4. ASSUME NEW x \in pending, PushDirectory(x) PROVE IInv'
  <2>1. TypeOK'
    BY <1>4 DEF PushDirectory, Take, kept, TypeOK, Dir
  <2>2. WalkInv'
    BY <1>4 DEF PushDirectory, Take, kept, WalkInv, Met
  <2>3. LargestKept'
    BY <1>4 DEF PushDirectory, Take, kept, LargestKept
  <2> QED
    BY <2>1, <2>2, <2>3
<1>5. ASSUME NEW x \in pending, CountFile(x) PROVE IInv'
  <2>1. x \in File /\ x \notin seen
    BY <1>5 DEF CountFile, TypeOK, WalkInv, File
  <2>2. heap' = Offered(x) /\ seen' = seen \union {x}
    BY <1>5 DEF CountFile
  <2>3. /\ heap' \subseteq seen'
        /\ IsFiniteSet(heap') /\ Cardinality(heap') <= Limit
        /\ heap' # seen' => Cardinality(heap') = Limit
        /\ \A z \in heap', y \in seen' \ heap' : Size[y] <= Size[z]
    BY <2>1, <2>2, OfferKeepsLargest
  <2>4. filesSeen' \in 0 .. MaxTotal /\ bytesSeen' \in 0 .. MaxTotal
    BY <1>5, <2>1, SizeAssumption DEF CountFile, SaturatingAdd, TypeOK
  <2>5. TypeOK'
    BY <1>5, <2>1, <2>2, <2>3, <2>4 DEF CountFile, Take, TypeOK
  <2>6. WalkInv'
    BY <1>5, <2>2 DEF CountFile, Take, WalkInv, Met
  <2>7. LargestKept'
    BY <2>3 DEF LargestKept
  <2> QED
    BY <2>5, <2>6, <2>7
<1>6. ASSUME Finish PROVE IInv'
  BY <1>6 DEF Finish, kept, TypeOK, WalkInv, Met, LargestKept
<1>7. ASSUME UNCHANGED vars PROVE IInv'
  BY <1>7 DEF vars, TypeOK, WalkInv, Met, LargestKept
<1> QED
  BY <1>1, <1>2, <1>3, <1>4, <1>5, <1>6, <1>7 DEF Next

\* The inductive invariant holds throughout.
LEMMA AlwaysIInv == Spec => []IInv
BY InitIInv, NextIInv, PTL DEF Spec

\* The walk keeps its shape and the heap never outgrows the limit it was
\* allocated for (scan_largest).
THEOREM HeapIsBounded == Spec => []TypeOK
<1>1. IInv => TypeOK
  BY DEF IInv
<1> QED
  BY AlwaysIInv, <1>1, PTL

\* At every point of scan_largest the heap holds the largest files seen, for
\* every tree, limit and order of the listings, and with sizes that are equal.
THEOREM HeapHoldsLargest == Spec => []LargestKept
<1>1. IInv => LargestKept
  BY DEF IInv
<1> QED
  BY AlwaysIInv, <1>1, PTL

-----------------------------------------------------------------------------
(* Sums.                                                                   *)

\* g sums the sizes over the subsets of S that have at most n members.
SumsUpTo(g, S, n) ==
  \A T \in SUBSET S : Cardinality(T) <= n =>
     g[T] = IF T = {} THEN 0
            ELSE LET x == CHOOSE x \in T : TRUE IN Size[x] + g[T \ {x}]

\* g sums the sizes over all subsets of S.
IsSum(g, S) ==
  g = [T \in SUBSET S |->
         IF T = {} THEN 0
         ELSE LET x == CHOOSE x \in T : TRUE IN Size[x] + g[T \ {x}]]

\* Sum as TLAPS reads its recursive function.
LEMMA SumUnfolds ==
  ASSUME NEW S
  PROVE  Sum(S) = (CHOOSE g : IsSum(g, S))[S]
BY DEF Sum, IsSum

\* There is such a function for every finite set of files: were there none, there
\* would be a least n up to which there is none.
LEMMA SumsExist ==
  ASSUME NEW S, S \subseteq File, IsFiniteSet(S)
  PROVE  \E g : IsSum(g, S)
<1> DEFINE Level(n) == \E g \in [SUBSET S -> Nat] : SumsUpTo(g, S, n)
           Bad == {n \in Nat : ~Level(n)}
<1>1. \A T \in SUBSET S : IsFiniteSet(T) /\ Cardinality(T) \in Nat /\ Cardinality(T) <= Cardinality(S)
  BY FS_Subset, FS_CardinalityType
<1>2. \A x \in S : Size[x] \in Nat
  BY SizeAssumption
<1>3. Level(0)
  <2> DEFINE zero == [T \in SUBSET S |-> 0]
  <2>1. \A T \in SUBSET S : Cardinality(T) <= 0 => T = {}
    BY <1>1, FS_EmptySet
  <2>2. SumsUpTo(zero, S, 0)
    BY <2>1 DEF SumsUpTo
  <2> QED
    BY <2>2
<1>4. ASSUME NEW n \in Nat, Level(n) PROVE Level(n + 1)
  <2>1. PICK g \in [SUBSET S -> Nat] : SumsUpTo(g, S, n)
    BY <1>4
  <2> DEFINE h == [T \in SUBSET S |->
                     IF T = {} THEN 0
                     ELSE LET x == CHOOSE x \in T : TRUE IN Size[x] + g[T \ {x}]]
  <2>2. h \in [SUBSET S -> Nat]
    <3> SUFFICES ASSUME NEW T \in SUBSET S, T # {}
                 PROVE  LET x == CHOOSE x \in T : TRUE IN Size[x] + g[T \ {x}] \in Nat
      OBVIOUS
    <3> DEFINE x == CHOOSE x \in T : TRUE
    <3>1. x \in T
      OBVIOUS
    <3> HIDE DEF x
    <3>2. Size[x] + g[T \ {x}] \in Nat
      BY <3>1, <1>2
    <3> QED
      BY <3>2 DEF x
  <2>3. \A T \in SUBSET S : Cardinality(T) <= n => h[T] = g[T]
    BY <2>1 DEF SumsUpTo
  <2>4. SumsUpTo(h, S, n + 1)
    <3> SUFFICES ASSUME NEW T \in SUBSET S, Cardinality(T) <= n + 1, T # {}
                 PROVE  h[T] = LET x == CHOOSE x \in T : TRUE IN Size[x] + h[T \ {x}]
      BY DEF SumsUpTo
    <3> DEFINE x == CHOOSE x \in T : TRUE
    <3>1. x \in T
      OBVIOUS
    <3>2. h[T] = Size[x] + g[T \ {x}]
      OBVIOUS
    <3> HIDE DEF x, h
    <3>3. Cardinality(T \ {x}) = Cardinality(T) - 1
      BY <3>1, <1>1, FS_RemoveElement
    <3>4. h[T \ {x}] = g[T \ {x}]
      BY <3>3, <2>3, <1>1
    <3>5. h[T] = Size[x] + h[T \ {x}]
      BY <3>2, <3>4
    <3> QED
      BY <3>5 DEF x
  <2> HIDE DEF h
  <2> QED
    BY <2>2, <2>4
<1>5. Bad = {}
  <2> HIDE DEF Level
  <2> SUFFICES ASSUME Bad # {} PROVE FALSE
    OBVIOUS
  <2>1. PICK m \in Bad : \A n \in Bad : m <= n
    BY LeastNatural
  <2>2. m # 0 /\ m - 1 \in Nat
    BY <1>3
  <2>3. Level(m - 1)
    BY <2>1, <2>2
  <2>4. Level((m - 1) + 1)
    BY <2>2, <2>3, <1>4
  <2> QED
    BY <2>4
<1>6. Level(Cardinality(S))
  <2> HIDE DEF Level
  <2> QED
    BY <1>5, <1>1
<1>7. PICK g \in [SUBSET S -> Nat] : SumsUpTo(g, S, Cardinality(S))
  BY <1>6
<1>8. IsSum(g, S)
  BY <1>7, <1>1 DEF SumsUpTo, IsSum
<1> QED
  BY <1>8

\* Sums over different sets agree where both are defined.
LEMMA SumsAgree ==
  ASSUME NEW S, NEW R, NEW g, NEW h, IsSum(g, S), IsSum(h, R),
         NEW U, U \subseteq S, U \subseteq R, IsFiniteSet(U)
  PROVE  g[U] = h[U]
<1> DEFINE Bad == {n \in Nat : \E T \in SUBSET U : Cardinality(T) = n /\ g[T] # h[T]}
<1>1. \A T \in SUBSET U : IsFiniteSet(T) /\ Cardinality(T) \in Nat
  BY FS_Subset, FS_CardinalityType
<1>2. Bad = {}
  <2> SUFFICES ASSUME Bad # {} PROVE FALSE
    OBVIOUS
  <2>1. PICK m \in Bad : \A n \in Bad : m <= n
    BY LeastNatural
  <2>2. PICK T \in SUBSET U : Cardinality(T) = m /\ g[T] # h[T]
    OBVIOUS
  <2>3. g[T] = IF T = {} THEN 0
               ELSE LET x == CHOOSE x \in T : TRUE IN Size[x] + g[T \ {x}]
    BY DEF IsSum
  <2>4. h[T] = IF T = {} THEN 0
               ELSE LET x == CHOOSE x \in T : TRUE IN Size[x] + h[T \ {x}]
    BY DEF IsSum
  <2> DEFINE x == CHOOSE x \in T : TRUE
  <2>5. T # {} /\ x \in T
    BY <2>2, <2>3, <2>4
  <2>6. g[T \ {x}] # h[T \ {x}]
    BY <2>2, <2>3, <2>4, <2>5
  <2> HIDE DEF x
  <2>7. T \ {x} \in SUBSET U /\ Cardinality(T \ {x}) = Cardinality(T) - 1
    BY <2>5, <1>1, FS_RemoveElement
  <2>8. Cardinality(T \ {x}) \in Bad
    BY <2>6, <2>7, <1>1
  <2> HIDE DEF Bad
  <2> QED
    BY <2>8, <2>7, <2>2, <2>1, <1>1
<1> QED
  BY <1>2, <1>1

\* Sum satisfies the equation it is written with.
LEMMA SumStep ==
  ASSUME NEW T, T \subseteq File, IsFiniteSet(T), T # {}
  PROVE  LET x == CHOOSE x \in T : TRUE IN Sum(T) = Size[x] + Sum(T \ {x})
<1> DEFINE x == CHOOSE x \in T : TRUE
           g == CHOOSE g : IsSum(g, T)
           h == CHOOSE h : IsSum(h, T \ {x})
<1>1. x \in T
  OBVIOUS
<1>2. IsFiniteSet(T \ {x}) /\ T \ {x} \subseteq File
  BY FS_RemoveElement
<1>3. IsSum(g, T)
  BY SumsExist
<1>4. IsSum(h, T \ {x})
  BY <1>2, SumsExist
<1>5. g[T] = Size[x] + g[T \ {x}]
  BY <1>3, <1>1 DEF IsSum
<1>6. Sum(T) = g[T] /\ Sum(T \ {x}) = h[T \ {x}]
  BY SumUnfolds
<1> HIDE DEF g, h, x
<1>7. g[T \ {x}] = h[T \ {x}]
  BY <1>2, <1>3, <1>4, SumsAgree
<1>8. Sum(T) = Size[x] + Sum(T \ {x})
  BY <1>5, <1>6, <1>7
<1> QED
  BY <1>8 DEF x

\* No file has no bytes.
LEMMA SumEmpty == Sum({}) = 0
<1> DEFINE g == CHOOSE g : IsSum(g, {})
<1>1. IsSum(g, {})
  BY SumsExist, FS_EmptySet
<1>2. Sum({}) = g[{}]
  BY SumUnfolds
<1> HIDE DEF g
<1> QED
  BY <1>1, <1>2 DEF IsSum

\* The order in which a set is summed does not matter.
LEMMA SumRemove ==
  ASSUME NEW S, S \subseteq File, IsFiniteSet(S)
  PROVE  /\ Sum(S) \in Nat
         /\ \A y \in S : Sum(S) = Size[y] + Sum(S \ {y})
<1> DEFINE Good(T) == Sum(T) \in Nat /\ \A y \in T : Sum(T) = Size[y] + Sum(T \ {y})
           Bad == {n \in Nat : \E T \in SUBSET S : Cardinality(T) = n /\ ~Good(T)}
<1>1. \A T \in SUBSET S : IsFiniteSet(T) /\ Cardinality(T) \in Nat
  BY FS_Subset, FS_CardinalityType
<1>2. \A y \in S : Size[y] \in Nat
  BY SizeAssumption
<1>3. ASSUME NEW T \in SUBSET S,
             \A U \in SUBSET S : Cardinality(U) < Cardinality(T) => Good(U)
      PROVE  Good(T)
  <2>1. CASE T = {}
    BY <2>1, SumEmpty
  <2>2. CASE T # {}
    <3> DEFINE x == CHOOSE x \in T : TRUE
    <3>1. x \in T
      BY <2>2
    <3>2. Sum(T) = Size[x] + Sum(T \ {x})
      BY <2>2, <1>1, SumStep
    <3> HIDE DEF x, Good
    <3>3. \A y \in T : T \ {y} \in SUBSET S /\ Cardinality(T \ {y}) < Cardinality(T)
      BY <1>1, FS_RemoveElement
    <3>4. \A y \in T : Good(T \ {y})
      BY <3>3, <1>3
    <3>5. Sum(T) \in Nat
      BY <3>1, <3>2, <3>4, <1>2 DEF Good
    <3>6. ASSUME NEW y \in T PROVE Sum(T) = Size[y] + Sum(T \ {y})
      <4>1. CASE y = x
        BY <4>1, <3>2
      <4>2. CASE y # x
        <5>1. Sum(T \ {x}) = Size[y] + Sum((T \ {x}) \ {y})
          BY <3>4, <3>1, <4>2 DEF Good
        <5>2. Sum(T \ {y}) = Size[x] + Sum((T \ {y}) \ {x})
          BY <3>4, <3>1, <4>2 DEF Good
        <5>3. (T \ {x}) \ {y} = (T \ {y}) \ {x}
          OBVIOUS
        <5> DEFINE rest == Sum((T \ {x}) \ {y})
        <5>4. rest \in Nat
          <6>1. T \ {x} \in SUBSET S /\ Cardinality(T \ {x}) < Cardinality(T)
            BY <3>1, <3>3
          <6>2. (T \ {x}) \ {y} \in SUBSET S /\ Cardinality((T \ {x}) \ {y}) < Cardinality(T \ {x})
            <7> DEFINE U == T \ {x}
            <7>1. U \in SUBSET S /\ y \in U
              BY <6>1, <4>2
            <7> HIDE DEF U
            <7>2. IsFiniteSet(U) /\ Cardinality(U) \in Nat
              BY <7>1, <1>1
            <7>3. Cardinality(U \ {y}) = Cardinality(U) - 1
              BY <7>1, <7>2, FS_RemoveElement
            <7>4. U \ {y} \in SUBSET S /\ Cardinality(U \ {y}) < Cardinality(U)
              BY <7>1, <7>2, <7>3
            <7> QED
              BY <7>4 DEF U
          <6>3. Cardinality((T \ {x}) \ {y}) < Cardinality(T)
            BY <6>1, <6>2, <1>1
          <6>4. Good((T \ {x}) \ {y})
            BY <6>2, <6>3, <1>3
          <6> QED
            BY <6>4 DEF Good
        <5> HIDE DEF rest
        <5>5. Size[x] \in Nat /\ Size[y] \in Nat
          BY <3>1, <1>2
        <5>6. Sum(T \ {x}) = Size[y] + rest /\ Sum(T \ {y}) = Size[x] + rest
          BY <5>1, <5>2, <5>3 DEF rest
        <5> QED
          BY <3>2, <5>4, <5>5, <5>6
      <4> QED
        BY <4>1, <4>2
    <3> QED
      BY <3>5, <3>6 DEF Good
  <2> QED
    BY <2>1, <2>2
<1>4. Bad = {}
  <2> HIDE DEF Good
  <2> SUFFICES ASSUME Bad # {} PROVE FALSE
    OBVIOUS
  <2>1. PICK m \in Bad : \A n \in Bad : m <= n
    BY LeastNatural
  <2>2. PICK T \in SUBSET S : Cardinality(T) = m /\ ~Good(T)
    OBVIOUS
  <2>3. \A U \in SUBSET S : Cardinality(U) < Cardinality(T) => Good(U)
    BY <2>1, <2>2, <1>1
  <2> QED
    BY <2>2, <2>3, <1>3
<1>5. Good(S)
  <2> HIDE DEF Good
  <2> QED
    BY <1>4, <1>1
<1> QED
  BY <1>5

\* A file that is added counts with its size.
LEMMA SumAdd ==
  ASSUME NEW S, S \subseteq File, IsFiniteSet(S), NEW x \in File, x \notin S
  PROVE  Sum(S) \in Nat /\ Sum(S \union {x}) = Sum(S) + Size[x]
<1>1. IsFiniteSet(S \union {x}) /\ S \union {x} \subseteq File
  BY FS_AddElement
<1>2. Sum(S \union {x}) = Size[x] + Sum((S \union {x}) \ {x})
  <2> DEFINE all == S \union {x}
  <2>1. IsFiniteSet(all) /\ all \subseteq File /\ x \in all
    BY <1>1
  <2> HIDE DEF all
  <2>2. Sum(all) = Size[x] + Sum(all \ {x})
    BY <2>1, SumRemove
  <2> QED
    BY <2>2 DEF all
<1>3. (S \union {x}) \ {x} = S
  OBVIOUS
<1>4. Sum(S) \in Nat /\ Size[x] \in Nat
  BY SumRemove, SizeAssumption
<1>5. Sum(S \union {x}) = Size[x] + Sum(S)
  BY <1>2, <1>3
<1> QED
  BY <1>4, <1>5

-----------------------------------------------------------------------------
(* Ranks.                                                                  *)

\* What comes before each member of S in a strict order of all of S.
IsOrderOf(Before, S) ==
  /\ Before \in [S -> SUBSET S]
  /\ \A x \in S : x \notin Before[x]
  /\ \A x, y \in S : x = y \/ x \in Before[y] \/ y \in Before[x]
  /\ \A x, y \in S : y \in Before[x] => Before[y] \subseteq Before[x]

\* The members of a finite ordered set have the ranks 0 .. n - 1, each once.
LEMMA Ranking ==
  ASSUME NEW S, IsFiniteSet(S), NEW Before, IsOrderOf(Before, S)
  PROVE  LET rank == [x \in S |-> Cardinality(Before[x])]
         IN  rank \in Bijection(S, 0 .. Cardinality(S) - 1)
<1> DEFINE rank == [x \in S |-> Cardinality(Before[x])]
           n == Cardinality(S)
           T == 0 .. n - 1
<1>0. n \in Nat
  BY FS_CardinalityType
<1>1. ASSUME NEW x \in S
      PROVE  IsFiniteSet(Before[x]) /\ Cardinality(Before[x]) \in Nat /\ Cardinality(Before[x]) < n
  <2>0. Before[x] \subseteq S /\ x \notin Before[x]
    BY DEF IsOrderOf
  <2>1. IsFiniteSet(Before[x]) /\ Cardinality(Before[x]) <= n
    BY <2>0, FS_Subset
  <2>2. Cardinality(Before[x]) = n => Before[x] = S
    BY <2>0, FS_Subset
  <2>3. Cardinality(Before[x]) # n
    BY <2>2, <2>0
  <2>4. Cardinality(Before[x]) \in Nat
    BY <2>1, FS_CardinalityType
  <2> QED
    BY <2>1, <2>3, <2>4, <1>0
<1>2. ASSUME NEW x \in S, NEW y \in S, y \in Before[x]
      PROVE  Cardinality(Before[y]) < Cardinality(Before[x])
  <2>0. Before[y] \subseteq Before[x] /\ y \notin Before[y]
    BY <1>2 DEF IsOrderOf
  <2>1. /\ Cardinality(Before[y]) <= Cardinality(Before[x])
        /\ Cardinality(Before[y]) = Cardinality(Before[x]) => Before[y] = Before[x]
    BY <2>0, <1>1, FS_Subset
  <2> QED
    BY <2>0, <2>1, <1>1, <1>2
<1>3. rank \in [S -> T]
  <2> SUFFICES ASSUME NEW x \in S PROVE Cardinality(Before[x]) \in T
    OBVIOUS
  <2>1. Cardinality(Before[x]) \in Nat /\ Cardinality(Before[x]) < n
    BY <1>1
  <2> QED
    BY <2>1, <1>0
<1>4. ASSUME NEW x \in S, NEW y \in S, rank[x] = rank[y] PROVE x = y
  <2>1. Cardinality(Before[x]) = Cardinality(Before[y])
    BY <1>4
  <2>2. ~(x \in Before[y]) /\ ~(y \in Before[x])
    BY <2>1, <1>2, <1>1
  <2> QED
    BY <2>2 DEF IsOrderOf
<1>5. rank \in Injection(S, T)
  BY <1>3, <1>4 DEF Injection, IsInjective
<1>6. IsFiniteSet(T) /\ Cardinality(T) = n
  BY <1>0, FS_Interval
<1>7. rank \in Surjection(S, T)
  <2> HIDE DEF rank, T
  <2> QED
    BY <1>5, <1>6, FS_Injection
<1> QED
  BY <1>5, <1>7 DEF Bijection

\* The totals are those of the files counted; there is no report before the end.
TotalsInv ==
  /\ IsFiniteSet(seen)
  /\ pc = "walk" => report = <<>>
  /\ filesSeen = SaturatingAdd(Cardinality(seen), 0)
  /\ bytesSeen = SaturatingAdd(Sum(seen), 0)

\* In the report, before a file come the larger ones and, at the same size, those
\* with a smaller text.
LEMMA ReportOrder ==
  ASSUME TypeOK
  PROVE  IsOrderOf([x \in heap |-> {y \in heap : Size[x] < Size[y]
                      \/ (Size[x] = Size[y] /\ Text[y] < Text[x])}], heap)
<1> DEFINE Before == [x \in heap |-> {y \in heap : Size[x] < Size[y]
                      \/ (Size[x] = Size[y] /\ Text[y] < Text[x])}]
<1>1. \A x \in heap : Size[x] \in Nat /\ Text[x] \in Nat
  BY SizeAssumption DEF TypeOK
<1>2. \A x, y \in heap : x # y => Text[x] # Text[y]
  BY SizeAssumption DEF TypeOK
<1>3. Before \in [heap -> SUBSET heap]
  OBVIOUS
<1>4. \A x \in heap : x \notin Before[x]
  BY <1>1
<1>5. \A x, y \in heap : x = y \/ x \in Before[y] \/ y \in Before[x]
  BY <1>1, <1>2
<1>6. \A x, y \in heap : y \in Before[x] => Before[y] \subseteq Before[x]
  BY <1>1
<1> QED
  BY <1>3, <1>4, <1>5, <1>6 DEF IsOrderOf

\* The report Finish makes ranks exactly.
LEMMA FinishRanks ==
  ASSUME TypeOK, LargestKept, TotalsInv, Finish
  PROVE  RanksExact'
<1> DEFINE Before == [x \in heap |-> {y \in heap : Size[x] < Size[y]
                      \/ (Size[x] = Size[y] /\ Text[y] < Text[x])}]
           n == Cardinality(heap)
           rank == [x \in heap |-> Cardinality(Before[x])]
<1>0. n \in Nat /\ heap \subseteq seen /\ seen \subseteq File /\ seen' = seen /\ IsFiniteSet(seen)
  BY FS_CardinalityType DEF TypeOK, Finish, TotalsInv, kept
<1>1. rank \in Bijection(heap, 0 .. n - 1)
  <2>1. IsFiniteSet(heap)
    BY DEF TypeOK
  <2>2. IsOrderOf(Before, heap)
    BY ReportOrder
  <2> HIDE DEF Before
  <2> QED
    BY <2>1, <2>2, Ranking
<1>2. report' = [i \in 1 .. n |-> CHOOSE x \in heap :
         Cardinality({y \in heap : Size[x] < Size[y]
                        \/ (Size[x] = Size[y] /\ Text[y] < Text[x])}) = i - 1]
  BY DEF Finish, Ranked
<1>3. ASSUME NEW i \in 1 .. n
      PROVE  report'[i] \in heap /\ Cardinality(Before[report'[i]]) = i - 1
  <2>1. i - 1 \in 0 .. n - 1
    BY <1>0
  <2>2. PICK x \in heap : rank[x] = i - 1
    <3> HIDE DEF rank, n
    <3> QED
      BY <2>1, <1>1 DEF Bijection, Surjection
  <2>3. Cardinality({y \in heap : Size[x] < Size[y]
                        \/ (Size[x] = Size[y] /\ Text[y] < Text[x])}) = i - 1
    BY <2>2
  <2> DEFINE r == report'[i]
  <2>4. r \in heap /\ Cardinality({y \in heap : Size[r] < Size[y]
                        \/ (Size[r] = Size[y] /\ Text[y] < Text[r])}) = i - 1
    BY <2>3, <1>2
  <2> QED
    BY <2>4
<1>4. DOMAIN report' = 1 .. n
  BY <1>2
<1>5. ASSUME NEW i \in 1 .. n
      PROVE  /\ Cardinality({y \in seen : Size[y] > Size[report'[i]]}) < i
             /\ Cardinality({y \in seen : Size[y] >= Size[report'[i]]}) >= i
  <2> DEFINE r == report'[i]
             above == {y \in seen : Size[y] > Size[r]}
             atLeast == {y \in seen : Size[y] >= Size[r]}
             b == Before[r]
  <2>1. r \in heap /\ Cardinality(b) = i - 1
    BY <1>3
  <2>2. Size[r] \in Nat /\ \A y \in seen : Size[y] \in Nat
    BY <2>1, <1>0, SizeAssumption
  <2>3. b \subseteq heap /\ IsFiniteSet(b) /\ r \notin b
    <3>1. b \subseteq heap /\ r \notin b
      BY <2>1, <2>2, <1>0, SizeAssumption
    <3> HIDE DEF b, r
    <3> QED
      BY <3>1, FS_Subset DEF TypeOK
  <2>4. above \subseteq b
    <3> SUFFICES ASSUME NEW y \in seen, Size[y] > Size[r] PROVE y \in b
      OBVIOUS
    <3>1. y \in heap
      BY <2>1, <2>2 DEF LargestKept
    <3> QED
      BY <3>1, <2>1, <2>2
  <2>5. b \union {r} \subseteq atLeast
    BY <2>1, <2>2, <1>0
  <2>6. IsFiniteSet(atLeast)
    BY <1>0, FS_Subset
  <2> HIDE DEF above, atLeast, b, r
  <2>7. Cardinality(above) <= i - 1
    BY <2>4, <2>3, <2>1, FS_Subset
  <2>8. Cardinality(b \union {r}) = (i - 1) + 1
    BY <2>3, <2>1, FS_AddElement
  <2>9. Cardinality(b \union {r}) <= Cardinality(atLeast)
    BY <2>5, <2>6, FS_Subset
  <2>10. Cardinality(above) \in Nat /\ Cardinality(atLeast) \in Nat
    <3>1. IsFiniteSet(above)
      BY <2>3, <2>4, FS_Subset
    <3> QED
      BY <3>1, <2>6, FS_CardinalityType
  <2>11. Cardinality(above) < i /\ Cardinality(atLeast) >= i
    BY <2>7, <2>8, <2>9, <2>10
  <2> QED
    BY <2>11 DEF above, atLeast, r
<1>6. ASSUME NEW i \in 1 .. n, NEW j \in 1 .. n, i < j,
             Size[report'[i]] = Size[report'[j]]
      PROVE  Text[report'[i]] < Text[report'[j]]
  <2> DEFINE a == report'[i]
             b == report'[j]
  <2>1. /\ a \in heap /\ Cardinality(Before[a]) = i - 1
        /\ b \in heap /\ Cardinality(Before[b]) = j - 1
    BY <1>3
  <2>2. /\ Size[a] \in Nat /\ \A y \in heap : Size[y] \in Nat /\ Text[y] \in Nat
    BY <2>1, <1>0, SizeAssumption
  <2>3. Size[a] = Size[b]
    BY <1>6
  <2>4. CASE Text[b] < Text[a]
    <3>1. Before[b] \subseteq Before[a] /\ IsFiniteSet(Before[a])
      <4>1. Before[b] \subseteq Before[a] /\ Before[a] \subseteq heap /\ IsFiniteSet(heap)
        <5> HIDE DEF a, b
        <5> QED
          BY <2>1, <2>2, <2>3, <2>4 DEF TypeOK
      <4> QED
        BY <4>1, FS_Subset
    <3> HIDE DEF Before, a, b
    <3>2. Cardinality(Before[b]) <= Cardinality(Before[a])
      BY <3>1, FS_Subset
    <3> QED
      BY <2>1, <3>2, <1>6, <1>0
  <2>5. CASE a = b
    <3> HIDE DEF Before, a, b
    <3> QED
      BY <2>1, <2>5, <1>6, <1>0
  <2>6. a # b => Text[a] # Text[b]
    <3> HIDE DEF a, b
    <3> QED
      BY <2>1, <1>0, SizeAssumption
  <2>7. Text[a] \in Nat /\ Text[b] \in Nat
    BY <2>1, <2>2
  <2>8. Text[b] < Text[a] \/ a = b => Text[a] < Text[b]
    BY <2>4, <2>5
  <2> QED
    <3> HIDE DEF a, b
    <3>1. Text[a] < Text[b]
      BY <2>6, <2>7, <2>8
    <3> QED
      BY <3>1 DEF a, b
<1>7. n = IF Cardinality(seen) < Limit THEN Cardinality(seen) ELSE Limit
  <2>1. n <= Cardinality(seen) /\ Cardinality(seen) \in Nat /\ n <= Limit /\ Limit \in Nat
    BY <1>0, FS_Subset, FS_CardinalityType, SizeAssumption DEF TypeOK
  <2>2. n = Cardinality(seen) \/ n = Limit
    BY DEF LargestKept
  <2> HIDE DEF n
  <2> QED
    BY <1>0, <2>1, <2>2
<1> HIDE DEF n
<1> QED
  BY <1>0, <1>4, <1>5, <1>6, <1>7 DEF RanksExact

-----------------------------------------------------------------------------
(* What the walk reaches.                                                  *)

\* C is closed under what has been listed so far.
ClosedSoFar(C) ==
  Root \in C /\ \A d \in (C \cap opened) \ missed : (Children[d] \cap Dir) \ missed \subseteq C

\* Everything met was listed by a directory that could be read, and what such a
\* directory lists is met, missed or of no interest.
Listed ==
  /\ Root \in stack \union opened
  /\ missed \cap (stack \union pending \union seen) = {}
  /\ \A x \in missed : x \in opened \/ \E d \in opened : x \in Children[d]
  /\ \A x \in Met : x = Root \/ \E d \in opened \ missed : x \in Children[d]
  /\ \A d \in opened \ missed : \A x \in Children[d] :
        x \in Met \/ x \in missed \/ Kind[x] \notin {"dir", "file"}

\* No directory is met that the walk need not open.
OnlyReachable ==
  \A C \in SUBSET Node : ClosedSoFar(C) => (stack \union opened) \ missed \subseteq C

\* What an unopened directory holds has not been missed either.
LEMMA NewlyListed ==
  ASSUME IInv, Listed, NEW d \in stack
  PROVE  Children[d] \cap missed = {}
<1>1. d \in Dir /\ d \notin opened /\ opened \subseteq Dir
  BY DEF IInv, TypeOK, WalkInv
<1> SUFFICES ASSUME NEW x \in Children[d], x \in missed
             PROVE  FALSE
  OBVIOUS
<1>2. x \notin opened
  BY ChildrenAreNew, <1>1 DEF IInv, WalkInv, Met
<1>3. PICK e \in opened : x \in Children[e]
  BY <1>2 DEF Listed
<1> QED
  BY <1>1, <1>3, TreeAssumption

\* At first there is the root alone.
LEMMA InitListed == Init => Listed /\ OnlyReachable
BY DEF Init, Listed, Met, OnlyReachable, ClosedSoFar

\* Each step keeps account of what was listed.
LEMMA NextListed == IInv /\ Listed /\ [Next]_vars => Listed'
<1> SUFFICES ASSUME IInv, Listed, [Next]_vars PROVE Listed'
  OBVIOUS
<1>0. /\ stack \subseteq Dir /\ opened \subseteq Dir /\ seen \subseteq File
      /\ stack \cap opened = {} /\ Dir \cap File = {}
      /\ pending \cap (stack \union opened \union seen) = {}
  BY DEF IInv, TypeOK, WalkInv, Dir, File
<1>1. ASSUME NEW d \in stack, OpenDirectory(d) PROVE Listed'
  <2>1. Children[d] \cap missed = {}
    BY NewlyListed
  <2>2. Children[d] \cap ((Met \ pending) \union {d}) = {}
    BY ChildrenAreNew
  <2>3. d \notin missed
    BY DEF Listed
  <2>4. pending = {} /\ pending' = Children[d] /\ stack' = stack \ {d} /\ opened' = opened \union {d}
        /\ UNCHANGED <<seen, missed>>
    BY <1>1 DEF OpenDirectory, Pop, kept
  <2>5. (missed \cap (stack \union pending \union seen) = {})'
    BY <2>1, <2>4 DEF Listed
  <2>6. (\A x \in missed : x \in opened \/ \E e \in opened : x \in Children[e])'
    BY <2>4 DEF Listed
  <2>7. (\A x \in Met : x = Root \/ \E e \in opened \ missed : x \in Children[e])'
    BY <2>3, <2>4 DEF Listed, Met
  <2>8. (\A e \in opened \ missed : \A x \in Children[e] :
           x \in Met \/ x \in missed \/ Kind[x] \notin {"dir", "file"})'
    BY <2>4 DEF Listed, Met
  <2> QED
    BY <2>4, <2>5, <2>6, <2>7, <2>8 DEF Listed
<1>2. ASSUME NEW d \in stack, SkipDirectory(d) PROVE Listed'
  <2>4. pending = {} /\ pending' = pending /\ stack' = stack \ {d} /\ opened' = opened \union {d}
        /\ missed' = missed \union {d} /\ UNCHANGED seen
    BY <1>2 DEF SkipDirectory, Pop, kept
  <2>5. (missed \cap (stack \union pending \union seen) = {})'
    BY <2>4, <1>0 DEF Listed
  <2>6. (\A x \in missed : x \in opened \/ \E e \in opened : x \in Children[e])'
    BY <2>4 DEF Listed
  <2>7. (\A x \in Met : x = Root \/ \E e \in opened \ missed : x \in Children[e])'
    BY <1>0, <2>4 DEF Listed, Met
  <2>8. (\A e \in opened \ missed : \A x \in Children[e] :
           x \in Met \/ x \in missed \/ Kind[x] \notin {"dir", "file"})'
    BY <2>4 DEF Listed, Met
  <2> QED
    BY <2>4, <2>5, <2>6, <2>7, <2>8 DEF Listed
<1>3. ASSUME NEW x \in pending, SkipEntry(x) PROVE Listed'
  <2>4. pending' = pending \ {x} /\ missed' = missed \union {x} /\ UNCHANGED <<stack, opened, seen>>
    BY <1>3 DEF SkipEntry, Take, kept
  <2>5. (missed \cap (stack \union pending \union seen) = {})'
    BY <2>4, <1>0 DEF Listed
  <2>6. (\A y \in missed : y \in opened \/ \E e \in opened : y \in Children[e])'
    <3>1. x = Root \/ \E e \in opened : x \in Children[e]
      BY DEF Listed, Met
    <3>2. x # Root
      BY <1>0 DEF Listed
    <3> QED
      BY <2>4, <3>1, <3>2 DEF Listed
  <2>7. (\A y \in Met : y = Root \/ \E e \in opened \ missed : y \in Children[e])'
    BY <1>0, <2>4 DEF Listed, Met
  <2>8. (\A e \in opened \ missed : \A y \in Children[e] :
           y \in Met \/ y \in missed \/ Kind[y] \notin {"dir", "file"})'
    BY <2>4 DEF Listed, Met
  <2> QED
    BY <2>4, <2>5, <2>6, <2>7, <2>8 DEF Listed
<1>4. ASSUME NEW x \in pending, PassOther(x) \/ PushDirectory(x) \/ CountFile(x) PROVE Listed'
  <2>1. /\ pending' = pending \ {x} /\ UNCHANGED <<opened, missed>>
        /\ stack' \union seen' \subseteq stack \union seen \union {x}
        /\ stack \subseteq stack' /\ seen \subseteq seen'
        /\ x \in stack' \union seen' \/ Kind[x] = "other"
    BY <1>4 DEF PassOther, PushDirectory, CountFile, Take, kept
  <2>2. Met' \subseteq Met /\ Met \subseteq Met' \union {x}
    BY <2>1 DEF Met
  <2>3. (missed \cap (stack \union pending \union seen) = {})'
    BY <2>1 DEF Listed
  <2>4. (\A y \in missed : y \in opened \/ \E e \in opened : y \in Children[e])'
    BY <2>1 DEF Listed
  <2>5. (\A y \in Met : y = Root \/ \E e \in opened \ missed : y \in Children[e])'
    BY <2>1, <2>2 DEF Listed
  <2>6. (\A e \in opened \ missed : \A y \in Children[e] :
           y \in Met \/ y \in missed \/ Kind[y] \notin {"dir", "file"})'
    <3>1. x \in Met' \/ Kind[x] \notin {"dir", "file"}
      BY <2>1 DEF Met
    <3> QED
      BY <2>1, <2>2, <3>1 DEF Listed
  <2> QED
    BY <2>1, <2>3, <2>4, <2>5, <2>6 DEF Listed
<1>5. CASE Finish \/ UNCHANGED vars
  BY <1>5 DEF Finish, kept, vars, Listed, Met
<1> QED
  BY <1>1, <1>2, <1>3, <1>4, <1>5 DEF Next

\* Each step opens only what any walk of this tree must open: when something is
\* missed, apply the invariant to the closed set with it.
LEMMA NextOnlyReachable == IInv /\ Listed /\ OnlyReachable /\ [Next]_vars => OnlyReachable'
<1> SUFFICES ASSUME IInv, Listed, OnlyReachable, [Next]_vars PROVE OnlyReachable'
  OBVIOUS
<1>0. /\ stack \subseteq Dir /\ opened \subseteq Dir /\ seen \subseteq File
      /\ stack \cap opened = {} /\ Dir \subseteq Node /\ pending \subseteq Node
      /\ pending \cap (stack \union opened \union seen) = {}
  BY DEF IInv, TypeOK, WalkInv, Dir, File
<1>1. ASSUME NEW d \in stack, OpenDirectory(d) PROVE OnlyReachable'
  <2>1. stack' = stack \ {d} /\ opened' = opened \union {d} /\ UNCHANGED missed
    BY <1>1 DEF OpenDirectory, Pop
  <2>2. ASSUME NEW C \in SUBSET Node, ClosedSoFar(C)' PROVE ClosedSoFar(C)
    BY <2>1, <2>2 DEF ClosedSoFar
  <2>3. (stack \union opened)' = stack \union opened
    BY <2>1
  <2> QED
    BY <2>1, <2>2, <2>3 DEF OnlyReachable
<1>2. ASSUME NEW x \in Node, x \notin opened, missed' = missed \union {x},
             (stack \union opened)' = stack \union opened, opened' \subseteq opened \union {x},
             opened \subseteq opened'
      PROVE  OnlyReachable'
  <2> SUFFICES ASSUME NEW C \in SUBSET Node, ClosedSoFar(C)'
               PROVE  (stack \union opened) \ (missed \union {x}) \subseteq C
    BY <1>2 DEF OnlyReachable
  <2>1. C \union {x} \in SUBSET Node
    BY <1>2
  <2>2. ClosedSoFar(C \union {x})
    <3> SUFFICES ASSUME NEW e \in ((C \union {x}) \cap opened) \ missed
                 PROVE  (Children[e] \cap Dir) \ missed \subseteq C \union {x}
      BY DEF ClosedSoFar
    <3>1. e \in ((C \cap opened) \ missed)'
      BY <1>2
    <3> QED
      BY <3>1, <1>2 DEF ClosedSoFar
  <2>3. (stack \union opened) \ missed \subseteq C \union {x}
    BY <2>1, <2>2 DEF OnlyReachable
  <2> QED
    BY <2>3
<1>3. ASSUME NEW d \in stack, SkipDirectory(d) PROVE OnlyReachable'
  <2>1. stack' = stack \ {d} /\ opened' = opened \union {d} /\ missed' = missed \union {d}
    BY <1>3 DEF SkipDirectory, Pop
  <2>2. (stack \union opened)' = stack \union opened
    BY <2>1
  <2> QED
    BY <1>0, <1>2, <2>1, <2>2 DEF OnlyReachable
<1>4. ASSUME NEW x \in pending, SkipEntry(x) PROVE OnlyReachable'
  <2>1. missed' = missed \union {x} /\ UNCHANGED <<stack, opened>>
    BY <1>4 DEF SkipEntry, Take
  <2> QED
    BY <1>0, <1>2, <2>1 DEF OnlyReachable
<1>5. ASSUME NEW x \in pending, PushDirectory(x) PROVE OnlyReachable'
  <2>1. stack' = stack \union {x} /\ x \in Dir /\ UNCHANGED <<opened, missed>>
    BY <1>0, <1>5 DEF PushDirectory, Take, Dir
  <2>2. x # Root /\ x \notin missed
    BY <1>0 DEF OnlyReachable, Listed
  <2>3. PICK d \in opened \ missed : x \in Children[d]
    BY <2>2 DEF Listed, Met
  <2> SUFFICES ASSUME NEW C \in SUBSET Node, ClosedSoFar(C)
               PROVE  (stack' \union opened) \ missed \subseteq C
    BY <2>1 DEF OnlyReachable, ClosedSoFar
  <2>4. (stack \union opened) \ missed \subseteq C
    BY DEF OnlyReachable
  <2>5. x \in C
    BY <2>1, <2>2, <2>3, <2>4 DEF ClosedSoFar
  <2> QED
    BY <2>1, <2>4, <2>5
<1>6. ASSUME NEW x \in pending, PassOther(x) \/ CountFile(x) PROVE OnlyReachable'
  BY <1>6 DEF PassOther, CountFile, Take, OnlyReachable, ClosedSoFar
<1>7. CASE Finish \/ UNCHANGED vars
  BY <1>7 DEF Finish, vars, OnlyReachable, ClosedSoFar
<1> QED
  BY <1>1, <1>3, <1>4, <1>5, <1>6, <1>7 DEF Next

\* A walk that ends has counted the files that can be reached.
LEMMA FinishReaches ==
  ASSUME IInv, Listed, OnlyReachable, Finish
  PROVE  seen = Reachable \cap File
<1>0. /\ opened \subseteq Dir /\ seen \subseteq File /\ Dir \cap File = {} /\ Dir \subseteq Node
      /\ stack = {} /\ pending = {}
  BY DEF IInv, TypeOK, Dir, File, Finish
<1>1. opened \ missed \subseteq ReachableDirs
  <2> SUFFICES ASSUME NEW d \in opened \ missed, NEW C \in SUBSET Dir, Closed(C)
               PROVE  d \in C
    BY <1>0 DEF ReachableDirs
  <2>1. ClosedSoFar(C)
    BY DEF ClosedSoFar, Closed
  <2>2. C \in SUBSET Node
    BY <1>0
  <2> QED
    BY <2>1, <2>2 DEF OnlyReachable
<1>2. ReachableDirs \subseteq opened
  <2>1. Closed(opened)
    <3> SUFFICES ASSUME NEW d \in opened \ missed, NEW x \in (Children[d] \cap Dir) \ missed
                 PROVE  x \in opened
      BY <1>0 DEF Closed, Listed
    <3>1. Kind[x] \in {"dir", "file"} /\ x \notin File
      BY <1>0 DEF Dir
    <3>2. x \in Met
      BY <3>1 DEF Listed
    <3> QED
      BY <1>0, <3>1, <3>2 DEF Met
  <2> QED
    BY <1>0, <2>1 DEF ReachableDirs
<1>3. seen \subseteq Reachable
  <2> SUFFICES ASSUME NEW x \in seen PROVE x \in Reachable
    OBVIOUS
  <2>1. x # Root /\ x \notin missed
    BY <1>0, TreeAssumption DEF Listed
  <2>2. PICK d \in opened \ missed : x \in Children[d]
    BY <2>1 DEF Listed, Met
  <2> QED
    BY <1>1, <2>1, <2>2 DEF Reachable
<1>4. Reachable \cap File \subseteq seen
  <2> SUFFICES ASSUME NEW x \in File, NEW d \in ReachableDirs \ missed, x \in Children[d] \ missed
               PROVE  x \in seen
    BY DEF Reachable
  <2>1. x \in Met
    BY <1>2 DEF Listed, File
  <2> QED
    BY <1>0, <2>1 DEF Met
<1> QED
  BY <1>0, <1>3, <1>4

-----------------------------------------------------------------------------
(* The report.                                                             *)

\* The invariant of the whole walk, its report included.
ReportInv ==
  /\ IInv /\ TotalsInv /\ Listed /\ OnlyReachable
  /\ RanksExact /\ TotalsExact

\* Each step keeps the totals.
LEMMA NextTotalsInv == IInv /\ TotalsInv /\ [Next]_vars => TotalsInv'
<1> SUFFICES ASSUME IInv, TotalsInv, [Next]_vars PROVE TotalsInv'
  OBVIOUS
<1>1. ASSUME UNCHANGED <<filesSeen, bytesSeen, seen, report>>, pc' = "walk" => pc = "walk"
      PROVE  TotalsInv'
  BY <1>1 DEF TotalsInv
<1>2. ASSUME NEW d \in stack, OpenDirectory(d) \/ SkipDirectory(d) PROVE TotalsInv'
  BY <1>1, <1>2 DEF OpenDirectory, SkipDirectory, Pop, kept
<1>3. ASSUME NEW x \in pending, SkipEntry(x) \/ PushDirectory(x) \/ PassOther(x) PROVE TotalsInv'
  BY <1>1, <1>3 DEF SkipEntry, PushDirectory, PassOther, Take, kept
<1>4. ASSUME NEW x \in pending, CountFile(x) PROVE TotalsInv'
  <2>1. x \in File /\ x \notin seen /\ seen \subseteq File
    BY <1>4 DEF CountFile, IInv, TypeOK, WalkInv, File
  <2>2. seen' = seen \union {x}
    BY <1>4 DEF CountFile
  <2>3. IsFiniteSet(seen') /\ Cardinality(seen') = Cardinality(seen) + 1
    BY <2>1, <2>2, FS_AddElement DEF TotalsInv
  <2>4. Cardinality(seen) \in Nat
    BY FS_CardinalityType DEF TotalsInv
  <2>5. Sum(seen) \in Nat /\ Sum(seen') = Sum(seen) + Size[x]
    BY <2>1, <2>2, SumAdd DEF TotalsInv
  <2>6. Size[x] \in Nat /\ MaxTotal \in Nat
    BY <2>1, SizeAssumption
  <2>7. filesSeen' = SaturatingAdd(Cardinality(seen'), 0)
    <3>1. filesSeen' = SaturatingAdd(SaturatingAdd(Cardinality(seen), 0), 1)
      BY <1>4 DEF CountFile, TotalsInv
    <3> QED
      BY <2>3, <2>4, <2>6, <3>1 DEF SaturatingAdd
  <2>8. bytesSeen' = SaturatingAdd(Sum(seen'), 0)
    <3>1. bytesSeen' = SaturatingAdd(SaturatingAdd(Sum(seen), 0), Size[x])
      BY <1>4 DEF CountFile, TotalsInv
    <3> QED
      BY <2>5, <2>6, <3>1 DEF SaturatingAdd
  <2>9. pc' = "walk" => report' = <<>>
    BY <1>4 DEF CountFile, Take, TotalsInv
  <2> QED
    BY <2>3, <2>7, <2>8, <2>9 DEF TotalsInv
<1>5. ASSUME Finish PROVE TotalsInv'
  BY <1>5 DEF Finish, kept, TotalsInv
<1>6. CASE UNCHANGED vars
  BY <1>1, <1>6 DEF vars
<1> QED
  BY <1>2, <1>3, <1>4, <1>5, <1>6 DEF Next

\* The walk begins with empty totals and no report.
LEMMA InitReportInv == Init => ReportInv
<1> SUFFICES ASSUME Init PROVE ReportInv
  OBVIOUS
<1>1. SaturatingAdd(0, 0) = 0
  BY SizeAssumption DEF SaturatingAdd
<1>2. TotalsInv
  BY <1>1, FS_EmptySet, SumEmpty DEF Init, TotalsInv
<1>3. RanksExact /\ TotalsExact
  BY DEF Init, RanksExact, TotalsExact
<1> QED
  BY <1>2, <1>3, InitIInv, InitListed DEF ReportInv

\* Each step preserves the invariant; only Finish makes a report.
LEMMA NextReportInv == ReportInv /\ [Next]_vars => ReportInv'
<1> SUFFICES ASSUME ReportInv, [Next]_vars PROVE ReportInv'
  OBVIOUS
<1> USE DEF ReportInv
<1>1. (IInv /\ TotalsInv /\ Listed /\ OnlyReachable)'
  BY NextIInv, NextTotalsInv, NextListed, NextOnlyReachable
<1>2. (RanksExact /\ TotalsExact)'
  <2>1. CASE pc = "walk" /\ pc' = "walk"
    <3>1. report' = <<>>
      BY <1>1, <2>1 DEF TotalsInv
    <3> QED
      BY <2>1, <3>1 DEF RanksExact, TotalsExact
  <2>2. CASE Finish
    <3>1. RanksExact'
      BY <2>2, FinishRanks DEF IInv, TotalsInv
    <3>2. seen = Reachable \cap File
      BY <2>2, FinishReaches
    <3>3. UNCHANGED <<seen, missed, filesSeen, bytesSeen>>
      BY <2>2 DEF Finish, kept
    <3>4. Reachable' = Reachable
      BY <3>3 DEF Reachable, ReachableDirs, Closed
    <3>5. TotalsExact'
      BY <3>2, <3>3, <3>4 DEF TotalsExact, TotalsInv
    <3> QED
      BY <3>1, <3>5
  <2>3. CASE UNCHANGED vars
    BY <2>3 DEF vars, RanksExact, TotalsExact, Reachable, ReachableDirs, Closed
  <2>4. CASE Next /\ ~Finish
    <3>1. pc = "walk" /\ pc' = "walk"
      BY <2>4 DEF Next, OpenDirectory, SkipDirectory, Pop, SkipEntry, PushDirectory,
                  PassOther, CountFile, Take
    <3> QED
      BY <2>1, <3>1
  <2> QED
    BY <2>2, <2>3, <2>4
<1> QED
  BY <1>1, <1>2

\* The report of scan_largest ranks exactly: the i-th file has the i-th largest
\* size of all files counted, and ties stand in the order of their texts.
THEOREM ReportRanksExactly == Spec => []RanksExact
<1>1. Spec => []ReportInv
  BY InitReportInv, NextReportInv, PTL DEF Spec
<1>2. ReportInv => RanksExact
  BY DEF ReportInv
<1> QED
  BY <1>1, <1>2, PTL

\* The totals of scan_largest are those of every file that can be reached without
\* passing a link or something unreadable, each counted once.
THEOREM TotalsAreExact == Spec => []TotalsExact
<1>1. Spec => []ReportInv
  BY InitReportInv, NextReportInv, PTL DEF Spec
<1>2. ReportInv => TotalsExact
  BY DEF ReportInv
<1> QED
  BY <1>1, <1>2, PTL

-----------------------------------------------------------------------------
(* The walk ends: what can be said of it without fairness.                *)

\* How far a walk is from its end: directories it has not opened, then children of
\* the listing it has not looked at.
Unopened == Cardinality(Dir \ opened)
Unlooked == Cardinality(pending)

WalkAdvances ==
  \/ Unopened' < Unopened
  \/ Unopened' = Unopened /\ Unlooked' < Unlooked
  \/ pc = "walk" /\ pc' = "done"

\* Every step of scan_largest brings it nearer to its end, and nothing follows the
\* report.
THEOREM WalkAlwaysAdvances ==
  ASSUME IsFiniteSet(Node)
  PROVE  Spec => [][WalkAdvances /\ {Unopened', Unlooked'} \subseteq Nat]_vars
<1> DEFINE Goal == WalkAdvances /\ {Unopened', Unlooked'} \subseteq Nat
<1>1. IInv => /\ IsFiniteSet(Dir \ opened) /\ IsFiniteSet(pending)
              /\ Unopened \in Nat /\ Unlooked \in Nat
  <2> SUFFICES ASSUME IInv
               PROVE  /\ IsFiniteSet(Dir \ opened) /\ IsFiniteSet(pending)
                      /\ Unopened \in Nat /\ Unlooked \in Nat
    OBVIOUS
  <2>1. pending \subseteq Node /\ Dir \ opened \subseteq Node
    BY DEF IInv, TypeOK, Dir
  <2>2. IsFiniteSet(Dir \ opened) /\ IsFiniteSet(pending)
    BY <2>1, FS_Subset
  <2> QED
    BY <2>2, FS_CardinalityType DEF Unopened, Unlooked
<1>2. (IInv => /\ IsFiniteSet(Dir \ opened) /\ IsFiniteSet(pending)
               /\ Unopened \in Nat /\ Unlooked \in Nat)'
  BY <1>1, PTL
<1>3. IInv /\ IInv' /\ [Next]_vars => [Goal]_vars
  <2> SUFFICES ASSUME IInv, IInv', Next PROVE Goal
    OBVIOUS
  <2>1. IsFiniteSet(Dir \ opened) /\ IsFiniteSet(pending) /\ Unopened \in Nat /\ Unlooked \in Nat
    BY <1>1
  <2>2. Unopened' \in Nat /\ Unlooked' \in Nat
    BY <1>2
  <2>3. ASSUME NEW d \in stack, OpenDirectory(d) \/ SkipDirectory(d) PROVE Goal
    <3>1. d \in Dir \ opened /\ opened' = opened \union {d}
      BY <2>3 DEF OpenDirectory, SkipDirectory, Pop, IInv, TypeOK, WalkInv
    <3>2. Dir \ opened' = (Dir \ opened) \ {d}
      BY <3>1
    <3>3. Unopened' = Unopened - 1
      BY <2>1, <3>1, <3>2, FS_RemoveElement DEF Unopened
    <3> QED
      BY <2>1, <2>2, <3>3 DEF WalkAdvances
  <2>4. ASSUME NEW x \in pending, SkipEntry(x) \/ PushDirectory(x) \/ PassOther(x) \/ CountFile(x)
        PROVE  Goal
    <3>1. pending' = pending \ {x} /\ opened' = opened
      BY <2>4 DEF SkipEntry, PushDirectory, PassOther, CountFile, Take
    <3>2. Unlooked' = Unlooked - 1
      BY <2>1, <3>1, FS_RemoveElement DEF Unlooked
    <3>3. Unopened' = Unopened
      BY <3>1 DEF Unopened
    <3> QED
      BY <2>1, <2>2, <3>2, <3>3 DEF WalkAdvances
  <2>5. CASE Finish
    BY <2>2, <2>5 DEF Finish, WalkAdvances
  <2> QED
    BY <2>3, <2>4, <2>5 DEF Next
<1> QED
  BY AlwaysIInv, <1>3, PTL DEF Spec

=============================================================================
