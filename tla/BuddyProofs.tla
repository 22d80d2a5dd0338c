---------------------------- MODULE BuddyProofs ----------------------------
(***************************************************************************)
(* Theorems about Buddy, for every heap, every board and any number of     *)
(* tasks.                                                                  *)
(***************************************************************************)
EXTENDS Buddy, TaskListsProofs, FiniteSetTheorems, WellFoundedInduction

-----------------------------------------------------------------------------
(* The inductive invariant *)

\* The unit at x is one of block b.
In(x, b) == Base(x, b[2]) = b[1]

\* No unit is in two blocks of P.
Apart(P) == \A x \in Nat : \A b, c \in P : In(x, b) /\ In(x, c) => b = c

Blocks == FreeBlocks \cup UsedBlocks

\* The block b lies in region i.
Inside(b, i) ==
    /\ i \in DOMAIN regions
    /\ b[2] <= regions[i].order
    /\ Base(b[1], regions[i].order) = regions[i].start

Region == [start : Nat, order : Nat, flags : SUBSET UNION Flags]

\* A region is aligned, and smaller than the largest block a list is for.
Placed(r) ==
    r.order < MAX_ADDRESSABLE_MEM_ORDER /\ Base(r.start, r.order) = r.start

RegionsGood ==
    /\ regions \in Seq(Region) /\ mm_available \in Nat
    /\ \A i \in DOMAIN regions : Placed(regions[i])

\* Where a task stands tells whether it has a request, and a block to free.
Places ==
    /\ DOMAIN req = Tasks /\ DOMAIN blk = Tasks
    /\ \A t \in Tasks :
         /\ pc[t] \in {"alloc", "page"}
              => req[t] \in AllOrders \X (Flags \cup {{}})
         /\ pc[t] \in {Idle, "page"} => blk[t] = None
         /\ pc[t] \in {"uncount", "free"} => blk[t] # None

\* Blocks are aligned, and their headers name the region they lie in.
BlocksGood ==
    \A b \in Blocks :
      /\ Base(b[1], b[2]) = b[1]
      /\ b[1] \in DOMAIN region
      /\ Inside(b, region[b[1]])

\* Every unit of a region is in a block.
Cover ==
    \A i \in DOMAIN regions : \A x \in Nat :
      Base(x, regions[i].order) = regions[i].start => \E b \in Blocks : In(x, b)

\* A free block is on one list once, a block in use in one pair of hands.
ListedOnce == \A o \in AllOrders : IsInjective(mm_bucket[o])
Hands ==
    /\ \A t \in Tasks : blk[t] \notin held
    /\ \A t, u \in Tasks : blk[t] # None /\ blk[t] = blk[u] => t = u

Counted == IsFiniteSet(Memory) /\ Cardinality(Memory) = total

Divided ==
    /\ BlocksGood /\ Apart(Blocks) /\ Cover
    /\ ListedOnce /\ FreeBlocks \cap UsedBlocks = {}
    /\ FullyMerged /\ Counted

Kept == TypeOK /\ Places /\ Hands /\ Divided

BuddyInv == RegionsGood /\ (RegionsDisjoint => Kept)

-----------------------------------------------------------------------------
(* Powers of two *)

\* Every set of numbers has a least one.
LEMMA LeastExists ==
    ASSUME NEW S \in SUBSET Nat, S # {}
    PROVE  \E i \in S : \A k \in S : i <= k
  <1> DEFINE R == OpToRel(<, Nat)
  <1>1. \E i \in S : \A k \in S : ~ (<<k, i>> \in R)
    BY NatLessThanWellFounded, WFMin, Zenon
  <1>2. \A k, i \in Nat : <<k, i>> \in R <=> k < i
    BY DEF OpToRel
  <1>3. \E i \in S : \A k \in S : ~ (k < i)
    BY <1>1, <1>2, Zenon
  <1> QED
    BY <1>3

\* A block of order n has as many units as n elements have subsets.
LEMMA SizeCard ==
    ASSUME NEW n \in Nat
    PROVE  /\ IsFiniteSet(SUBSET (1..n))
           /\ Cardinality(SUBSET (1..n)) = order_to_size(n)
  <1>1. IsFiniteSet(1..n) /\ Cardinality(1..n) = n
    BY FS_Interval
  <1> QED
    BY <1>1, FS_SUBSET DEF order_to_size

\* A size is positive.
LEMMA SizeType ==
    ASSUME NEW n \in Nat
    PROVE  order_to_size(n) \in Nat /\ order_to_size(n) > 0
  <1>1. Cardinality(SUBSET (1..n)) \in Nat
    BY SizeCard, FS_CardinalityType
  <1>2. Cardinality(SUBSET (1..n)) # 0
    BY SizeCard, FS_EmptySet
  <1> QED
    BY <1>1, <1>2, SizeCard

\* A block of order 0 is a unit.
LEMMA SizeZero == order_to_size(0) = 1
  BY DEF order_to_size

\* A block is two blocks of the order below.
LEMMA SizeDouble ==
    ASSUME NEW n \in Nat
    PROVE  order_to_size(n + 1) = 2 * order_to_size(n)
  <1> DEFINE A == SUBSET (1..n)
             B == {T \cup {n + 1} : T \in A}
             f == [T \in A |-> T \cup {n + 1}]
  <1>1. 1..(n + 1) = (1..n) \cup {n + 1} /\ n + 1 \notin 1..n
    OBVIOUS
  <1>2. SUBSET (1..(n + 1)) = A \cup B
    <2>1. ASSUME NEW U \in SUBSET (1..(n + 1)) PROVE U \in A \cup B
      <3>1. CASE n + 1 \in U
        <4>1. U \ {n + 1} \in A
          BY <1>1
        <4>2. U = (U \ {n + 1}) \cup {n + 1}
          BY <3>1
        <4> QED
          BY <4>1, <4>2
      <3>2. CASE n + 1 \notin U
        BY <3>2, <1>1
      <3> QED
        BY <3>1, <3>2
    <2>2. A \cup B \subseteq SUBSET (1..(n + 1))
      BY <1>1
    <2> QED
      BY <2>1, <2>2
  <1>3. A \cap B = {}
    BY <1>1
  <1>4. f \in Bijection(A, B)
    <2>1. f \in Surjection(A, B)
      BY DEF Surjection
    <2>2. ASSUME NEW T \in A, NEW U \in A, f[T] = f[U] PROVE T = U
      BY <1>1, <2>2
    <2>3. f \in [A -> B] /\ DOMAIN f = A
      OBVIOUS
    <2> HIDE DEF A, B, f
    <2>4. IsInjective(f)
      BY <2>2, <2>3 DEF IsInjective
    <2>5. f \in Injection(A, B)
      BY <2>3, <2>4 DEF Injection
    <2> QED
      BY <2>1, <2>5 DEF Bijection
  <1>5. IsFiniteSet(A) /\ Cardinality(A) = order_to_size(n)
    BY SizeCard
  <1>6. IsFiniteSet(B) /\ Cardinality(B) = Cardinality(A)
    BY <1>4, <1>5, FS_Bijection DEF ExistsBijection
  <1>7. Cardinality(A \cup B)
          = Cardinality(A) + Cardinality(B) - Cardinality(A \cap B)
    BY <1>5, <1>6, FS_Union
  <1>8. Cardinality(A \cap B) = 0
    BY <1>3, FS_EmptySet
  <1>9. ASSUME NEW m \in Nat, m = n + 1
        PROVE  Cardinality(SUBSET (1..(n + 1))) = order_to_size(n + 1)
    BY <1>9, SizeCard
  <1>10. Cardinality(A \cup B) = order_to_size(n + 1)
    <2>1. n + 1 \in Nat
      OBVIOUS
    <2> HIDE DEF A, B
    <2> QED
      BY <2>1, <1>2, <1>9
  <1>11. order_to_size(n) \in Nat
    BY SizeType
  <1> HIDE DEF A, B
  <1> QED
    BY <1>5, <1>6, <1>7, <1>8, <1>10, <1>11

\* A larger order is a larger size.
LEMMA SizeMono ==
    ASSUME NEW i \in Nat, NEW j \in Nat, i < j
    PROVE  order_to_size(i) < order_to_size(j)
  <1> DEFINE S == {k \in Nat : i < k /\ ~ (order_to_size(i) < order_to_size(k))}
  <1> SUFFICES ASSUME S # {} PROVE FALSE
    OBVIOUS
  <1>1. PICK k \in S : \A l \in S : k <= l
    BY LeastExists
  <1>2. k - 1 \in Nat /\ k - 1 \notin S
    BY <1>1
  <1>3. order_to_size(k) = 2 * order_to_size(k - 1)
    BY <1>2, SizeDouble
  <1>4. order_to_size(k - 1) \in Nat /\ order_to_size(k - 1) > 0
    BY <1>2, SizeType
  <1>5. order_to_size(i) \in Nat
    BY SizeType
  <1>6. CASE k - 1 = i
    BY <1>3, <1>4, <1>6
  <1>7. CASE i < k - 1
    BY <1>2, <1>3, <1>4, <1>5, <1>7
  <1> QED
    BY <1>1, <1>6, <1>7

\* A size is larger than its order.
LEMMA SizeGrows ==
    ASSUME NEW n \in Nat
    PROVE  n < order_to_size(n)
  <1> DEFINE S == {k \in Nat : ~ (k < order_to_size(k))}
  <1> SUFFICES ASSUME S # {} PROVE FALSE
    OBVIOUS
  <1>1. PICK k \in S : \A l \in S : k <= l
    BY LeastExists
  <1>2. k # 0
    BY <1>1, SizeZero
  <1>3. k - 1 \in Nat /\ k - 1 < order_to_size(k - 1)
    BY <1>1, <1>2
  <1>4. order_to_size(k) = 2 * order_to_size(k - 1)
    BY <1>3, SizeDouble
  <1>5. order_to_size(k - 1) \in Nat
    BY <1>3, SizeType
  <1> QED
    BY <1>1, <1>3, <1>4, <1>5

-----------------------------------------------------------------------------
(* Where blocks lie *)

\* Division with remainder.
LEMMA DivMod ==
    ASSUME NEW a \in Nat, NEW s \in Nat, s > 0
    PROVE  /\ a \div s \in Nat /\ a % s \in Nat /\ a % s < s
           /\ a = s * (a \div s) + (a % s)
  OBVIOUS

\* A quotient is the only one.
LEMMA DivUnique ==
    ASSUME NEW a \in Nat, NEW s \in Nat, s > 0, NEW d \in Nat,
           s * d <= a, a < s * d + s
    PROVE  a \div s = d
  OBVIOUS

\* Multiples of a size are equal when their factors are.
LEMMA MulCancel ==
    ASSUME NEW s \in Nat, s > 0, NEW d \in Int, NEW e \in Int, s * d = s * e
    PROVE  d = e
  OBVIOUS

\* The blocks of each order are numbered from address 0.
Num(x, k) == x \div order_to_size(k)

\* A block starts at a multiple of its size and holds its units.
LEMMA BaseNum ==
    ASSUME NEW x \in Nat, NEW k \in Nat
    PROVE  /\ Num(x, k) \in Nat
           /\ Base(x, k) = order_to_size(k) * Num(x, k)
           /\ Base(x, k) \in Nat
           /\ Base(x, k) <= x /\ x < Base(x, k) + order_to_size(k)
  <1> DEFINE s == order_to_size(k)
             d == x \div s
             r == x % s
  <1>1. s \in Nat /\ s > 0
    BY SizeType
  <1> HIDE DEF s
  <1>2. d \in Nat /\ r \in Nat /\ r < s /\ x = s * d + r
    BY <1>1, DivMod
  <1>3. s * d \in Nat
    BY <1>1, <1>2
  <1>4. Base(x, k) = x - r /\ Num(x, k) = d
    BY DEF Base, Num, s
  <1> HIDE DEF d, r
  <1> QED
    BY <1>1, <1>2, <1>3, <1>4 DEF s

\* The number of the block that starts at a multiple of the size.
LEMMA NumMul ==
    ASSUME NEW d \in Nat, NEW k \in Nat
    PROVE  /\ order_to_size(k) * d \in Nat
           /\ Num(order_to_size(k) * d, k) = d
           /\ Base(order_to_size(k) * d, k) = order_to_size(k) * d
  <1> DEFINE s == order_to_size(k)
             y == s * d
  <1>1. s \in Nat /\ s > 0
    BY SizeType
  <1> HIDE DEF s
  <1>2. y \in Nat /\ s * d <= y /\ y < s * d + s
    BY <1>1
  <1>3. y \div s = d
    BY <1>1, <1>2, DivUnique
  <1>4. Num(y, k) = d
    BY <1>3 DEF Num, s
  <1>5. Base(y, k) = s * Num(y, k)
    BY <1>2, BaseNum DEF s
  <1> QED
    BY <1>2, <1>4, <1>5 DEF s

\* Two units are in one block when its number is the same.
LEMMA SameBase ==
    ASSUME NEW x \in Nat, NEW y \in Nat, NEW k \in Nat
    PROVE  Base(x, k) = Base(y, k) <=> Num(x, k) = Num(y, k)
  <1> DEFINE s == order_to_size(k)
             d == Num(x, k)
             e == Num(y, k)
  <1>1. s \in Nat /\ s > 0
    BY SizeType
  <1>2. /\ d \in Nat /\ Base(x, k) = s * d
        /\ e \in Nat /\ Base(y, k) = s * e
    BY BaseNum
  <1> HIDE DEF s, d, e
  <1>3. s * d = s * e => d = e
    BY <1>1, <1>2, MulCancel
  <1> QED
    BY <1>2, <1>3 DEF d, e

\* A block is in the block above with half its number.
LEMMA NumNext ==
    ASSUME NEW x \in Nat, NEW k \in Nat
    PROVE  Num(x, k + 1) = Num(x, k) \div 2
  <1> DEFINE s == order_to_size(k)
             d == Num(x, k)
             e == d \div 2
  <1>1. s \in Nat /\ s > 0 /\ order_to_size(k + 1) = 2 * s
    BY SizeType, SizeDouble
  <1>2. d \in Nat /\ s * d <= x /\ x < s * d + s
    BY BaseNum
  <1> HIDE DEF s, d
  <1>3. e \in Nat /\ (d = 2 * e \/ d = 2 * e + 1)
    BY <1>2
  <1> HIDE DEF e
  <1>4. (2 * s) * e <= x /\ x < (2 * s) * e + 2 * s
    <2>1. CASE d = 2 * e
      <3>1. s * d = (2 * s) * e
        BY <1>1, <1>3, <2>1
      <3>2. (2 * s) * e \in Nat
        BY <1>1, <1>3
      <3> QED
        BY <1>1, <1>2, <3>1, <3>2
    <2>2. CASE d = 2 * e + 1
      <3>1. s * d = (2 * s) * e + s
        BY <1>1, <1>3, <2>2
      <3>2. (2 * s) * e \in Nat
        BY <1>1, <1>3
      <3> QED
        BY <1>1, <1>2, <3>1, <3>2
    <2> QED
      BY <1>3, <2>1, <2>2
  <1>5. 2 * s \in Nat /\ 2 * s > 0
    BY <1>1
  <1>6. x \div (2 * s) = e
    BY <1>3, <1>4, <1>5, DivUnique
  <1> QED
    BY <1>1, <1>6 DEF Num, d, e

\* Units that share a block share the larger ones.
LEMMA BaseUp ==
    ASSUME NEW x \in Nat, NEW y \in Nat, NEW j \in Nat, NEW k \in Nat, j <= k,
           Base(x, j) = Base(y, j)
    PROVE  Base(x, k) = Base(y, k)
  <1> DEFINE S == {m \in Nat : j <= m /\ Num(x, m) # Num(y, m)}
  <1>1. CASE S = {}
    BY <1>1, SameBase
  <1>2. CASE S # {}
    <2>1. PICK m \in S : \A l \in S : m <= l
      BY <1>2, LeastExists
    <2>2. m # j
      BY <2>1, SameBase
    <2>3. m - 1 \in Nat /\ m - 1 \notin S
      BY <2>1, <2>2
    <2>4. Num(x, m - 1) = Num(y, m - 1)
      BY <2>1, <2>2, <2>3
    <2>5. Num(x, m) = Num(x, m - 1) \div 2 /\ Num(y, m) = Num(y, m - 1) \div 2
      <3>1. (m - 1) + 1 = m
        BY <2>1
      <3> QED
        BY <2>3, <3>1, NumNext
    <2> QED
      BY <2>1, <2>4, <2>5
  <1> QED
    BY <1>1, <1>2

\* The start of a block is in it, and on a multiple of each smaller size.
LEMMA BaseBase ==
    ASSUME NEW x \in Nat, NEW j \in Nat, NEW k \in Nat, j <= k
    PROVE  /\ Base(Base(x, j), k) = Base(x, k)
           /\ Base(Base(x, k), j) = Base(x, k)
  <1>1. \A i \in Nat : Base(x, i) \in Nat /\ Base(Base(x, i), i) = Base(x, i)
    BY BaseNum, NumMul
  <1>2. Base(Base(x, j), k) = Base(x, k)
    BY <1>1, BaseUp
  <1>3. Base(Base(x, k), j) = Base(x, k)
    <2> DEFINE y == Base(x, k)
               S == {m \in Nat : m <= k /\ Base(y, k - m) # y}
    <2>1. y \in Nat /\ Base(y, k) = y
      BY <1>1
    <2> HIDE DEF y
    <2>2. CASE S = {}
      <3>1. k - j \in Nat /\ k - j <= k /\ k - (k - j) = j
        OBVIOUS
      <3>2. \A m \in Nat : m <= k => Base(y, k - m) = y
        BY <2>2
      <3>3. Base(y, k - (k - j)) = y
        BY <3>1, <3>2
      <3> QED
        BY <3>1, <3>3 DEF y
    <2>3. CASE S # {}
      <3>1. PICK m \in S : \A l \in S : m <= l
        BY <2>3, LeastExists
      <3>2. m # 0
        BY <2>1, <3>1
      <3> DEFINE i == k - m
      <3>3. i \in Nat /\ Base(y, i) # y
        BY <3>1
      <3>4. m - 1 \in Nat /\ m - 1 \notin S /\ k - (m - 1) = i + 1
        BY <3>1, <3>2
      <3>5. Base(y, i + 1) = y
        BY <3>1, <3>4
      <3> HIDE DEF i
      <3> DEFINE s == order_to_size(i)
                 d == Num(y, i + 1)
      <3>6. d \in Nat /\ y = order_to_size(i + 1) * d
        <4>1. i + 1 \in Nat
          BY <3>3
        <4> QED
          BY <2>1, <3>5, <4>1, BaseNum
      <3>7. s \in Nat /\ order_to_size(i + 1) = 2 * s
        BY <3>3, SizeType, SizeDouble
      <3> HIDE DEF s, d
      <3>8. y = s * (2 * d) /\ 2 * d \in Nat
        BY <3>6, <3>7
      <3>9. Base(s * (2 * d), i) = s * (2 * d)
        BY <3>3, <3>8, NumMul DEF s
      <3> QED
        BY <3>3, <3>8, <3>9
    <2> QED
      BY <2>2, <2>3
  <1> QED
    BY <1>2, <1>3

\* The number of a block's buddy differs in its last bit.
LEMMA BuddyNum ==
    ASSUME NEW x \in Nat, NEW k \in Nat
    PROVE  LET d == Num(x, k)
               e == IF d % 2 = 1 THEN d - 1 ELSE d + 1
           IN  /\ e \in Nat /\ e # d /\ e \div 2 = d \div 2
               /\ \A c \in Nat : c \div 2 = d \div 2 => c = d \/ c = e
               /\ BuddyOf(x, k) = order_to_size(k) * e
  <1> DEFINE s == order_to_size(k)
             d == Num(x, k)
             e == IF d % 2 = 1 THEN d - 1 ELSE d + 1
  <1>1. s \in Nat /\ s > 0
    BY SizeType
  <1>2. d \in Nat /\ Base(x, k) = s * d /\ Base(x, k) \in Nat
    BY BaseNum
  <1>3. Base(x, k) \div s = d
    BY <1>2, NumMul DEF Num
  <1>4. BuddyOf(x, k) = IF d % 2 = 1 THEN s * d - s ELSE s * d + s
    BY <1>2, <1>3 DEF BuddyOf
  <1> HIDE DEF s, d
  <1>5. d % 2 = 1 => d - 1 \in Nat /\ (d - 1) \div 2 = d \div 2
    BY <1>2
  <1>6. d % 2 # 1 => (d + 1) \div 2 = d \div 2
    BY <1>2
  <1>7. /\ e \in Nat /\ e # d /\ e \div 2 = d \div 2
        /\ \A c \in Nat : c \div 2 = d \div 2 => c = d \/ c = e
    BY <1>2, <1>5, <1>6
  <1>8. s * (d - 1) = s * d - s /\ s * (d + 1) = s * d + s
    BY <1>1, <1>2
  <1> QED
    BY <1>4, <1>7, <1>8 DEF s, d

\* The two halves of a block are a block and its buddy.
LEMMA Halves ==
    ASSUME NEW x \in Nat, NEW k \in Nat
    PROVE  /\ BuddyOf(x, k) \in Nat
           /\ Base(BuddyOf(x, k), k) = BuddyOf(x, k)
           /\ BuddyOf(x, k) # Base(x, k)
           /\ \A y \in Nat :
                Base(y, k + 1) = Base(x, k + 1)
                  <=> Base(y, k) \in {Base(x, k), BuddyOf(x, k)}
  <1> DEFINE s == order_to_size(k)
             d == Num(x, k)
             e == IF d % 2 = 1 THEN d - 1 ELSE d + 1
  <1>1. s \in Nat /\ s > 0
    BY SizeType
  <1>2. d \in Nat /\ Base(x, k) = s * d
    BY BaseNum
  <1>3. /\ e \in Nat /\ e # d /\ e \div 2 = d \div 2
        /\ \A c \in Nat : c \div 2 = d \div 2 => c = d \/ c = e
        /\ BuddyOf(x, k) = s * e
    BY BuddyNum
  <1> HIDE DEF e
  <1>4. s * e \in Nat /\ Base(s * e, k) = s * e
    BY <1>3, NumMul
  <1> HIDE DEF d, s
  <1>5. s * e # s * d
    BY <1>1, <1>2, <1>3, MulCancel
  <1>6. ASSUME NEW y \in Nat
        PROVE  Base(y, k + 1) = Base(x, k + 1)
                 <=> Base(y, k) \in {s * d, s * e}
    <2> DEFINE c == Num(y, k)
    <2>1. c \in Nat /\ Base(y, k) = s * c
      BY BaseNum DEF s
    <2>2. Num(y, k + 1) = c \div 2 /\ Num(x, k + 1) = d \div 2
      BY NumNext DEF d
    <2>3. Base(y, k + 1) = Base(x, k + 1) <=> c \div 2 = d \div 2
      <3>1. k + 1 \in Nat
        OBVIOUS
      <3> QED
        BY <2>2, <3>1, SameBase
    <2> HIDE DEF c
    <2>4. c \div 2 = d \div 2 <=> (c = d \/ c = e)
      BY <1>3, <2>1
    <2>5. s * c = s * d => c = d
      BY <1>1, <1>2, <2>1, MulCancel
    <2>6. s * c = s * e => c = e
      BY <1>1, <1>3, <2>1, MulCancel
    <2> QED
      BY <2>1, <2>3, <2>4, <2>5, <2>6
  <1> QED
    BY <1>2, <1>3, <1>4, <1>5, <1>6

\* The units of a block, for a block that starts at a multiple of its size.
LEMMA UnitsIn ==
    ASSUME NEW a \in Nat, NEW k \in Nat, Base(a, k) = a
    PROVE  /\ Units(a, k) \subseteq Nat
           /\ \A x \in Nat : x \in Units(a, k) <=> Base(x, k) = a
  <1> DEFINE s == order_to_size(k)
  <1>1. s \in Nat /\ s > 0
    BY SizeType
  <1>2. Num(a, k) \in Nat /\ a = s * Num(a, k)
    BY BaseNum
  <1>3. ASSUME NEW x \in Nat, a <= x, x < a + s PROVE Base(x, k) = a
    <2>1. x \div s = Num(a, k)
      BY <1>1, <1>2, <1>3, DivUnique
    <2> QED
      BY <1>2, <2>1, BaseNum DEF Num
  <1>4. ASSUME NEW x \in Nat, Base(x, k) = a PROVE a <= x /\ x < a + s
    BY <1>4, BaseNum
  <1> HIDE DEF s
  <1>5. \A x \in Int : x \in Units(a, k) <=> a <= x /\ x < a + s
    BY <1>1 DEF Units, s
  <1>6. Units(a, k) \subseteq Nat
    BY <1>1 DEF Units, s
  <1> QED
    BY <1>3, <1>4, <1>5, <1>6

-----------------------------------------------------------------------------
(* Splitting and merging *)

(* The blocks that a block of order k is split into, down to the one of    *)
(* order o at a: that one, and its buddy of every order below k.           *)
Chain(a, o, k) == {<<Base(a, o), o>>} \cup {<<BuddyOf(a, j), j>> : j \in o..(k - 1)}

\* Every unit is in a block of a chain, or outside of the large block.
LEMMA ChainCover ==
    ASSUME NEW a \in Nat, NEW o \in Nat, NEW k \in Nat, o <= k, NEW x \in Nat
    PROVE  Base(x, k) = Base(a, k) <=> \E b \in Chain(a, o, k) : In(x, b)
  <1>1. ASSUME NEW b \in Chain(a, o, k), In(x, b) PROVE Base(x, k) = Base(a, k)
    <2>1. CASE b = <<Base(a, o), o>>
      <3>1. Base(x, o) = Base(a, o)
        BY <1>1, <2>1 DEF In
      <3> QED
        BY <3>1, BaseUp
    <2>2. CASE \E j \in o..(k - 1) : b = <<BuddyOf(a, j), j>>
      <3>1. PICK j \in o..(k - 1) : b = <<BuddyOf(a, j), j>>
        BY <2>2
      <3>2. j \in Nat /\ j + 1 \in Nat /\ j + 1 <= k
        BY <3>1
      <3>3. Base(x, j) = BuddyOf(a, j)
        BY <1>1, <3>1 DEF In
      <3>4. Base(x, j + 1) = Base(a, j + 1)
        BY <3>2, <3>3, Halves
      <3> QED
        BY <3>2, <3>4, BaseUp
    <2> QED
      BY <1>1, <2>1, <2>2 DEF Chain
  <1>2. ASSUME Base(x, k) = Base(a, k) PROVE \E b \in Chain(a, o, k) : In(x, b)
    <2> DEFINE S == {m \in Nat : o <= m /\ m <= k /\ Base(x, m) = Base(a, m)}
    <2>1. k \in S
      BY <1>2
    <2>2. PICK m \in S : \A l \in S : m <= l
      BY <2>1, LeastExists
    <2>3. CASE m = o
      <3>1. In(x, <<Base(a, o), o>>)
        BY <2>2, <2>3 DEF In
      <3> QED
        BY <3>1 DEF Chain
    <2>4. CASE m # o
      <3> DEFINE j == m - 1
      <3>1. j \in Nat /\ j \in o..(k - 1) /\ j + 1 = m
        BY <2>2, <2>4
      <3>2. j \notin S
        BY <2>2
      <3> HIDE DEF j
      <3>3. Base(x, j) # Base(a, j) /\ Base(x, j + 1) = Base(a, j + 1)
        BY <2>2, <3>1, <3>2
      <3>4. Base(x, j) = BuddyOf(a, j)
        BY <3>1, <3>3, Halves
      <3>5. In(x, <<BuddyOf(a, j), j>>)
        BY <3>4 DEF In
      <3> QED
        BY <3>1, <3>5 DEF Chain
    <2> QED
      BY <2>3, <2>4
  <1> QED
    BY <1>1, <1>2

\* A unit of a buddy is in no buddy of a larger order.
LEMMA ChainApart ==
    ASSUME NEW a \in Nat, NEW i \in Nat, NEW j \in Nat, i < j, NEW x \in Nat,
           Base(x, i) \in {Base(a, i), BuddyOf(a, i)}
    PROVE  Base(x, j) # BuddyOf(a, j)
  <1>1. Base(x, i + 1) = Base(a, i + 1)
    <2>1. \A y \in Nat : Base(y, i + 1) = Base(a, i + 1)
                           <=> Base(y, i) \in {Base(a, i), BuddyOf(a, i)}
      BY Halves
    <2> QED
      BY <2>1
  <1>2. i + 1 \in Nat /\ i + 1 <= j
    OBVIOUS
  <1>3. Base(x, j) = Base(a, j)
    BY <1>1, <1>2, BaseUp
  <1> QED
    BY <1>3, Halves

\* No unit is in two blocks of a chain.
LEMMA ChainDisjoint ==
    ASSUME NEW a \in Nat, NEW o \in Nat, NEW k \in Nat, NEW x \in Nat,
           NEW b \in Chain(a, o, k), NEW c \in Chain(a, o, k),
           In(x, b), In(x, c)
    PROVE  b = c
  <1>1. \A e \in Chain(a, o, k) :
          \/ e = <<Base(a, o), o>>
          \/ \E j \in o..(k - 1) : e = <<BuddyOf(a, j), j>>
    BY DEF Chain
  <1>2. ASSUME NEW i \in Nat, NEW j \in Nat,
               Base(x, i) = BuddyOf(a, i), Base(x, j) = BuddyOf(a, j)
        PROVE  i = j
    <2>1. ~ (i < j)
      BY <1>2, ChainApart
    <2>2. ~ (j < i)
      BY <1>2, ChainApart
    <2> QED
      BY <2>1, <2>2
  <1>3. ASSUME NEW j \in Nat, o <= j,
               Base(x, o) = Base(a, o), Base(x, j) = BuddyOf(a, j)
        PROVE  FALSE
    <2>1. CASE o = j
      <3>1. BuddyOf(a, j) # Base(a, j)
        BY Halves
      <3> QED
        BY <1>3, <2>1, <3>1
    <2>2. CASE o < j
      BY <1>3, <2>2, ChainApart
    <2> QED
      BY <1>3, <2>1, <2>2
  <1>4. \A j \in o..(k - 1) : j \in Nat /\ o <= j
    OBVIOUS
  <1>5. \A p, j : In(x, <<p, j>>) <=> Base(x, j) = p
    BY DEF In
  <1>6. CASE b = <<Base(a, o), o>> /\ c = <<Base(a, o), o>>
    BY <1>6
  <1>7. CASE b = <<Base(a, o), o>> /\ \E j \in o..(k - 1) : c = <<BuddyOf(a, j), j>>
    BY <1>3, <1>4, <1>5, <1>7
  <1>8. CASE c = <<Base(a, o), o>> /\ \E j \in o..(k - 1) : b = <<BuddyOf(a, j), j>>
    BY <1>3, <1>4, <1>5, <1>8
  <1>9. CASE /\ \E i \in o..(k - 1) : b = <<BuddyOf(a, i), i>>
             /\ \E j \in o..(k - 1) : c = <<BuddyOf(a, j), j>>
    <2>1. PICK i \in o..(k - 1) : b = <<BuddyOf(a, i), i>>
      BY <1>9
    <2>2. PICK j \in o..(k - 1) : c = <<BuddyOf(a, j), j>>
      BY <1>9
    <2>3. Base(x, i) = BuddyOf(a, i) /\ Base(x, j) = BuddyOf(a, j)
      BY <1>5, <2>1, <2>2
    <2>4. i = j
      BY <1>2, <1>4, <2>3
    <2> QED
      BY <2>1, <2>2, <2>4
  <1> QED
    BY <1>1, <1>6, <1>7, <1>8, <1>9

\* The units of the blocks of P are those of the blocks of Q.
Alike(P, Q) == \A x \in Nat : (\E b \in P : In(x, b)) <=> (\E b \in Q : In(x, b))

\* A chain holds the units of the block it is split from, each once.
LEMMA ChainShape ==
    ASSUME NEW a \in Nat, NEW o \in Nat, NEW k \in Nat, o <= k
    PROVE  /\ Apart(Chain(a, o, k))
           /\ Alike(Chain(a, o, k), {<<Base(a, k), k>>})
           /\ Alike({<<Base(a, k), k>>}, Chain(a, o, k))
           /\ Apart({<<Base(a, k), k>>})
  <1>1. \A x \in Nat : In(x, <<Base(a, k), k>>) <=> Base(x, k) = Base(a, k)
    BY DEF In
  <1>2. Apart(Chain(a, o, k))
    BY ChainDisjoint DEF Apart
  <1>3. \A x \in Nat : (\E b \in Chain(a, o, k) : In(x, b))
                         <=> In(x, <<Base(a, k), k>>)
    BY <1>1, ChainCover
  <1> QED
    BY <1>2, <1>3 DEF Apart, Alike

\* Blocks may be replaced by others of the same units.
LEMMA Reshape ==
    ASSUME NEW P, NEW Old, NEW New, Old \subseteq P,
           Apart(P), Apart(New), Alike(Old, New)
    PROVE  /\ Apart((P \ Old) \cup New)
           /\ Alike(P, (P \ Old) \cup New)
  <1>1. ASSUME NEW x \in Nat, NEW b \in P \ Old, NEW c \in New,
               In(x, b), In(x, c)
        PROVE  FALSE
    <2>1. PICK d \in Old : In(x, d)
      BY <1>1 DEF Alike
    <2> QED
      BY <1>1, <2>1 DEF Apart
  <1>2. Apart((P \ Old) \cup New)
    BY <1>1 DEF Apart
  <1>3. Alike(P, (P \ Old) \cup New)
    BY DEF Alike
  <1> QED
    BY <1>2, <1>3

-----------------------------------------------------------------------------
(* Orders and regions *)

\* Min is the least number of a set.
LEMMA MinAt ==
    ASSUME NEW S \in SUBSET Nat, S # {}
    PROVE  Min(S) \in S /\ \A k \in S : Min(S) <= k
  <1>1. \E i \in S : \A k \in S : i <= k
    BY LeastExists
  <1> QED
    BY <1>1 DEF Min

\* Max is in a set that is bounded.
LEMMA MaxAt ==
    ASSUME NEW n \in Nat, NEW S \in SUBSET (0..n), S # {}
    PROVE  Max(S) \in S
  <1> DEFINE T == {m \in Nat : m <= n /\ n - m \in S}
  <1>1. PICK k \in S : TRUE
    OBVIOUS
  <1>2. n - k \in Nat /\ n - k <= n /\ n - (n - k) = k
    BY <1>1
  <1>3. n - k \in T
    BY <1>1, <1>2
  <1>4. PICK m \in T : \A l \in T : m <= l
    BY <1>3, LeastExists
  <1>5. ASSUME NEW l \in S PROVE n - m >= l
    <2>1. n - l \in Nat /\ n - l <= n /\ n - (n - l) = l
      OBVIOUS
    <2>2. n - l \in T
      BY <2>1
    <2> QED
      BY <1>4, <2>1, <2>2
  <1>6. \E i \in S : \A l \in S : i >= l
    BY <1>4, <1>5
  <1> QED
    BY <1>6 DEF Max

\* find_msb finds the highest bit.
LEMMA MsbAt ==
    ASSUME NEW x \in Nat, x > 0
    PROVE  /\ find_msb(x) \in Nat
           /\ order_to_size(find_msb(x)) <= x
           /\ x < order_to_size(find_msb(x) + 1)
  <1> DEFINE S == {i \in Nat : x < order_to_size(i + 1)}
  <1>1. x \in S
    <2>1. x + 1 < order_to_size(x + 1)
      BY SizeGrows
    <2>2. order_to_size(x + 1) \in Nat
      BY SizeType
    <2> QED
      BY <2>1, <2>2
  <1>2. PICK i \in S : \A k \in S : i <= k
    BY <1>1, LeastExists
  <1>3. i \in 0..x
    BY <1>1, <1>2
  <1>4. order_to_size(i) <= x
    <2>1. CASE i = 0
      BY <2>1, SizeZero
    <2>2. CASE i # 0
      <3>1. i - 1 \in Nat /\ i - 1 \notin S /\ (i - 1) + 1 = i
        BY <1>2, <2>2
      <3>2. order_to_size(i) \in Nat
        BY <1>2, SizeType
      <3> QED
        BY <3>1, <3>2
    <2> QED
      BY <2>1, <2>2
  <1>5. \E k \in 0..x : order_to_size(k) <= x /\ x < order_to_size(k + 1)
    BY <1>2, <1>3, <1>4
  <1> DEFINE P(k) == order_to_size(k) <= x /\ x < order_to_size(k + 1)
  <1>6. find_msb(x) = CHOOSE k \in 0..x : P(k)
    BY DEF find_msb
  <1>7. find_msb(x) \in 0..x /\ P(find_msb(x))
    <2>1. \E k \in 0..x : P(k)
      BY <1>5
    <2> HIDE DEF P
    <2> QED
      BY <2>1, <1>6
  <1> QED
    BY <1>7

\* A size of 32 bits has an order of at most one above the largest list.
LEMMA OrderAt ==
    ASSUME NEW s \in Nat, s > 0, NEW m \in Nat, s <= order_to_size(m)
    PROVE  size_to_order(s) \in 0..m
  <1> DEFINE i == find_msb(s)
  <1>1. i \in Nat /\ order_to_size(i) <= s
    BY MsbAt
  <1>2. order_to_size(i) \in Nat /\ order_to_size(m) \in Nat
    BY <1>1, SizeType
  <1>3. size_to_order(s) = IF s = order_to_size(i) THEN i ELSE i + 1
    BY DEF size_to_order
  <1> HIDE DEF i
  <1>4. ~ (m < i)
    <2> SUFFICES ASSUME m < i PROVE FALSE
      OBVIOUS
    <2>1. order_to_size(m) < order_to_size(i)
      BY <1>1, SizeMono
    <2> QED
      BY <1>1, <1>2, <2>1
  <1>5. i = m => s = order_to_size(i)
    BY <1>1, <1>2
  <1> QED
    BY <1>1, <1>3, <1>4, <1>5

\* mm_init's regions are aligned.
LEMMA RegionStartAt ==
    ASSUME NEW o \in Nat
    PROVE  RegionStart(o) \in Nat /\ Base(RegionStart(o), o) = RegionStart(o)
  <1> DEFINE s == order_to_size(o)
             d == SHeap \div s
             r == SHeap % s
  <1>1. s \in Nat /\ s > 0
    BY SizeType
  <1>2. SHeap \in Nat
    BY BuddyAssumption
  <1>3. RegionStart(o) = IF r = 0 THEN SHeap ELSE SHeap - r + s
    BY DEF RegionStart
  <1> HIDE DEF s
  <1>4. d \in Nat /\ r \in Nat /\ SHeap = s * d + r
    BY <1>1, <1>2, DivMod
  <1> HIDE DEF d, r
  <1>5. s * d \in Nat /\ s * (d + 1) = s * d + s
    BY <1>1, <1>4
  <1>6. RegionStart(o) = s * d \/ RegionStart(o) = s * (d + 1)
    BY <1>1, <1>2, <1>3, <1>4, <1>5
  <1>7. ASSUME NEW c \in Nat, RegionStart(o) = s * c
        PROVE  RegionStart(o) \in Nat /\ Base(RegionStart(o), o) = RegionStart(o)
    BY <1>7, NumMul DEF s
  <1>8. d + 1 \in Nat
    BY <1>4
  <1> QED
    BY <1>4, <1>6, <1>7, <1>8

\* The orders of the regions mm_init may choose.
LEMMA FitsAt ==
    ASSUME mm_available \in Nat, NEW o \in Fits
    PROVE  /\ o \in Nat /\ o < MAX_ADDRESSABLE_MEM_ORDER
           /\ order_to_size(o) <= mm_available
  <1>1. /\ mm_available > 0 /\ o \in PAGE_ORDER..find_msb(mm_available)
        /\ RegionStart(o) + order_to_size(o) <= Eor
    BY DEF Fits
  <1>2. /\ find_msb(mm_available) \in Nat
        /\ order_to_size(find_msb(mm_available)) <= mm_available
    BY <1>1, MsbAt
  <1>3. /\ PAGE_ORDER \in Nat /\ MAX_ADDRESSABLE_MEM_ORDER \in Nat /\ Eor \in Nat
        /\ Eor < order_to_size(MAX_ADDRESSABLE_MEM_ORDER)
    BY BuddyAssumption DEF order_to_size
  <1> DEFINE m == find_msb(mm_available)
             M == MAX_ADDRESSABLE_MEM_ORDER
  <1>4. o \in Nat /\ o <= m /\ m \in Nat /\ M \in Nat
    BY <1>1, <1>2, <1>3
  <1>5. /\ order_to_size(o) \in Nat /\ order_to_size(m) \in Nat
        /\ order_to_size(M) \in Nat /\ RegionStart(o) \in Nat
    BY <1>4, SizeType, RegionStartAt
  <1>6. order_to_size(o) <= mm_available
    <2>1. CASE o = m
      BY <1>2, <2>1
    <2>2. CASE o < m
      <3>1. order_to_size(o) < order_to_size(m)
        BY <1>4, <2>2, SizeMono
      <3> QED
        BY <1>2, <1>5, <3>1
    <2> QED
      BY <1>4, <2>1, <2>2
  <1>7. o < M
    <2>1. order_to_size(o) < order_to_size(M)
      BY <1>1, <1>3, <1>5
    <2>2. ~ (o = M)
      BY <1>5, <2>1
    <2>3. ~ (M < o)
      <3> SUFFICES ASSUME M < o PROVE FALSE
        OBVIOUS
      <3>1. order_to_size(M) < order_to_size(o)
        BY <1>4, SizeMono
      <3> QED
        BY <1>5, <2>1, <3>1
    <2> QED
      BY <1>4, <2>2, <2>3
  <1> QED
    BY <1>4, <1>6, <1>7

\* A step of the boot adds a region that is aligned, or none.
LEMMA BootStep ==
    ASSUME RegionsGood, Boot
    PROVE  /\ mm_available' \in Nat
           /\ booting \in {"init", "board", "done"}
                => booting' \in {"init", "board", "done"}
           /\ \/ UNCHANGED <<regions, total, mm_bucket, region, held, pages,
                             used, task, answer>>
              \/ \E r \in Region : Placed(r) /\ mm_add_region(r)
  <1>1. regions \in Seq(Region) /\ mm_available \in Nat
    BY DEF RegionsGood
  <1>2. CASE mm_init
    <2>1. CASE Fits = {} \/ Len(regions) = MaxRegions
      BY <1>1, <1>2, <2>1 DEF mm_init
    <2>2. CASE ~ (Fits = {} \/ Len(regions) = MaxRegions)
      <3> DEFINE o == Max(Fits)
                 r == [start |-> RegionStart(o), order |-> o, flags |-> HeapFlags]
      <3>1. \A k \in Fits : /\ k \in Nat /\ k < MAX_ADDRESSABLE_MEM_ORDER
                            /\ order_to_size(k) <= mm_available
        BY <1>1, FitsAt
      <3>2. MAX_ADDRESSABLE_MEM_ORDER \in Nat
        BY BuddyAssumption
      <3>3. Fits \in SUBSET (0..MAX_ADDRESSABLE_MEM_ORDER) /\ Fits # {}
        BY <2>2, <3>1, <3>2
      <3>4. o \in Fits
        BY <3>2, <3>3, MaxAt
      <3>5. /\ mm_add_region(r) /\ mm_available' = mm_available - order_to_size(o)
            /\ booting' = booting
        BY <1>2, <2>2 DEF mm_init
      <3> HIDE DEF o
      <3>6. o \in Nat /\ o < MAX_ADDRESSABLE_MEM_ORDER
            /\ order_to_size(o) <= mm_available /\ order_to_size(o) \in Nat
        BY <3>1, <3>4, SizeType
      <3>7. RegionStart(o) \in Nat /\ Base(RegionStart(o), o) = RegionStart(o)
        BY <3>6, RegionStartAt
      <3>8. r \in Region
        BY <3>6, <3>7, BuddyAssumption DEF Region
      <3>9. Placed(r)
        BY <3>6, <3>7 DEF Placed
      <3>10. mm_available' \in Nat
        BY <1>1, <3>5, <3>6
      <3> HIDE DEF r
      <3> QED
        BY <3>5, <3>8, <3>9, <3>10
    <2> QED
      BY <2>1, <2>2
  <1>3. ASSUME NEW i \in 1..(Len(BoardRegions) + 1), machine_init(i)
        PROVE  /\ mm_available' \in Nat
               /\ booting \in {"init", "board", "done"}
                    => booting' \in {"init", "board", "done"}
               /\ \/ UNCHANGED <<regions, total, mm_bucket, region, held, pages,
                                 used, task, answer>>
                  \/ \E r \in Region : Placed(r) /\ mm_add_region(r)
    <2>1. CASE i > Len(BoardRegions)
      BY <1>1, <1>3, <2>1 DEF machine_init
    <2>2. CASE ~ (i > Len(BoardRegions))
      <3> DEFINE r == BoardRegions[i]
      <3>1. mm_add_region(r) /\ UNCHANGED <<mm_available, booting>>
        BY <1>3, <2>2 DEF machine_init
      <3>2. BoardRegions \in Seq(Region) /\ i \in DOMAIN BoardRegions
        BY <2>2, BuddyAssumption DEF Region
      <3>3. r \in Region
        BY <3>2
      <3>4. r.order < MAX_ADDRESSABLE_MEM_ORDER /\ r.start % order_to_size(r.order) = 0
        BY <3>2, BuddyAssumption DEF order_to_size
      <3> HIDE DEF r
      <3>5. r.start \in Nat
        BY <3>3 DEF Region
      <3>6. Base(r.start, r.order) = r.start
        BY <3>4, <3>5 DEF Base
      <3> QED
        BY <1>1, <3>1, <3>3, <3>4, <3>6 DEF Placed
    <2> QED
      BY <2>1, <2>2
  <1> QED
    BY <1>2, <1>3 DEF Boot

\* What Append does to the indices of a list.
LEMMA AppendAt ==
    ASSUME NEW S, NEW s \in Seq(S), NEW x \in S
    PROVE  /\ Append(s, x) \in Seq(S)
           /\ Len(s) \in Nat /\ DOMAIN s = 1..Len(s)
           /\ DOMAIN Append(s, x) = DOMAIN s \cup {Len(s) + 1}
           /\ Len(s) + 1 \notin DOMAIN s
           /\ \A i \in DOMAIN s : Append(s, x)[i] = s[i]
           /\ Append(s, x)[Len(s) + 1] = x
  OBVIOUS

\* Calls leave the regions alone.
LEMMA CallFrame ==
    ASSUME NEW t \in Tasks, Call(t)
    PROVE  UNCHANGED <<mm_available, booting, regions, total>>
  BY DEF Call, kmalloc, page_alloc, realloc, Request, Served, Refused, kfree,
         page_free, Release, boot

\* The regions are good after every step.
LEMMA RegionsStep ==
    ASSUME RegionsGood, [Next]_vars
    PROVE  RegionsGood'
  <1>1. CASE Boot
    <2>1. mm_available' \in Nat
      BY <1>1, BootStep
    <2>2. CASE UNCHANGED regions
      BY <2>1, <2>2 DEF RegionsGood, Placed
    <2>3. CASE \E r \in Region : Placed(r) /\ mm_add_region(r)
      <3>1. PICK r \in Region : Placed(r) /\ regions' = Append(regions, r)
        BY <2>3 DEF mm_add_region
      <3>2. regions \in Seq(Region) /\ \A i \in DOMAIN regions : Placed(regions[i])
        BY DEF RegionsGood
      <3>3. /\ regions' \in Seq(Region)
            /\ \A i \in DOMAIN regions' :
                 \/ regions'[i] = r
                 \/ i \in DOMAIN regions /\ regions'[i] = regions[i]
        BY <3>1, <3>2, AppendAt
      <3>4. \A i \in DOMAIN regions' : Placed(regions'[i])
        BY <3>1, <3>2, <3>3
      <3> QED
        BY <2>1, <3>3, <3>4 DEF RegionsGood, Placed
    <2> QED
      BY <1>1, <2>2, <2>3, BootStep
  <1>2. CASE \E t \in Tasks : Call(t)
    BY <1>2, CallFrame DEF RegionsGood, Placed
  <1>3. CASE UNCHANGED vars
    BY <1>3 DEF RegionsGood, Placed, vars, boot
  <1> QED
    BY <1>1, <1>2, <1>3 DEF Next

\* Regions that share no memory shared none before one was added.
LEMMA DisjointBefore ==
    ASSUME regions \in Seq(Region), NEW r \in Region,
           regions' = Append(regions, r), RegionsDisjoint'
    PROVE  /\ RegionsDisjoint
           /\ \A i \in DOMAIN regions :
                Units(regions[i].start, regions[i].order)
                  \cap Units(r.start, r.order) = {}
  <1> DEFINE n == Len(regions) + 1
  <1>1. /\ DOMAIN regions' = DOMAIN regions \cup {n} /\ n \notin DOMAIN regions
        /\ \A i \in DOMAIN regions : regions'[i] = regions[i]
        /\ regions'[n] = r
    BY AppendAt
  <1> HIDE DEF n
  <1>2. \A i, j \in DOMAIN regions' :
          i # j => Units(regions'[i].start, regions'[i].order)
                     \cap Units(regions'[j].start, regions'[j].order) = {}
    BY DEF RegionsDisjoint, Units, order_to_size
  <1>3. RegionsDisjoint
    BY <1>1, <1>2 DEF RegionsDisjoint
  <1>4. ASSUME NEW i \in DOMAIN regions
        PROVE  Units(regions[i].start, regions[i].order)
                 \cap Units(r.start, r.order) = {}
    BY <1>1, <1>2
  <1> QED
    BY <1>3, <1>4

-----------------------------------------------------------------------------
(* The lists of free blocks *)

\* The blocks on the lists m.
FreeOf(m) == UNION {{<<a, o>> : a \in Range(m[o])} : o \in AllOrders}

Lists == [AllOrders -> Seq(Nat)]

\* A block is free when the list of its order has it.
LEMMA FreeOfAt ==
    ASSUME NEW m
    PROVE  /\ \A a, o : <<a, o>> \in FreeOf(m)
                          <=> o \in AllOrders /\ a \in Range(m[o])
           /\ \A b \in FreeOf(m) : \E o \in AllOrders : \E a \in Range(m[o]) : b = <<a, o>>
  <1>1. ASSUME NEW b \in FreeOf(m)
        PROVE  \E o \in AllOrders : \E a \in Range(m[o]) : b = <<a, o>>
    BY DEF FreeOf
  <1>2. ASSUME NEW a, NEW o, <<a, o>> \in FreeOf(m)
        PROVE  o \in AllOrders /\ a \in Range(m[o])
    <2>1. PICK p \in AllOrders : \E c \in Range(m[p]) : <<a, o>> = <<c, p>>
      BY <1>1, <1>2
    <2> QED
      BY <2>1
  <1>3. ASSUME NEW o \in AllOrders, NEW a \in Range(m[o])
        PROVE  <<a, o>> \in FreeOf(m)
    BY DEF FreeOf
  <1> QED
    BY <1>1, <1>2, <1>3

\* A free block is on the list of some order.
LEMMA FreeOfPick ==
    \A m : \A b \in FreeOf(m) : \E o \in AllOrders : \E a \in Range(m[o]) : b = <<a, o>>
  BY FreeOfAt

\* Orders are numbers.
LEMMA OrdersAt == MAX_ADDRESSABLE_MEM_ORDER \in Nat /\ AllOrders \subseteq Nat
  BY BuddyAssumption DEF AllOrders

\* The entries of a list are addresses.
LEMMA RangeNat ==
    ASSUME NEW m \in Lists, NEW o \in AllOrders
    PROVE  Range(m[o]) \subseteq Nat /\ m[o] \in Seq(Nat)
  <1>1. m[o] \in Seq(Nat)
    BY DEF Lists
  <1> QED
    BY <1>1, RangeAt

\* The lists after a split, and after a merge.
Taken(m, k, o, a) ==
    [j \in AllOrders |->
       IF j = k THEN Unlink(m[k], a)
       ELSE IF j \in o..(k - 1) THEN Append(m[j], HighHalf(a, j))
       ELSE m[j]]
Merged(m, top, o, a) ==
    [j \in AllOrders |->
       IF j \in o..(top - 1) THEN Unlink(m[j], BuddyOf(a, j))
       ELSE IF j = top THEN Append(m[j], Base(a, j))
       ELSE m[j]]

\* What get_buffer does to the lists.
LEMMA TakeLists ==
    ASSUME NEW m \in Lists, \A j \in AllOrders : IsInjective(m[j]),
           NEW k \in AllOrders, NEW o \in AllOrders, o <= k, NEW a,
           \A j \in o..(k - 1) : HighHalf(a, j) \in Nat \ Range(m[j]),
           NEW n, n = Taken(m, k, o, a)
    PROVE  /\ n \in Lists
           /\ \A j \in AllOrders : IsInjective(n[j])
           /\ FreeOf(n) = (FreeOf(m) \ {<<a, k>>})
                            \cup {<<HighHalf(a, j), j>> : j \in o..(k - 1)}
           /\ \A j \in AllOrders : \A c \in Range(n[j]) \ Range(m[j]) :
                j \in o..(k - 1) /\ c = HighHalf(a, j)
  <1>0. /\ n = [j \in AllOrders |-> n[j]]
        /\ \A j \in AllOrders : n[j] =
             IF j = k THEN Unlink(m[k], a)
             ELSE IF j \in o..(k - 1) THEN Append(m[j], HighHalf(a, j))
             ELSE m[j]
    BY DEF Taken
  <1>1. k \in Nat /\ o \in Nat /\ k \notin o..(k - 1)
    BY OrdersAt
  <1>2. o..(k - 1) \subseteq AllOrders
    <2>1. k <= MAX_ADDRESSABLE_MEM_ORDER /\ MAX_ADDRESSABLE_MEM_ORDER \in Nat
      BY OrdersAt DEF AllOrders
    <2> QED
      BY <1>1, <2>1 DEF AllOrders
  <1>3. ASSUME NEW j \in AllOrders
        PROVE  /\ n[j] \in Seq(Nat) /\ IsInjective(n[j])
               /\ Range(n[j]) = IF j = k THEN Range(m[j]) \ {a}
                                ELSE IF j \in o..(k - 1)
                                THEN Range(m[j]) \cup {HighHalf(a, j)}
                                ELSE Range(m[j])
    <2>1. m[j] \in Seq(Nat) /\ IsInjective(m[j])
      BY DEF Lists
    <2>2. CASE j = k
      <3>1. n[j] = Unlink(m[j], a)
        BY <1>0, <2>2
      <3> QED
        BY <2>1, <2>2, <3>1, UnlinkType, UnlinkOnce
    <2>3. CASE j # k /\ j \in o..(k - 1)
      <3>1. n[j] = Append(m[j], HighHalf(a, j))
        BY <1>0, <2>3
      <3>2. HighHalf(a, j) \in Nat /\ HighHalf(a, j) \notin Range(m[j])
        BY <2>3
      <3> QED
        <4>1. /\ Append(m[j], HighHalf(a, j)) \in Seq(Nat)
              /\ IsInjective(Append(m[j], HighHalf(a, j)))
              /\ Range(Append(m[j], HighHalf(a, j)))
                   = Range(m[j]) \cup {HighHalf(a, j)}
          BY <2>1, <3>2, AppendOnce
        <4> QED
          BY <2>3, <3>1, <4>1
    <2>4. CASE j # k /\ j \notin o..(k - 1)
      <3>1. n[j] = m[j]
        BY <1>0, <2>4
      <3> QED
        BY <2>1, <2>4, <3>1
    <2> QED
      BY <2>2, <2>3, <2>4
  <1>4. n \in Lists
    BY <1>0, <1>3 DEF Lists
  <1> DEFINE highs == {<<HighHalf(a, j), j>> : j \in o..(k - 1)}
  <1>5. ASSUME NEW c, NEW j \in AllOrders
        PROVE  <<c, j>> \in FreeOf(n)
                 <=> \/ <<c, j>> \in FreeOf(m) /\ <<c, j>> # <<a, k>>
                     \/ j \in o..(k - 1) /\ c = HighHalf(a, j)
    <2>1. <<c, j>> \in FreeOf(n) <=> c \in Range(n[j])
      BY FreeOfAt
    <2>2. <<c, j>> \in FreeOf(m) <=> c \in Range(m[j])
      BY FreeOfAt
    <2>3. <<c, j>> # <<a, k>> <=> c # a \/ j # k
      OBVIOUS
    <2> QED
      BY <1>1, <1>3, <2>1, <2>2, <2>3
  <1>6. FreeOf(n) \subseteq (FreeOf(m) \ {<<a, k>>}) \cup highs
    <2> SUFFICES ASSUME NEW b \in FreeOf(n)
                 PROVE  b \in (FreeOf(m) \ {<<a, k>>}) \cup highs
      OBVIOUS
    <2>1. PICK j \in AllOrders : \E c \in Range(n[j]) : b = <<c, j>>
      BY FreeOfPick
    <2>2. PICK c \in Range(n[j]) : b = <<c, j>>
      BY <2>1
    <2> QED
      BY <1>5, <2>2
  <1>7. (FreeOf(m) \ {<<a, k>>}) \subseteq FreeOf(n)
    <2> SUFFICES ASSUME NEW b \in FreeOf(m), b # <<a, k>> PROVE b \in FreeOf(n)
      OBVIOUS
    <2>1. PICK j \in AllOrders : \E c \in Range(m[j]) : b = <<c, j>>
      BY FreeOfAt
    <2>2. PICK c \in Range(m[j]) : b = <<c, j>>
      BY <2>1
    <2> QED
      BY <1>5, <2>2
  <1>8. highs \subseteq FreeOf(n)
    BY <1>2, <1>5
  <1> HIDE DEF highs
  <1>9. FreeOf(n) = (FreeOf(m) \ {<<a, k>>}) \cup highs
    BY <1>6, <1>7, <1>8
  <1> QED
    BY <1>3, <1>4, <1>9 DEF highs

\* What defragment does to the lists.
LEMMA MergeLists ==
    ASSUME NEW m \in Lists, \A j \in AllOrders : IsInjective(m[j]),
           NEW top \in AllOrders, NEW o \in AllOrders, o <= top, NEW a,
           Base(a, top) \in Nat \ Range(m[top]),
           NEW n, n = Merged(m, top, o, a)
    PROVE  /\ n \in Lists
           /\ \A j \in AllOrders : IsInjective(n[j])
           /\ FreeOf(n) = (FreeOf(m) \ {<<BuddyOf(a, j), j>> : j \in o..(top - 1)})
                            \cup {<<Base(a, top), top>>}
           /\ \A j \in AllOrders : \A c \in Range(n[j]) \ Range(m[j]) :
                j = top /\ c = Base(a, top)
  <1>0. /\ n = [j \in AllOrders |-> n[j]]
        /\ \A j \in AllOrders : n[j] =
             IF j \in o..(top - 1) THEN Unlink(m[j], BuddyOf(a, j))
             ELSE IF j = top THEN Append(m[j], Base(a, j))
             ELSE m[j]
    BY DEF Merged
  <1>1. top \in Nat /\ o \in Nat /\ top \notin o..(top - 1)
    BY OrdersAt
  <1>2. o..(top - 1) \subseteq AllOrders
    <2>1. top <= MAX_ADDRESSABLE_MEM_ORDER /\ MAX_ADDRESSABLE_MEM_ORDER \in Nat
      BY OrdersAt DEF AllOrders
    <2> QED
      BY <1>1, <2>1 DEF AllOrders
  <1>3. ASSUME NEW j \in AllOrders
        PROVE  /\ n[j] \in Seq(Nat) /\ IsInjective(n[j])
               /\ Range(n[j]) = IF j \in o..(top - 1)
                                THEN Range(m[j]) \ {BuddyOf(a, j)}
                                ELSE IF j = top THEN Range(m[j]) \cup {Base(a, j)}
                                ELSE Range(m[j])
    <2>1. m[j] \in Seq(Nat) /\ IsInjective(m[j])
      BY DEF Lists
    <2>2. CASE j = top
      <3>1. n[j] = Append(m[j], Base(a, j))
        BY <1>0, <1>1, <2>2
      <3>2. Base(a, j) \in Nat /\ Base(a, j) \notin Range(m[j])
        BY <2>2
      <3> QED
        <4>1. /\ Append(m[j], Base(a, j)) \in Seq(Nat)
              /\ IsInjective(Append(m[j], Base(a, j)))
              /\ Range(Append(m[j], Base(a, j))) = Range(m[j]) \cup {Base(a, j)}
          BY <2>1, <3>2, AppendOnce
        <4> QED
          BY <1>1, <2>2, <3>1, <4>1
    <2>3. CASE j # top /\ j \in o..(top - 1)
      <3>1. n[j] = Unlink(m[j], BuddyOf(a, j))
        BY <1>0, <2>3
      <3> QED
        BY <2>1, <2>3, <3>1, UnlinkType, UnlinkOnce
    <2>4. CASE j # top /\ j \notin o..(top - 1)
      <3>1. n[j] = m[j]
        BY <1>0, <2>4
      <3> QED
        BY <2>1, <2>4, <3>1
    <2> QED
      BY <2>2, <2>3, <2>4
  <1>4. n \in Lists
    BY <1>0, <1>3 DEF Lists
  <1> DEFINE gone == {<<BuddyOf(a, j), j>> : j \in o..(top - 1)}
  <1>5. ASSUME NEW c, NEW j \in AllOrders
        PROVE  <<c, j>> \in FreeOf(n)
                 <=> \/ <<c, j>> \in FreeOf(m) /\ <<c, j>> \notin gone
                     \/ <<c, j>> = <<Base(a, top), top>>
    <2>1. <<c, j>> \in FreeOf(n) <=> c \in Range(n[j])
      BY FreeOfAt
    <2>2. <<c, j>> \in FreeOf(m) <=> c \in Range(m[j])
      BY FreeOfAt
    <2>3. <<c, j>> = <<Base(a, top), top>> <=> c = Base(a, j) /\ j = top
      OBVIOUS
    <2>4. <<c, j>> \in gone <=> j \in o..(top - 1) /\ c = BuddyOf(a, j)
      OBVIOUS
    <2> HIDE DEF gone
    <2> QED
      BY <1>1, <1>3, <2>1, <2>2, <2>3, <2>4
  <1>6. FreeOf(n) \subseteq (FreeOf(m) \ gone) \cup {<<Base(a, top), top>>}
    <2> HIDE DEF gone
    <2> SUFFICES ASSUME NEW b \in FreeOf(n)
                 PROVE  b \in (FreeOf(m) \ gone) \cup {<<Base(a, top), top>>}
      OBVIOUS
    <2>1. PICK j \in AllOrders : \E c \in Range(n[j]) : b = <<c, j>>
      BY FreeOfPick
    <2>2. PICK c \in Range(n[j]) : b = <<c, j>>
      BY <2>1
    <2> QED
      BY <1>5, <2>2
  <1>7. (FreeOf(m) \ gone) \subseteq FreeOf(n)
    <2> HIDE DEF gone
    <2> SUFFICES ASSUME NEW b \in FreeOf(m), b \notin gone PROVE b \in FreeOf(n)
      OBVIOUS
    <2>1. PICK j \in AllOrders : \E c \in Range(m[j]) : b = <<c, j>>
      BY FreeOfAt
    <2>2. PICK c \in Range(m[j]) : b = <<c, j>>
      BY <2>1
    <2> QED
      BY <1>5, <2>2
  <1>8. <<Base(a, top), top>> \in FreeOf(n)
    BY <1>5
  <1> HIDE DEF gone
  <1>9. FreeOf(n) = (FreeOf(m) \ gone) \cup {<<Base(a, top), top>>}
    BY <1>6, <1>7, <1>8
  <1> QED
    BY <1>1, <1>3, <1>4, <1>9 DEF gone

-----------------------------------------------------------------------------
(* What a step does to the blocks *)

\* The blocks on the lists.
LEMMA FreeBlocksAt == FreeBlocks = FreeOf(mm_bucket)
  BY DEF FreeBlocks, FreeOf

\* No block is not a block.
LEMMA NoneAt == None \notin Nat \X AllOrders
  BY DEF None

\* Blocks are pairs of an address and an order.
LEMMA BlockType ==
    ASSUME TypeOK
    PROVE  /\ \A b \in Blocks : b \in Nat \X AllOrders
           /\ \A b \in Blocks : /\ b[1] \in Nat /\ b[2] \in AllOrders
                                /\ b[2] \in Nat /\ b = <<b[1], b[2]>>
           /\ None \notin UsedBlocks
  <1>1. mm_bucket \in Lists
    BY DEF TypeOK, Lists
  <1>2. ASSUME NEW b \in FreeBlocks PROVE b \in Nat \X AllOrders
    <2>1. PICK o \in AllOrders : \E a \in Range(mm_bucket[o]) : b = <<a, o>>
      BY FreeBlocksAt, FreeOfPick
    <2>2. Range(mm_bucket[o]) \subseteq Nat
      BY <1>1, RangeNat
    <2> QED
      BY <2>1, <2>2
  <1>3. /\ held \subseteq Nat \X AllOrders
        /\ \A t \in Tasks : blk[t] = None \/ blk[t] \in Nat \X AllOrders
    BY DEF TypeOK
  <1>4. UsedBlocks \subseteq Nat \X AllOrders
    BY <1>3 DEF UsedBlocks
  <1>5. \A b \in Blocks : b \in Nat \X AllOrders
    BY <1>2, <1>4 DEF Blocks
  <1>6. None \notin Nat \X AllOrders
    BY NoneAt
  <1> QED
    BY <1>4, <1>5, <1>6, OrdersAt

\* The regions are records.
LEMMA RegionAt ==
    ASSUME RegionsGood, NEW i \in DOMAIN regions
    PROVE  /\ regions[i].start \in Nat /\ regions[i].order \in Nat
           /\ regions[i].order < MAX_ADDRESSABLE_MEM_ORDER
           /\ Base(regions[i].start, regions[i].order) = regions[i].start
  <1>1. regions[i] \in Region /\ Placed(regions[i])
    BY DEF RegionsGood
  <1> QED
    BY <1>1 DEF Region, Placed

\* A step that moves no block keeps the memory divided.
LEMMA KeepDivided ==
    ASSUME Divided, UNCHANGED <<regions, total, mm_bucket>>,
           UsedBlocks' = UsedBlocks, DOMAIN region \subseteq DOMAIN region',
           \A b \in Blocks : region'[b[1]] = region[b[1]]
    PROVE  Divided'
  <1>1. FreeBlocks' = FreeBlocks
    BY DEF FreeBlocks, AllOrders
  <1>2. Blocks' = Blocks
    BY <1>1 DEF Blocks
  <1>3. BlocksGood'
    BY <1>2 DEF Divided, BlocksGood, Inside
  <1>4. Apart(Blocks)' /\ Cover'
    BY <1>2 DEF Divided, Cover
  <1>5. ListedOnce' /\ (FreeBlocks \cap UsedBlocks = {})'
    BY <1>1 DEF Divided, ListedOnce
  <1>6. FullyMerged'
    <2>1. \A o \in AllOrders : \A a \in Range(mm_bucket[o]) : region'[a] = region[a]
      <3> SUFFICES ASSUME NEW o \in AllOrders, NEW a \in Range(mm_bucket[o])
                   PROVE  region'[a] = region[a]
        OBVIOUS
      <3>1. <<a, o>> \in Blocks
        BY FreeBlocksAt, FreeOfAt DEF Blocks
      <3>2. region'[<<a, o>>[1]] = region[<<a, o>>[1]]
        BY <3>1
      <3> QED
        BY <3>2
    <2> QED
      BY <2>1 DEF Divided, FullyMerged
  <1>7. Counted'
    BY DEF Divided, Counted, Memory
  <1> QED
    BY <1>3, <1>4, <1>5, <1>6, <1>7 DEF Divided

\* The units of a block are in the region its header names.
LEMMA InRegion ==
    ASSUME RegionsGood, TypeOK, BlocksGood, NEW b \in Blocks
    PROVE  LET i == region[b[1]]
           IN  /\ i \in DOMAIN regions
               /\ regions[i].start \in Nat /\ regions[i].order \in Nat
               /\ \A x \in Nat : In(x, b) =>
                    /\ Base(x, regions[i].order) = regions[i].start
                    /\ x \in Units(regions[i].start, regions[i].order)
               /\ In(b[1], b)
  <1> DEFINE i == region[b[1]]
             r == regions[i]
  <1>1. /\ b[1] \in Nat /\ b[2] \in Nat
    BY BlockType
  <1>2. Base(b[1], b[2]) = b[1] /\ Inside(b, i)
    BY DEF BlocksGood
  <1>3. i \in DOMAIN regions /\ b[2] <= r.order /\ Base(b[1], r.order) = r.start
    BY <1>2 DEF Inside
  <1>4. r \in Region /\ Placed(r)
    BY <1>3 DEF RegionsGood
  <1> HIDE DEF i, r
  <1>5. r.start \in Nat /\ r.order \in Nat /\ Base(r.start, r.order) = r.start
    BY <1>4 DEF Region, Placed
  <1>6. ASSUME NEW x \in Nat, In(x, b)
        PROVE  Base(x, r.order) = r.start /\ x \in Units(r.start, r.order)
    <2>1. Base(x, b[2]) = Base(b[1], b[2])
      BY <1>2, <1>6 DEF In
    <2>2. Base(x, r.order) = Base(b[1], r.order)
      BY <1>1, <1>3, <1>5, <2>1, BaseUp
    <2>3. Base(x, r.order) = r.start
      BY <1>3, <2>2
    <2> QED
      BY <1>5, <2>3, UnitsIn
  <1>7. In(b[1], b)
    BY <1>2 DEF In
  <1> QED
    BY <1>3, <1>5, <1>6, <1>7 DEF i, r

\* A region is added: its memory is one free block.
LEMMA AddDivided ==
    ASSUME RegionsGood, TypeOK, Divided,
           NEW r \in Region, Placed(r), mm_add_region(r),
           \A i \in DOMAIN regions :
             Units(regions[i].start, regions[i].order)
               \cap Units(r.start, r.order) = {}
    PROVE  Divided'
  <1> DEFINE n == Len(regions) + 1
             nb == <<r.start, r.order>>
             s == r.start
             o == r.order
  <1>1. /\ s \in Nat /\ o \in Nat /\ o < MAX_ADDRESSABLE_MEM_ORDER
        /\ Base(s, o) = s /\ o \in AllOrders
    BY OrdersAt DEF Region, Placed, AllOrders
  <1>2. /\ regions' = Append(regions, r)
        /\ region' = [a \in DOMAIN region \cup {s} |->
                        IF a = s THEN n ELSE region[a]]
        /\ mm_bucket' = [mm_bucket EXCEPT ![o] = Append(@, s)]
        /\ total' = total + order_to_size(o)
        /\ held' = held /\ blk' = blk
    BY DEF mm_add_region, task
  <1>3. /\ DOMAIN regions' = DOMAIN regions \cup {n} /\ n \notin DOMAIN regions
        /\ \A i \in DOMAIN regions : regions'[i] = regions[i]
        /\ regions'[n] = r
    BY <1>2, AppendAt DEF RegionsGood
  <1> HIDE DEF n
  <1>4. BlocksGood
    BY DEF Divided
  <1>5. ASSUME NEW x \in Nat, NEW b \in Blocks, In(x, b), In(x, nb)
        PROVE  FALSE
    <2> DEFINE i == region[b[1]]
    <2>1. i \in DOMAIN regions /\ x \in Units(regions[i].start, regions[i].order)
      BY <1>4, <1>5, InRegion
    <2>2. Base(x, o) = s
      BY <1>5 DEF In
    <2>3. x \in Units(s, o)
      BY <1>1, <2>2, UnitsIn
    <2> QED
      BY <2>1, <2>3
  <1>6. In(s, nb)
    BY <1>1 DEF In
  <1>7. ASSUME NEW b \in Blocks PROVE b[1] # s /\ b # nb
    <2>1. In(b[1], b) /\ b[1] \in Nat
      BY <1>4, InRegion, BlockType
    <2> QED
      BY <1>5, <1>6, <2>1
  <1>8. mm_bucket \in Lists /\ \A j \in AllOrders : IsInjective(mm_bucket[j])
    BY DEF TypeOK, Lists, Divided, ListedOnce
  <1>9. ASSUME NEW j \in AllOrders
        PROVE  /\ IsInjective(mm_bucket'[j])
               /\ Range(mm_bucket'[j]) = IF j = o THEN Range(mm_bucket[j]) \cup {s}
                                         ELSE Range(mm_bucket[j])
    <2>1. CASE j = o
      <3>1. s \notin Range(mm_bucket[o])
        <4> SUFFICES ASSUME s \in Range(mm_bucket[o]) PROVE FALSE
          OBVIOUS
        <4>1. nb \in Blocks
          BY <1>1, FreeBlocksAt, FreeOfAt DEF Blocks
        <4> QED
          BY <1>7, <4>1
      <3>2. mm_bucket'[o] = Append(mm_bucket[o], s)
        BY <1>1, <1>2, <1>8 DEF Lists
      <3>3. mm_bucket[o] \in Seq(Nat) /\ IsInjective(mm_bucket[o])
        BY <1>1, <1>8 DEF Lists
      <3> HIDE DEF o, s
      <3> QED
        BY <1>1, <2>1, <3>1, <3>2, <3>3, AppendOnce
    <2>2. CASE j # o
      <3>1. mm_bucket'[j] = mm_bucket[j]
        BY <1>2, <1>8, <2>2 DEF Lists
      <3> QED
        BY <1>8, <2>2, <3>1
    <2> QED
      BY <2>1, <2>2
  <1>10. FreeBlocks' = FreeBlocks \cup {nb}
    <2>1. FreeBlocks' = FreeOf(mm_bucket')
      BY DEF FreeBlocks, FreeOf
    <2>2. ASSUME NEW c, NEW j \in AllOrders
          PROVE  <<c, j>> \in FreeOf(mm_bucket')
                   <=> <<c, j>> \in FreeOf(mm_bucket) \/ <<c, j>> = nb
      <3>1. <<c, j>> \in FreeOf(mm_bucket') <=> c \in Range(mm_bucket'[j])
        BY FreeOfAt
      <3>2. <<c, j>> \in FreeOf(mm_bucket) <=> c \in Range(mm_bucket[j])
        BY FreeOfAt
      <3> QED
        BY <1>9, <3>1, <3>2
    <2>3. \A b \in FreeOf(mm_bucket') : \E j \in AllOrders : \E c : b = <<c, j>>
      BY FreeOfPick
    <2>4. \A b \in FreeOf(mm_bucket) : \E j \in AllOrders : \E c : b = <<c, j>>
      BY FreeOfPick
    <2>5. FreeOf(mm_bucket') \subseteq FreeOf(mm_bucket) \cup {nb}
      BY <2>2, <2>3
    <2>6. FreeOf(mm_bucket) \subseteq FreeOf(mm_bucket')
      BY <2>2, <2>4
    <2>7. nb \in FreeOf(mm_bucket')
      BY <1>1, <2>2
    <2> QED
      BY <2>1, <2>5, <2>6, <2>7, FreeBlocksAt
  <1>11. UsedBlocks' = UsedBlocks
    BY <1>2 DEF UsedBlocks
  <1>12. Blocks' = Blocks \cup {nb}
    BY <1>10, <1>11 DEF Blocks
  <1>13. ASSUME NEW b \in Blocks
         PROVE  b[1] \in DOMAIN region' /\ region'[b[1]] = region[b[1]]
    BY <1>2, <1>4, <1>7 DEF BlocksGood
  <1>14. s \in DOMAIN region' /\ region'[s] = n
    BY <1>2
  <1>15. BlocksGood'
    <2>1. ASSUME NEW b \in Blocks
          PROVE  /\ Base(b[1], b[2]) = b[1] /\ b[1] \in DOMAIN region'
                 /\ Inside(b, region[b[1]])'
      <3>1. Base(b[1], b[2]) = b[1] /\ Inside(b, region[b[1]])
        BY <1>4 DEF BlocksGood
      <3> QED
        BY <1>3, <1>13, <3>1 DEF Inside
    <2>2. /\ Base(nb[1], nb[2]) = nb[1] /\ nb[1] \in DOMAIN region'
          /\ Inside(nb, region[nb[1]])'
      BY <1>1, <1>3, <1>14 DEF Inside
    <2> HIDE DEF nb
    <2> QED
      BY <1>12, <2>1, <2>2 DEF BlocksGood
  <1>16. Apart(Blocks')
    BY <1>5, <1>12 DEF Divided, Apart
  <1>17. Cover'
    <2>1. ASSUME NEW i \in DOMAIN regions', NEW x \in Nat,
                 Base(x, regions'[i].order) = regions'[i].start
          PROVE  \E b \in Blocks' : In(x, b)
      <3>1. CASE i \in DOMAIN regions
        BY <1>3, <1>12, <2>1, <3>1 DEF Divided, Cover
      <3>2. CASE i = n
        <4>1. In(x, nb)
          BY <1>3, <2>1, <3>2 DEF In
        <4> QED
          BY <1>12, <4>1
      <3> QED
        BY <1>3, <3>1, <3>2
    <2> QED
      BY <2>1 DEF Cover
  <1>18. ListedOnce'
    BY <1>9 DEF ListedOnce
  <1>19. FreeBlocks' \cap UsedBlocks' = {}
    BY <1>7, <1>10, <1>11 DEF Divided, Blocks
  <1>20. FullyMerged'
    <2>1. ASSUME NEW j \in AllOrders, NEW a \in Range(mm_bucket'[j]),
                 NEW b \in Range(mm_bucket'[j]), a # b, region'[a] = region'[b]
          PROVE  a \div order_to_size(j + 1) # b \div order_to_size(j + 1)
      <3>1. \A c \in Range(mm_bucket[j]) :
              region'[c] = region[c] /\ region'[c] # n
        <4> SUFFICES ASSUME NEW c \in Range(mm_bucket[j])
                     PROVE  region'[c] = region[c] /\ region'[c] # n
          OBVIOUS
        <4>1. <<c, j>> \in Blocks
          BY FreeBlocksAt, FreeOfAt DEF Blocks
        <4>2. /\ region'[<<c, j>>[1]] = region[<<c, j>>[1]]
              /\ region[<<c, j>>[1]] \in DOMAIN regions
          BY <1>4, <1>13, <4>1 DEF BlocksGood, Inside
        <4> QED
          BY <1>3, <4>2
      <3>2. CASE a \in Range(mm_bucket[j]) /\ b \in Range(mm_bucket[j])
        BY <2>1, <3>1, <3>2 DEF Divided, FullyMerged
      <3>3. CASE a = s \/ b = s
        <4>1. \A c \in Range(mm_bucket'[j]) : c # s => region'[c] # n
          BY <1>9, <3>1
        <4> HIDE DEF s
        <4> QED
          BY <1>14, <2>1, <3>3, <4>1
      <3> QED
        BY <1>9, <3>2, <3>3
    <2> QED
      BY <2>1 DEF FullyMerged
  <1>21. Counted'
    <2>1. Memory' = Memory \cup Units(s, o)
      <3>1. \A i \in DOMAIN regions' : \/ i = n /\ regions'[i] = r
                                       \/ i \in DOMAIN regions /\ regions'[i] = regions[i]
        BY <1>3
      <3>2. ASSUME NEW x PROVE x \in Memory' <=> x \in Memory \cup Units(s, o)
        <4>1. x \in Memory' <=> \E i \in DOMAIN regions' :
                x \in Units(regions'[i].start, regions'[i].order)
          BY DEF Memory
        <4>2. x \in Memory <=> \E i \in DOMAIN regions :
                x \in Units(regions[i].start, regions[i].order)
          BY DEF Memory
        <4> QED
          BY <1>3, <3>1, <4>1, <4>2
      <3> QED
        BY <3>2
    <2>2. Memory \cap Units(s, o) = {}
      BY DEF Memory
    <2>3. IsFiniteSet(Memory) /\ Cardinality(Memory) = total
      BY DEF Divided, Counted
    <2> DEFINE z == order_to_size(o)
    <2>4. z \in Nat /\ z > 0
      BY <1>1, SizeType
    <2>5. IsFiniteSet(s..(s + z - 1)) /\ Cardinality(s..(s + z - 1)) = z
      <3> HIDE DEF s, o, z
      <3>1. s \in Int /\ s + z - 1 \in Int /\ ~ (s > s + z - 1)
            /\ (s + z - 1) - s + 1 = z
        BY <1>1, <2>4
      <3> QED
        BY <3>1, FS_Interval
    <2>6. IsFiniteSet(Units(s, o)) /\ Cardinality(Units(s, o)) = z
      BY <2>5 DEF Units
    <2>7. /\ IsFiniteSet(Memory \cup Units(s, o))
          /\ Cardinality(Memory \cup Units(s, o))
               = Cardinality(Memory) + Cardinality(Units(s, o))
                   - Cardinality(Memory \cap Units(s, o))
      BY <2>3, <2>6, FS_Union
    <2>8. Cardinality(Memory \cap Units(s, o)) = 0
      BY <2>2, FS_EmptySet
    <2>9. total \in Nat
      BY DEF TypeOK
    <2>10. Cardinality(Memory \cup Units(s, o)) = total + z
      <3> HIDE DEF z, s, o
      <3> QED
        BY <2>3, <2>4, <2>6, <2>7, <2>8, <2>9
    <2>11. total' = total + z
      BY <1>2
    <2> QED
      BY <2>1, <2>7, <2>10, <2>11 DEF Counted
  <1> QED
    BY <1>15, <1>16, <1>17, <1>18, <1>19, <1>20, <1>21 DEF Divided

\* The blocks of a chain are aligned parts of the large block.
LEMMA ChainAt ==
    ASSUME NEW a \in Nat, NEW o \in Nat, NEW k \in Nat, o <= k,
           NEW c \in Chain(a, o, k)
    PROVE  /\ c[1] \in Nat /\ c[2] \in Nat /\ o <= c[2] /\ c[2] <= k
           /\ Base(c[1], c[2]) = c[1] /\ In(c[1], c)
           /\ Base(c[1], k) = Base(a, k)
  <1>1. /\ c[1] \in Nat /\ c[2] \in Nat /\ o <= c[2] /\ c[2] <= k
        /\ Base(c[1], c[2]) = c[1]
    <2>1. CASE c = <<Base(a, o), o>>
      <3>1. Base(a, o) \in Nat /\ Base(Base(a, o), o) = Base(a, o)
        BY BaseNum, BaseBase
      <3> QED
        BY <2>1, <3>1
    <2>2. CASE \E j \in o..(k - 1) : c = <<BuddyOf(a, j), j>>
      <3>1. PICK j \in o..(k - 1) : c = <<BuddyOf(a, j), j>>
        BY <2>2
      <3>2. j \in Nat /\ o <= j /\ j <= k
        OBVIOUS
      <3>3. BuddyOf(a, j) \in Nat /\ Base(BuddyOf(a, j), j) = BuddyOf(a, j)
        BY <3>2, Halves
      <3> QED
        BY <3>1, <3>2, <3>3
    <2> QED
      BY <2>1, <2>2 DEF Chain
  <1>2. In(c[1], c)
    BY <1>1 DEF In
  <1> QED
    BY <1>1, <1>2, ChainCover

\* The high half of a block is the buddy of the low one.
LEMMA HighIsBuddy ==
    ASSUME NEW a \in Nat, NEW j \in Nat, Base(a, j + 1) = a
    PROVE  HighHalf(a, j) = BuddyOf(a, j) /\ Base(a, j) = a
  <1> DEFINE s == order_to_size(j)
             d == Num(a, j + 1)
  <1>1. s \in Nat /\ order_to_size(j + 1) = 2 * s
    BY SizeType, SizeDouble
  <1>2. d \in Nat /\ a = order_to_size(j + 1) * d
    <2>1. j + 1 \in Nat
      OBVIOUS
    <2> QED
      BY <2>1, BaseNum
  <1> HIDE DEF s, d
  <1>3. a = s * (2 * d) /\ 2 * d \in Nat
    BY <1>1, <1>2
  <1>4. Num(s * (2 * d), j) = 2 * d /\ Base(s * (2 * d), j) = s * (2 * d)
    BY <1>3, NumMul DEF s
  <1>5. Base(a, j) = a /\ a \div s = 2 * d
    BY <1>3, <1>4 DEF Num, s
  <1>6. (2 * d) % 2 # 1
    BY <1>2
  <1>7. (Base(a, j) \div order_to_size(j)) % 2 # 1
    BY <1>5, <1>6 DEF s
  <1>8. BuddyOf(a, j) = Base(a, j) + order_to_size(j)
    BY <1>7 DEF BuddyOf
  <1> QED
    BY <1>5, <1>8 DEF HighHalf

\* A unit at which two free blocks could merge.
LEMMA SameParent ==
    ASSUME NEW a \in Nat, NEW b \in Nat, NEW j \in Nat,
           Base(a, j) = a, Base(b, j) = b, a # b
    PROVE  a \div order_to_size(j + 1) = b \div order_to_size(j + 1)
             <=> b = BuddyOf(a, j)
  <1>1. a \div order_to_size(j + 1) = b \div order_to_size(j + 1)
          <=> Base(a, j + 1) = Base(b, j + 1)
    <2>1. j + 1 \in Nat
      OBVIOUS
    <2> QED
      BY <2>1, SameBase DEF Num
  <1>2. Base(b, j + 1) = Base(a, j + 1) <=> Base(b, j) \in {Base(a, j), BuddyOf(a, j)}
    BY Halves
  <1> QED
    BY <1>1, <1>2

\* A block is taken from its list, and split down to the order asked for.
LEMMA TakeDivided ==
    ASSUME RegionsGood, TypeOK, Divided, NEW k \in AllOrders,
           NEW o \in AllOrders, o <= k, NEW a \in Range(mm_bucket[k]),
           Take(k, o, a), UNCHANGED <<regions, total>>,
           UsedBlocks' = UsedBlocks \cup {<<a, o>>}
    PROVE  /\ Divided'
           /\ <<a, o>> \notin UsedBlocks
           /\ mm_bucket' \in Lists
           /\ \A c \in DOMAIN region' : region'[c] \in DOMAIN regions
  <1> DEFINE ak == <<a, k>>
             ao == <<a, o>>
             C == Chain(a, o, k)
             highs == {<<BuddyOf(a, j), j>> : j \in o..(k - 1)}
  <1>1. k \in Nat /\ o \in Nat
    BY OrdersAt
  <1>2. mm_bucket \in Lists /\ \A j \in AllOrders : IsInjective(mm_bucket[j])
    BY DEF TypeOK, Lists, Divided, ListedOnce
  <1>3. a \in Nat
    BY <1>2, RangeNat
  <1>4. ak \in FreeBlocks /\ ak \in Blocks /\ ak \notin UsedBlocks
    BY FreeBlocksAt, FreeOfAt DEF Blocks, Divided
  <1>5. BlocksGood
    BY DEF Divided
  <1>6. Base(a, k) = a /\ a \in DOMAIN region /\ Inside(ak, region[a])
    <2>1. /\ Base(ak[1], ak[2]) = ak[1] /\ ak[1] \in DOMAIN region
          /\ Inside(ak, region[ak[1]])
      BY <1>4, <1>5 DEF BlocksGood
    <2> QED
      BY <2>1
  <1>7. ASSUME NEW j \in o..(k - 1)
        PROVE  /\ j \in Nat /\ j \in AllOrders /\ j # k
               /\ HighHalf(a, j) = BuddyOf(a, j) /\ BuddyOf(a, j) \in Nat
               /\ BuddyOf(a, j) # a /\ Base(a, j) = a
               /\ Base(BuddyOf(a, j), j) = BuddyOf(a, j)
    <2>1. j \in Nat /\ j # k /\ j + 1 \in Nat /\ j + 1 <= k
      BY <1>1
    <2>2. j \in AllOrders
      <3>1. k <= MAX_ADDRESSABLE_MEM_ORDER /\ MAX_ADDRESSABLE_MEM_ORDER \in Nat
        BY OrdersAt DEF AllOrders
      <3> QED
        BY <1>1, <2>1, <3>1 DEF AllOrders
    <2>3. Base(a, j + 1) = a
      <3>1. Base(Base(a, k), j + 1) = Base(a, k)
        BY <1>1, <1>3, <2>1, BaseBase
      <3> QED
        BY <1>6, <3>1
    <2>4. HighHalf(a, j) = BuddyOf(a, j) /\ Base(a, j) = a
      BY <1>3, <2>1, <2>3, HighIsBuddy
    <2>5. /\ BuddyOf(a, j) \in Nat /\ Base(BuddyOf(a, j), j) = BuddyOf(a, j)
          /\ BuddyOf(a, j) # Base(a, j)
      BY <1>3, <2>1, Halves
    <2> QED
      BY <2>1, <2>2, <2>4, <2>5
  <1>8. Base(a, o) = a
    <2>1. Base(Base(a, k), o) = Base(a, k)
      BY <1>1, <1>3, BaseBase
    <2> QED
      BY <1>6, <2>1
  <1>9. C = {ao} \cup highs
    BY <1>8 DEF Chain
  <1>10. ASSUME NEW c \in C
         PROVE  /\ c[1] \in Nat /\ In(c[1], c) /\ Base(c[1], c[2]) = c[1]
                /\ c[2] \in Nat /\ c[2] <= k /\ Base(c[1], k) = a
    BY <1>1, <1>3, <1>6, ChainAt
  <1>11. Apart(C) /\ Alike({ak}, C)
    BY <1>1, <1>3, <1>6, ChainShape
  <1> HIDE DEF C, highs
  <1>12. ASSUME NEW x \in Nat, NEW b \in Blocks, NEW c \in C, In(x, b), In(x, c)
         PROVE  b = ak
    <2>1. In(x, ak)
      BY <1>11, <1>12 DEF Alike
    <2> QED
      BY <1>4, <1>12, <2>1 DEF Divided, Apart
  <1>13. ASSUME NEW b \in Blocks, NEW c \in C, b[1] = c[1]
         PROVE  b = ak
    <2>1. In(b[1], b)
      BY <1>5, InRegion
    <2> QED
      BY <1>10, <1>12, <1>13, <2>1
  <1>14. \A c \in highs : c \notin Blocks
    <2> SUFFICES ASSUME NEW c \in highs, c \in Blocks PROVE FALSE
      OBVIOUS
    <2>1. PICK j \in o..(k - 1) : c = <<BuddyOf(a, j), j>>
      BY DEF highs
    <2>2. c = ak
      BY <1>9, <1>13
    <2> QED
      BY <1>7, <2>1, <2>2
  <1>15. ao \notin highs
    BY <1>7 DEF highs
  <1>16. ao \in Blocks => ao = ak
    BY <1>9, <1>13
  <1>17. \A j \in o..(k - 1) : HighHalf(a, j) \in Nat \ Range(mm_bucket[j])
    <2> SUFFICES ASSUME NEW j \in o..(k - 1), BuddyOf(a, j) \in Range(mm_bucket[j])
                 PROVE  FALSE
      BY <1>7
    <2>1. <<BuddyOf(a, j), j>> \in Blocks
      BY <1>7, FreeBlocksAt, FreeOfAt DEF Blocks
    <2> QED
      BY <1>14, <2>1 DEF highs
  <1>18. /\ mm_bucket' \in Lists
         /\ \A j \in AllOrders : IsInjective(mm_bucket'[j])
         /\ FreeOf(mm_bucket') = (FreeOf(mm_bucket) \ {ak})
              \cup {<<HighHalf(a, j), j>> : j \in o..(k - 1)}
         /\ \A j \in AllOrders : \A c \in Range(mm_bucket'[j]) \ Range(mm_bucket[j]) :
              j \in o..(k - 1) /\ c = HighHalf(a, j)
    <2>1. mm_bucket' = Taken(mm_bucket, k, o, a)
      BY DEF Take, Taken
    <2> QED
      BY <1>2, <1>17, <2>1, TakeLists
  <1>19. {<<HighHalf(a, j), j>> : j \in o..(k - 1)} = highs
    BY <1>7 DEF highs
  <1>20. FreeBlocks' = (FreeBlocks \ {ak}) \cup highs
    <2>1. FreeBlocks' = FreeOf(mm_bucket')
      BY DEF FreeBlocks, FreeOf
    <2> QED
      BY <1>18, <1>19, <2>1, FreeBlocksAt
  <1>21. Blocks' = (Blocks \ {ak}) \cup C
    BY <1>4, <1>9, <1>20 DEF Blocks
  <1>22. Apart(Blocks') /\ Alike(Blocks, Blocks')
    <2>1. {ak} \subseteq Blocks /\ Apart(Blocks)
      BY <1>4 DEF Divided
    <2> QED
      BY <1>11, <1>21, <2>1, Reshape
  <1>23. Cover'
    BY <1>22 DEF Divided, Cover, Alike
  <1> DEFINE addr == {HighHalf(a, j) : j \in o..(k - 1)}
  <1>24. region' = [b \in DOMAIN region \cup addr |->
                      IF b \in addr THEN region[a] ELSE region[b]]
    BY DEF Take
  <1>25. \A c \in addr : \E b \in highs : b[1] = c
    <2>1. ASSUME NEW j \in o..(k - 1)
          PROVE  /\ <<BuddyOf(a, j), j>> \in highs
                 /\ <<BuddyOf(a, j), j>>[1] = HighHalf(a, j)
      BY <1>7 DEF highs
    <2> QED
      BY <2>1
  <1>26. a \notin addr
    BY <1>7
  <1>27. \A c \in highs : c[1] \in addr
    BY <1>7 DEF highs
  <1> HIDE DEF addr
  <1>28. ASSUME NEW b \in Blocks, b # ak
         PROVE  b[1] \in DOMAIN region' /\ region'[b[1]] = region[b[1]]
    <2>1. b[1] \notin addr
      BY <1>9, <1>13, <1>25, <1>28
    <2>2. b[1] \in DOMAIN region
      BY <1>5 DEF BlocksGood
    <2> QED
      BY <1>24, <2>1, <2>2
  <1>29. ASSUME NEW c \in C
         PROVE  c[1] \in DOMAIN region' /\ region'[c[1]] = region[a]
    <2>1. CASE c = ao
      BY <1>6, <1>24, <1>26, <2>1
    <2>2. CASE c \in highs
      BY <1>24, <1>27, <2>2
    <2> QED
      BY <1>9, <2>1, <2>2
  <1>30. BlocksGood'
    <2>1. ASSUME NEW b \in Blocks, b # ak
          PROVE  /\ Base(b[1], b[2]) = b[1] /\ b[1] \in DOMAIN region'
                 /\ Inside(b, region[b[1]])'
      <3>1. Base(b[1], b[2]) = b[1] /\ Inside(b, region[b[1]])
        BY <1>5 DEF BlocksGood
      <3> QED
        BY <1>28, <2>1, <3>1 DEF Inside
    <2>2. ASSUME NEW c \in C
          PROVE  /\ Base(c[1], c[2]) = c[1] /\ c[1] \in DOMAIN region'
                 /\ Inside(c, region[c[1]])'
      <3> DEFINE i == region[a]
      <3>1. /\ i \in DOMAIN regions /\ k <= regions[i].order
            /\ Base(a, regions[i].order) = regions[i].start
        BY <1>6 DEF Inside
      <3>2. regions[i].order \in Nat
        BY <3>1, RegionAt
      <3>3. Base(c[1], k) = Base(a, k)
        BY <1>6, <1>10
      <3>4. Base(c[1], regions[i].order) = Base(a, regions[i].order)
        BY <1>1, <1>3, <1>10, <3>1, <3>2, <3>3, BaseUp
      <3>5. c[2] <= regions[i].order
        BY <1>1, <1>10, <3>1, <3>2
      <3>6. region'[c[1]] = i /\ regions' = regions
        BY <1>29
      <3> HIDE DEF i
      <3>7. Inside(c, region[c[1]])'
        BY <3>1, <3>4, <3>5, <3>6 DEF Inside
      <3> QED
        BY <1>10, <1>29, <3>7
    <2> QED
      BY <1>21, <2>1, <2>2 DEF BlocksGood
  <1>31. FreeBlocks' \cap UsedBlocks' = {}
    <2>1. ao \notin FreeBlocks \ {ak}
      BY <1>16 DEF Blocks
    <2>2. highs \cap UsedBlocks = {}
      BY <1>14 DEF Blocks
    <2>3. FreeBlocks \cap UsedBlocks = {}
      BY DEF Divided
    <2> QED
      BY <1>15, <1>20, <2>1, <2>2, <2>3
  <1>32. FullyMerged'
    <2>1. ASSUME NEW j \in AllOrders, NEW p \in Range(mm_bucket'[j]),
                 NEW q \in Range(mm_bucket'[j]), p # q, region'[p] = region'[q]
          PROVE  p \div order_to_size(j + 1) # q \div order_to_size(j + 1)
      <3>1. \A c \in Range(mm_bucket'[j]) : <<c, j>> \in FreeBlocks'
        BY FreeOfAt DEF FreeBlocks, FreeOf
      <3>2. \A c \in Range(mm_bucket'[j]) :
              c \in Nat /\ Base(c, j) = c
        <4> SUFFICES ASSUME NEW c \in Range(mm_bucket'[j])
                     PROVE  c \in Nat /\ Base(c, j) = c
          OBVIOUS
        <4>1. <<c, j>> \in Blocks'
          BY <3>1 DEF Blocks
        <4>2. Base(<<c, j>>[1], <<c, j>>[2]) = <<c, j>>[1]
          BY <1>30, <4>1 DEF BlocksGood
        <4>3. c \in Nat
          BY <1>18, RangeNat
        <4> QED
          BY <4>2, <4>3
      <3>3. ASSUME NEW b \in Range(mm_bucket'[j]), j \in o..(k - 1)
            PROVE  b # a
        <4>1. <<b, j>> \in Blocks'
          BY <3>1 DEF Blocks
        <4>2. b # a
          <5> SUFFICES ASSUME b = a PROVE FALSE
            OBVIOUS
          <5>1. <<a, j>> \in FreeBlocks \/ <<a, j>> \in highs
            BY <1>20, <3>1
          <5>2. <<a, j>> \notin highs
            BY <1>7 DEF highs
          <5>3. <<a, j>> = ak
            BY <1>9, <1>13, <5>1, <5>2 DEF Blocks
          <5> QED
            BY <1>7, <3>3, <5>3
        <4> QED
          BY <4>2
      <3>4. ASSUME NEW c \in Range(mm_bucket'[j]), NEW d \in Range(mm_bucket'[j]),
                   c # d, c \notin Range(mm_bucket[j])
            PROVE  c \div order_to_size(j + 1) # d \div order_to_size(j + 1)
        <4>1. j \in o..(k - 1) /\ c = BuddyOf(a, j)
          BY <1>7, <1>18, <3>4
        <4>2. j \in Nat /\ Base(a, j) = a /\ c # a
          BY <1>7, <4>1
        <4>3. d # a
          BY <3>3, <4>1
        <4>4. a \div order_to_size(j + 1) = c \div order_to_size(j + 1)
          BY <1>3, <3>2, <4>1, <4>2, SameParent
        <4>5. a \div order_to_size(j + 1) # d \div order_to_size(j + 1)
          BY <1>3, <3>2, <3>4, <4>1, <4>2, <4>3, SameParent
        <4> QED
          BY <4>4, <4>5
      <3>5. CASE p \in Range(mm_bucket[j]) /\ q \in Range(mm_bucket[j])
        <4>1. ASSUME NEW c \in Range(mm_bucket'[j]), c \in Range(mm_bucket[j])
              PROVE  region'[c] = region[c]
          <5>1. <<c, j>> \in FreeBlocks /\ <<c, j>> \in FreeBlocks'
            BY <3>1, <4>1, FreeBlocksAt, FreeOfAt
          <5>2. <<c, j>> # ak
            BY <1>4, <1>14, <1>20, <5>1
          <5>3. region'[<<c, j>>[1]] = region[<<c, j>>[1]]
            BY <1>28, <5>1, <5>2 DEF Blocks
          <5> QED
            BY <5>3
        <4>2. region[p] = region[q]
          BY <2>1, <3>5, <4>1
        <4> QED
          BY <2>1, <3>5, <4>2 DEF Divided, FullyMerged
      <3>6. CASE p \notin Range(mm_bucket[j])
        BY <2>1, <3>4, <3>6
      <3>7. CASE q \notin Range(mm_bucket[j])
        BY <2>1, <3>4, <3>7
      <3> QED
        BY <3>5, <3>6, <3>7
    <2> QED
      BY <2>1 DEF FullyMerged
  <1>33. ListedOnce' /\ Counted'
    BY <1>18 DEF Divided, ListedOnce, Counted, Memory
  <1>34. Divided'
    BY <1>22, <1>23, <1>30, <1>31, <1>32, <1>33 DEF Divided
  <1>35. ao \notin UsedBlocks
    BY <1>4, <1>16 DEF Blocks
  <1>36. \A c \in DOMAIN region' : region'[c] \in DOMAIN regions
    <2>1. \A c \in DOMAIN region : region[c] \in DOMAIN regions
      BY DEF TypeOK
    <2> QED
      BY <1>6, <1>24, <2>1
  <1> QED
    BY <1>18, <1>34, <1>35, <1>36

\* defragment stops at the region's order at the latest.
LEMMA TopAt ==
    ASSUME RegionsGood, TypeOK, Divided, NEW a \in Nat, NEW o \in AllOrders,
           <<a, o>> \in UsedBlocks
    PROVE  LET S == {k \in o..MAX_ADDRESSABLE_MEM_ORDER : ~Merges(a, k)}
           IN  /\ Min(S) \in S
               /\ Min(S) <= regions[region[a]].order
               /\ \A j \in o..(Min(S) - 1) : Merges(a, j)
  <1> DEFINE S == {k \in o..MAX_ADDRESSABLE_MEM_ORDER : ~Merges(a, k)}
             i == region[a]
             m == regions[i].order
             ao == <<a, o>>
  <1>1. o \in Nat /\ MAX_ADDRESSABLE_MEM_ORDER \in Nat
    BY OrdersAt
  <1>2. ao \in Blocks
    BY DEF Blocks
  <1>3. Inside(ao, i)
    <2>1. Inside(ao, region[ao[1]])
      BY <1>2 DEF Divided, BlocksGood
    <2> QED
      BY <2>1
  <1>4. i \in DOMAIN regions /\ o <= m /\ Base(a, m) = regions[i].start
    BY <1>3 DEF Inside
  <1>5. m \in Nat /\ m < MAX_ADDRESSABLE_MEM_ORDER
    BY <1>4, RegionAt
  <1>6. m \in AllOrders
    BY <1>1, <1>5 DEF AllOrders
  <1>7. ~Merges(a, m)
    <2> SUFFICES ASSUME Merges(a, m) PROVE FALSE
      OBVIOUS
    <2> DEFINE q == BuddyOf(a, m)
    <2>1. q \in Range(mm_bucket[m]) /\ region[q] = i
      BY DEF Merges
    <2>2. <<q, m>> \in Blocks
      BY <1>6, <2>1, FreeBlocksAt, FreeOfAt DEF Blocks
    <2>3. Inside(<<q, m>>, region[<<q, m>>[1]])
      BY <2>2 DEF Divided, BlocksGood
    <2>4. Base(q, m) = regions[i].start
      BY <2>1, <2>3 DEF Inside
    <2>5. Base(q, m) = q /\ q # Base(a, m)
      BY <1>5, Halves
    <2> QED
      BY <1>4, <2>4, <2>5
  <1>8. m \in S
    BY <1>1, <1>4, <1>5, <1>7
  <1>9. S \in SUBSET Nat
    BY <1>1
  <1> HIDE DEF S, m
  <1>10. Min(S) \in S /\ \A k \in S : Min(S) <= k
    BY <1>8, <1>9, MinAt
  <1> DEFINE top == Min(S)
  <1>11. top \in S /\ top \in Nat /\ top <= m
    BY <1>8, <1>9, <1>10
  <1>12. top <= MAX_ADDRESSABLE_MEM_ORDER
    BY <1>11 DEF S
  <1>13. \A k \in S : top <= k
    BY <1>10
  <1> HIDE DEF top
  <1>14. ASSUME NEW j \in o..(top - 1) PROVE Merges(a, j)
    <2>1. j \in Nat /\ j < top /\ j \in o..MAX_ADDRESSABLE_MEM_ORDER
      BY <1>1, <1>11, <1>12
    <2>2. j \notin S
      BY <1>11, <1>13, <2>1
    <2> QED
      BY <2>1, <2>2 DEF S
  <1> QED
    BY <1>11, <1>14 DEF top, S, m

\* A block is given back, and merges as far as it can.
LEMMA MergeDivided ==
    ASSUME RegionsGood, TypeOK, Divided, NEW a, NEW o,
           <<a, o>> \in UsedBlocks, defragment(a, o),
           UNCHANGED <<regions, region, total>>,
           UsedBlocks' = UsedBlocks \ {<<a, o>>}
    PROVE  Divided' /\ mm_bucket' \in Lists
  <1> DEFINE S == {k \in o..MAX_ADDRESSABLE_MEM_ORDER : ~Merges(a, k)}
             top == Min(S)
             ao == <<a, o>>
             y == Base(a, top)
             tb == <<y, top>>
             C == Chain(a, o, top)
             gone == {<<BuddyOf(a, j), j>> : j \in o..(top - 1)}
             i == region[a]
             m == regions[i].order
  <1>1. ao \in Blocks
    BY DEF Blocks
  <1>2. a \in Nat /\ o \in AllOrders /\ o \in Nat
    BY <1>1, BlockType
  <1>3. BlocksGood /\ Apart(Blocks)
    BY DEF Divided
  <1>4. Base(a, o) = a /\ a \in DOMAIN region /\ Inside(ao, i)
    <2>1. /\ Base(ao[1], ao[2]) = ao[1] /\ ao[1] \in DOMAIN region
          /\ Inside(ao, region[ao[1]])
      BY <1>1, <1>3 DEF BlocksGood
    <2> QED
      BY <2>1
  <1>5. i \in DOMAIN regions /\ o <= m /\ Base(a, m) = regions[i].start
    BY <1>4 DEF Inside
  <1>6. m \in Nat
    BY <1>5, RegionAt
  <1>7. /\ top \in S /\ top <= m
        /\ \A j \in o..(top - 1) : Merges(a, j)
    BY <1>2, TopAt
  <1>8. /\ top \in o..MAX_ADDRESSABLE_MEM_ORDER /\ ~Merges(a, top)
    BY <1>7
  <1>9. mm_bucket' = Merged(mm_bucket, top, o, a)
    BY DEF defragment, Merged
  <1> HIDE DEF S, top, m
  <1>10. top \in Nat /\ o <= top /\ top \in AllOrders
    BY <1>2, <1>8, OrdersAt DEF AllOrders
  <1>11. y \in Nat /\ Base(y, top) = y
    BY <1>2, <1>10, BaseNum, BaseBase
  <1>12. mm_bucket \in Lists /\ \A j \in AllOrders : IsInjective(mm_bucket[j])
    BY DEF TypeOK, Lists, Divided, ListedOnce
  <1>13. FreeBlocks \cap UsedBlocks = {}
    BY DEF Divided
  <1>14. C = {ao} \cup gone
    BY <1>4 DEF Chain
  <1>15. ASSUME NEW j \in o..(top - 1)
         PROVE  /\ <<BuddyOf(a, j), j>> \in FreeBlocks
                /\ region[BuddyOf(a, j)] = i
    <2>1. j \in AllOrders
      BY <1>2, <1>8, <1>10, OrdersAt DEF AllOrders
    <2>2. BuddyOf(a, j) \in Range(mm_bucket[j]) /\ region[BuddyOf(a, j)] = i
      BY <1>7 DEF Merges
    <2> QED
      BY <2>1, <2>2, FreeBlocksAt, FreeOfAt
  <1>16. gone \subseteq FreeBlocks
    BY <1>15
  <1>17. \A c \in C : c \in Blocks /\ region[c[1]] = i
    <2>1. ASSUME NEW j \in o..(top - 1)
          PROVE  region[<<BuddyOf(a, j), j>>[1]] = i
      BY <1>15
    <2>2. region[ao[1]] = i
      OBVIOUS
    <2>3. \A c \in gone : region[c[1]] = i
      BY <2>1
    <2> HIDE DEF C, gone
    <2> QED
      BY <1>1, <1>14, <1>16, <2>2, <2>3 DEF Blocks
  <1>18. Alike(C, {tb}) /\ Apart({tb})
    BY <1>2, <1>10, ChainShape
  <1>19. In(a, ao) /\ In(a, tb) /\ In(y, tb)
    BY <1>4, <1>11 DEF In
  <1>20. tb \in Blocks => tb = ao
    BY <1>1, <1>2, <1>3, <1>19 DEF Apart
  <1>21. tb \notin FreeBlocks
    BY <1>13, <1>20 DEF Blocks
  <1>22. y \in Nat \ Range(mm_bucket[top])
    BY <1>10, <1>11, <1>21, FreeBlocksAt, FreeOfAt
  <1>23. /\ mm_bucket' \in Lists
         /\ \A j \in AllOrders : IsInjective(mm_bucket'[j])
         /\ FreeOf(mm_bucket') = (FreeOf(mm_bucket) \ gone) \cup {tb}
         /\ \A j \in AllOrders : \A c \in Range(mm_bucket'[j]) \ Range(mm_bucket[j]) :
              j = top /\ c = y
    BY <1>2, <1>9, <1>10, <1>12, <1>22, MergeLists
  <1>24. FreeBlocks' = (FreeBlocks \ gone) \cup {tb}
    <2>1. FreeBlocks' = FreeOf(mm_bucket')
      BY DEF FreeBlocks, FreeOf
    <2> QED
      BY <1>23, <2>1, FreeBlocksAt
  <1>25. \E c \in C : c[1] = y
    <2>1. Base(y, top) = Base(a, top)
      BY <1>11
    <2>2. PICK c \in C : In(y, c)
      BY <1>2, <1>10, <1>11, <2>1, ChainCover
    <2>3. c[2] \in Nat /\ c[2] <= top
      BY <1>2, <1>10, <2>2, ChainAt
    <2>4. Base(y, c[2]) = y
      BY <1>2, <1>10, <2>3, BaseBase
    <2> QED
      BY <2>2, <2>4 DEF In
  <1>26. y \in DOMAIN region /\ region[y] = i
    BY <1>3, <1>17, <1>25 DEF BlocksGood
  <1> HIDE DEF C, gone, y
  <1>27. Blocks' = (Blocks \ C) \cup {tb}
    BY <1>13, <1>14, <1>16, <1>24 DEF Blocks
  <1>28. Apart(Blocks') /\ Alike(Blocks, Blocks')
    <2>1. C \subseteq Blocks
      BY <1>17
    <2> QED
      BY <1>3, <1>18, <1>27, <2>1, Reshape
  <1>29. Cover'
    BY <1>28 DEF Divided, Cover, Alike
  <1>30. BlocksGood'
    <2>1. ASSUME NEW b \in Blocks
          PROVE  /\ Base(b[1], b[2]) = b[1] /\ b[1] \in DOMAIN region'
                 /\ Inside(b, region[b[1]])'
      BY <1>3 DEF BlocksGood, Inside
    <2>2. Base(y, m) = Base(a, m)
      BY <1>2, <1>6, <1>7, <1>10, BaseBase DEF y
    <2>3. tb[1] = y /\ tb[2] = top
      OBVIOUS
    <2> HIDE DEF tb, i
    <2>4. ASSUME NEW b, b = tb
          PROVE  /\ Base(b[1], b[2]) = b[1] /\ b[1] \in DOMAIN region'
                 /\ Inside(b, region[b[1]])'
      <3>1. b[1] = y /\ b[2] = top
        BY <2>3, <2>4
      <3>2. region'[b[1]] = i /\ b[1] \in DOMAIN region'
        BY <1>26, <3>1
      <3>3. i \in DOMAIN regions' /\ regions'[i].order = m
        BY <1>5 DEF m
      <3>4. regions'[i].start = Base(y, m)
        BY <1>5, <2>2
      <3>5. Inside(b, region[b[1]])'
        BY <1>7, <3>1, <3>2, <3>3, <3>4 DEF Inside
      <3> QED
        BY <1>11, <3>1, <3>2, <3>5
    <2>5. \A b \in Blocks' : b \in Blocks \/ b = tb
      BY <1>27
    <2> QED
      BY <2>1, <2>4, <2>5 DEF BlocksGood
  <1>31. FreeBlocks' \cap UsedBlocks' = {}
    BY <1>13, <1>20, <1>24 DEF Blocks
  <1>32. FullyMerged'
    <2>1. ASSUME NEW j \in AllOrders, NEW p \in Range(mm_bucket'[j]),
                 NEW q \in Range(mm_bucket'[j]), p # q, region'[p] = region'[q]
          PROVE  p \div order_to_size(j + 1) # q \div order_to_size(j + 1)
      <3>1. CASE p \in Range(mm_bucket[j]) /\ q \in Range(mm_bucket[j])
        BY <2>1, <3>1 DEF Divided, FullyMerged
      <3>2. ASSUME NEW c \in Range(mm_bucket'[j]), NEW d \in Range(mm_bucket'[j]),
                   c # d, region[c] = region[d], c \notin Range(mm_bucket[j])
            PROVE  c \div order_to_size(j + 1) # d \div order_to_size(j + 1)
        <4>1. j = top /\ c = y /\ d \in Range(mm_bucket[top]) /\ d # y
          BY <1>23, <3>2
        <4>2. <<d, top>> \in Blocks
          BY <1>10, <4>1, FreeBlocksAt, FreeOfAt DEF Blocks
        <4>3. Base(<<d, top>>[1], <<d, top>>[2]) = <<d, top>>[1]
          BY <1>3, <4>2 DEF BlocksGood
        <4>4. Base(d, top) = d /\ d \in Nat
          BY <1>10, <1>12, <4>1, <4>3, RangeNat
        <4>5. BuddyOf(y, top) = BuddyOf(a, top)
          BY <1>11 DEF BuddyOf, y
        <4>6. d # BuddyOf(a, top)
          BY <1>8, <1>26, <3>2, <4>1 DEF Merges
        <4> QED
          BY <1>10, <1>11, <4>1, <4>4, <4>5, <4>6, SameParent
      <3>3. CASE p \notin Range(mm_bucket[j])
        BY <2>1, <3>2, <3>3
      <3>4. CASE q \notin Range(mm_bucket[j])
        BY <2>1, <3>2, <3>4
      <3> QED
        BY <3>1, <3>3, <3>4
    <2> QED
      BY <2>1 DEF FullyMerged
  <1>33. ListedOnce' /\ Counted'
    BY <1>23 DEF Divided, ListedOnce, Counted, Memory
  <1> QED
    BY <1>23, <1>28, <1>29, <1>30, <1>31, <1>32, <1>33 DEF Divided

-----------------------------------------------------------------------------
(* What each call does *)

\* A block in somebody's hands is passed to the call that frees it.
LEMMA HandOver ==
    ASSUME TypeOK, Places, Hands, NEW t \in Tasks, NEW b \in held,
           pc[t] = Idle, held' = held \ {b}, blk' = [blk EXCEPT ![t] = b]
    PROVE  /\ UsedBlocks' = UsedBlocks /\ Hands'
           /\ DOMAIN blk' = Tasks /\ blk'[t] = b
           /\ \A u \in Tasks : u # t => blk'[u] = blk[u]
           /\ b \in Nat \X AllOrders /\ b # None
  <1>1. b \in Nat \X AllOrders /\ DOMAIN blk = Tasks /\ blk[t] = None
    BY DEF TypeOK, Places
  <1>2. b # None
    BY <1>1, NoneAt
  <1>3. /\ DOMAIN blk' = Tasks /\ blk'[t] = b
        /\ \A u \in Tasks : u # t => blk'[u] = blk[u]
    BY <1>1
  <1>4. /\ \A u \in Tasks : blk[u] \notin held
        /\ \A u, v \in Tasks : blk[u] # None /\ blk[u] = blk[v] => u = v
    BY DEF Hands
  <1>5. UsedBlocks' = UsedBlocks
    <2>1. \A c : c \in UsedBlocks <=>
            c \in held \/ (c # None /\ \E u \in Tasks : blk[u] = c)
      BY DEF UsedBlocks
    <2>2. \A c : c \in UsedBlocks' <=>
            c \in held' \/ (c # None /\ \E u \in Tasks : blk'[u] = c)
      BY DEF UsedBlocks, None
    <2>3. \A c : c \in UsedBlocks' <=> c \in UsedBlocks
      BY <1>1, <1>2, <1>3, <2>1, <2>2
    <2> QED
      BY <2>3
  <1>6. /\ \A u \in Tasks : blk'[u] \notin held'
        /\ \A u, v \in Tasks : blk'[u] # None /\ blk'[u] = blk'[v] => u = v
    BY <1>3, <1>4
  <1>7. Hands'
    BY <1>6 DEF Hands, None
  <1> QED
    BY <1>1, <1>2, <1>3, <1>5, <1>7

\* The orders that callers ask for.
LEMMA OrdersAsked ==
    /\ \A s \in Sizes \ {0} :
         size_to_order(s + Header) \in 0..(MAX_ADDRESSABLE_MEM_ORDER + 1)
    /\ \A p \in PageOrders : p + PAGE_ORDER \in AllOrders
  <1>1. /\ MAX_ADDRESSABLE_MEM_ORDER \in Nat /\ PAGE_ORDER \in Nat
        /\ Sizes \subseteq Nat /\ PageOrders \subseteq Nat
        /\ \A s \in Sizes : s + Header < order_to_size(MAX_ADDRESSABLE_MEM_ORDER + 1)
        /\ \A p \in PageOrders : p + PAGE_ORDER <= MAX_ADDRESSABLE_MEM_ORDER
    BY BuddyAssumption DEF order_to_size
  <1>2. ASSUME NEW s \in Sizes \ {0}
        PROVE  size_to_order(s + Header) \in 0..(MAX_ADDRESSABLE_MEM_ORDER + 1)
    <2>1. s + Header \in Nat /\ s + Header > 0 /\ MAX_ADDRESSABLE_MEM_ORDER + 1 \in Nat
      BY <1>1 DEF Header
    <2>2. s + Header <= order_to_size(MAX_ADDRESSABLE_MEM_ORDER + 1)
      BY <1>1, <2>1, SizeType
    <2> QED
      BY <2>1, <2>2, OrderAt
  <1>3. ASSUME NEW p \in PageOrders PROVE p + PAGE_ORDER \in AllOrders
    BY <1>1 DEF AllOrders
  <1> QED
    BY <1>2, <1>3

\* A request is counted, and waits for the lock or is refused.
LEMMA RequestStep ==
    ASSUME TypeOK, Places, NEW t \in Tasks,
           NEW o \in 0..(MAX_ADDRESSABLE_MEM_ORDER + 1),
           NEW f \in Flags \cup {{}}, NEW place \in {"alloc", "page"},
           Request(t, o, f, place)
    PROVE  /\ pc[t] = Idle /\ used' \in Int
           /\ UNCHANGED <<mm_available, booting, regions, total, mm_bucket,
                          region, pages>>
           /\ \/ /\ o = MAX_ADDRESSABLE_MEM_ORDER + 1
                 /\ pc' = pc /\ req' = req
                 /\ answer' = [order |-> o, flags |-> f, addr |-> Failed(place)]
              \/ /\ pc' \in [Tasks -> {Idle, "alloc", "page", "uncount", "free"}]
                 /\ DOMAIN req' = Tasks /\ pc'[t] = place
                 /\ req'[t] \in AllOrders \X (Flags \cup {{}})
                 /\ \A u \in Tasks : u # t => pc'[u] = pc[u] /\ req'[u] = req[u]
                 /\ answer' = answer
  <1>1. pc \in [Tasks -> {Idle, "alloc", "page", "uncount", "free"}] /\ used \in Int
    BY DEF TypeOK
  <1>2. DOMAIN req = Tasks
    BY DEF Places
  <1>3. o \in Nat /\ MAX_ADDRESSABLE_MEM_ORDER \in Nat
    BY OrdersAt
  <1>4. order_to_size(o) \in Nat
    BY <1>3, SizeType
  <1>5. /\ pc[t] = Idle /\ used' = used + order_to_size(o)
        /\ UNCHANGED <<mm_available, booting, regions, total, mm_bucket, region, pages>>
    BY DEF Request, boot
  <1>6. used' \in Int
    BY <1>1, <1>4, <1>5
  <1>7. CASE o > MAX_ADDRESSABLE_MEM_ORDER
    <2>1. o = MAX_ADDRESSABLE_MEM_ORDER + 1
      BY <1>3, <1>7
    <2> QED
      BY <1>5, <1>6, <1>7, <2>1 DEF Request
  <1>8. CASE ~ (o > MAX_ADDRESSABLE_MEM_ORDER)
    <2>1. o \in AllOrders
      BY <1>3, <1>8 DEF AllOrders
    <2>2. /\ pc' = [pc EXCEPT ![t] = place] /\ req' = [req EXCEPT ![t] = <<o, f>>]
          /\ answer' = answer
      BY <1>8 DEF Request
    <2> QED
      BY <1>1, <1>2, <1>5, <1>6, <2>1, <2>2
  <1> QED
    BY <1>7, <1>8

\* The types, after a call.
LEMMA CallType ==
    ASSUME TypeOK, UNCHANGED <<mm_available, booting, regions, total>>,
           mm_bucket' \in Lists,
           \A a \in DOMAIN region' : region'[a] \in DOMAIN regions,
           held' \subseteq Nat \X AllOrders, pages' \subseteq held', used' \in Int,
           pc' \in [Tasks -> {Idle, "alloc", "page", "uncount", "free"}],
           \A t \in Tasks : blk'[t] = None \/ blk'[t] \in Nat \X AllOrders,
           answer' # NULL => answer'.addr \in Nat \cup {NULL, Wild}
    PROVE  TypeOK'
  BY DEF TypeOK, Lists, AllOrders, Idle, None

\* The parts of TypeOK that calls need.
LEMMA TypeAt ==
    ASSUME TypeOK
    PROVE  /\ mm_bucket \in Lists /\ used \in Int /\ total \in Nat
           /\ \A a \in DOMAIN region : region[a] \in DOMAIN regions
           /\ held \subseteq Nat \X AllOrders /\ pages \subseteq held
           /\ pc \in [Tasks -> {Idle, "alloc", "page", "uncount", "free"}]
           /\ \A t \in Tasks : blk[t] = None \/ blk[t] \in Nat \X AllOrders
           /\ answer # NULL => answer.addr \in Nat \cup {NULL, Wild}
  BY DEF TypeOK, Lists

\* A request keeps the invariant, whether it moves a block to the call or not.
LEMMA RequestKeeps ==
    ASSUME Kept, NEW t \in Tasks,
           NEW o \in 0..(MAX_ADDRESSABLE_MEM_ORDER + 1),
           NEW f \in Flags \cup {{}}, NEW place \in {"alloc", "page"},
           Request(t, o, f, place),
           \/ UNCHANGED <<held, blk>>
           \/ \E b \in held \ pages : /\ pc'[t] = "alloc"
                                      /\ held' = held \ {b}
                                      /\ blk' = [blk EXCEPT ![t] = b]
    PROVE  Kept' /\ UsedBlocks' = UsedBlocks
  <1>1. TypeOK /\ Places /\ Hands /\ Divided
    BY DEF Kept
  <1>2. /\ pc[t] = Idle /\ used' \in Int
        /\ UNCHANGED <<mm_available, booting, regions, total, mm_bucket,
                       region, pages>>
    BY <1>1, RequestStep
  <1>3. \/ /\ pc' = pc /\ req' = req
           /\ answer' = [order |-> o, flags |-> f, addr |-> Failed(place)]
        \/ /\ pc' \in [Tasks -> {Idle, "alloc", "page", "uncount", "free"}]
           /\ DOMAIN req' = Tasks /\ pc'[t] = place
           /\ req'[t] \in AllOrders \X (Flags \cup {{}})
           /\ \A u \in Tasks : u # t => pc'[u] = pc[u] /\ req'[u] = req[u]
           /\ answer' = answer
    BY <1>1, RequestStep
  <1>4. /\ mm_bucket \in Lists /\ held \subseteq Nat \X AllOrders
        /\ \A a \in DOMAIN region : region[a] \in DOMAIN regions
        /\ pages \subseteq held
        /\ pc \in [Tasks -> {Idle, "alloc", "page", "uncount", "free"}]
        /\ \A u \in Tasks : blk[u] = None \/ blk[u] \in Nat \X AllOrders
        /\ answer # NULL => answer.addr \in Nat \cup {NULL, Wild}
    BY <1>1, TypeAt
  <1>5. /\ DOMAIN req = Tasks /\ DOMAIN blk = Tasks /\ blk[t] = None
        /\ \A u \in Tasks :
             /\ pc[u] \in {"alloc", "page"}
                  => req[u] \in AllOrders \X (Flags \cup {{}})
             /\ pc[u] \in {Idle, "page"} => blk[u] = None
             /\ pc[u] \in {"uncount", "free"} => blk[u] # None
    BY <1>1, <1>2 DEF Places
  <1>6. /\ UsedBlocks' = UsedBlocks /\ Hands' /\ DOMAIN blk' = Tasks
        /\ held' \subseteq Nat \X AllOrders /\ pages' \subseteq held'
        /\ \A u \in Tasks : u # t => blk'[u] = blk[u]
        /\ \A u \in Tasks : blk'[u] = None \/ blk'[u] \in Nat \X AllOrders
        /\ blk'[t] = None \/ pc'[t] = "alloc"
    <2>1. CASE UNCHANGED <<held, blk>>
      BY <1>1, <1>2, <1>4, <1>5, <2>1 DEF UsedBlocks, Hands, None
    <2>2. CASE \E b \in held \ pages : /\ pc'[t] = "alloc"
                                       /\ held' = held \ {b}
                                       /\ blk' = [blk EXCEPT ![t] = b]
      <3>1. PICK b \in held \ pages : /\ pc'[t] = "alloc"
                                      /\ held' = held \ {b}
                                      /\ blk' = [blk EXCEPT ![t] = b]
        BY <2>2
      <3>2. /\ UsedBlocks' = UsedBlocks /\ Hands'
            /\ DOMAIN blk' = Tasks /\ blk'[t] = b
            /\ \A u \in Tasks : u # t => blk'[u] = blk[u]
            /\ b \in Nat \X AllOrders
        BY <1>1, <1>2, <3>1, HandOver
      <3>3. held' \subseteq Nat \X AllOrders /\ pages' \subseteq held'
        BY <1>2, <1>4, <3>1
      <3> QED
        BY <1>4, <3>1, <3>2, <3>3
    <2> QED
      BY <2>1, <2>2
  <1>7. answer' # NULL => answer'.addr \in Nat \cup {NULL, Wild}
    <2>1. Failed(place) \in {NULL, Wild}
      BY DEF Failed
    <2> QED
      BY <1>3, <1>4, <2>1
  <1>8. pc' \in [Tasks -> {Idle, "alloc", "page", "uncount", "free"}]
    BY <1>3, <1>4
  <1>9. TypeOK'
    <2>1. mm_bucket' \in Lists
      BY <1>2, <1>4
    <2>2. \A a \in DOMAIN region' : region'[a] \in DOMAIN regions
      BY <1>2, <1>4
    <2> QED
      BY <1>1, <1>2, <1>6, <1>7, <1>8, <2>1, <2>2, CallType
  <1>10. ASSUME NEW u \in Tasks
         PROVE  /\ pc'[u] \in {"alloc", "page"}
                     => req'[u] \in AllOrders \X (Flags \cup {{}})
                /\ pc'[u] \in {Idle, "page"} => blk'[u] = None
                /\ pc'[u] \in {"uncount", "free"} => blk'[u] # None
    <2>1. CASE u = t
      <3>1. CASE pc' = pc /\ req' = req
        <4>1. pc'[t] = Idle /\ blk'[t] = None
          BY <1>2, <1>6, <3>1 DEF Idle
        <4> QED
          BY <2>1, <4>1 DEF Idle
      <3>2. CASE pc'[t] = place /\ req'[t] \in AllOrders \X (Flags \cup {{}})
        BY <1>6, <2>1, <3>2 DEF Idle
      <3> QED
        BY <1>3, <3>1, <3>2
    <2>2. CASE u # t
      <3>1. pc'[u] = pc[u] /\ req'[u] = req[u] /\ blk'[u] = blk[u]
        BY <1>3, <1>6, <2>2
      <3> QED
        BY <1>5, <3>1
    <2> QED
      BY <2>1, <2>2
  <1>11. Places'
    <2>1. DOMAIN req' = Tasks
      BY <1>3, <1>5
    <2> QED
      BY <1>6, <1>10, <2>1 DEF Places, AllOrders, Idle, None
  <1>12. Divided'
    BY <1>1, <1>2, <1>6, KeepDivided
  <1> QED
    BY <1>6, <1>9, <1>11, <1>12 DEF Kept

\* kmalloc, page_alloc and realloc up to the lock.
LEMMA AskKeeps ==
    ASSUME Kept, NEW t \in Tasks, kmalloc(t) \/ page_alloc(t) \/ realloc(t)
    PROVE  Kept' /\ UsedBlocks' = UsedBlocks
  <1>1. \A o \in AllOrders : o \in 0..(MAX_ADDRESSABLE_MEM_ORDER + 1)
    BY OrdersAt DEF AllOrders
  <1>2. CASE kmalloc(t)
    <2>1. PICK s \in Sizes \ {0}, f \in Flags :
            Request(t, size_to_order(s + Header), f, "alloc")
      BY <1>2 DEF kmalloc
    <2>2. UNCHANGED <<held, blk>>
      BY <1>2 DEF kmalloc
    <2> DEFINE o == size_to_order(s + Header)
    <2>3. o \in 0..(MAX_ADDRESSABLE_MEM_ORDER + 1)
      BY OrdersAsked
    <2>4. Request(t, o, f, "alloc")
      BY <2>1
    <2> HIDE DEF o
    <2> QED
      BY <2>2, <2>3, <2>4, RequestKeeps
  <1>3. CASE page_alloc(t)
    <2>1. PICK p \in PageOrders, f \in Flags : Request(t, p + PAGE_ORDER, f, "page")
      BY <1>3 DEF page_alloc
    <2>2. UNCHANGED <<held, blk>>
      BY <1>3 DEF page_alloc
    <2> DEFINE o == p + PAGE_ORDER
    <2>3. o \in 0..(MAX_ADDRESSABLE_MEM_ORDER + 1)
      BY <1>1, OrdersAsked
    <2>4. Request(t, o, f, "page")
      BY <2>1
    <2> HIDE DEF o
    <2> QED
      BY <2>2, <2>3, <2>4, RequestKeeps
  <1>4. CASE realloc(t)
    <2>1. PICK s \in Sizes \ {0}, b \in held \ pages :
            /\ Request(t, size_to_order(s + Header), {}, "alloc")
            /\ pc'[t] = "alloc"
            /\ held' = held \ {b}
            /\ blk' = [blk EXCEPT ![t] = b]
      BY <1>4 DEF realloc
    <2> DEFINE o == size_to_order(s + Header)
    <2>2. o \in 0..(MAX_ADDRESSABLE_MEM_ORDER + 1)
      BY OrdersAsked
    <2>3. Request(t, o, {}, "alloc") /\ {} \in Flags \cup {{}}
      BY <2>1
    <2> HIDE DEF o
    <2> QED
      BY <2>1, <2>2, <2>3, RequestKeeps
  <1> QED
    BY <1>2, <1>3, <1>4

\* The block that the search of a list finds, if there is one.
LEMMA FindAt ==
    ASSUME TypeOK, NEW k \in AllOrders, NEW f
    PROVE  /\ find_buffer_in_bucket(k, f) # NULL =>
                /\ find_buffer_in_bucket(k, f) \in Range(mm_bucket[k])
                /\ Matches(find_buffer_in_bucket(k, f), f)
           /\ \A a \in Range(mm_bucket[k]) :
                Matches(a, f) => find_buffer_in_bucket(k, f) # NULL
  <1> DEFINE s == mm_bucket[k]
             at == {i \in DOMAIN s : Matches(s[i], f)}
             found == find_buffer_in_bucket(k, f)
  <1>1. s \in Seq(Nat) /\ Range(s) \subseteq Nat
    BY RangeNat, TypeAt
  <1>2. found = IF at = {} THEN NULL ELSE s[Min(at)]
    BY DEF find_buffer_in_bucket
  <1> HIDE DEF s
  <1>3. DOMAIN s \subseteq Nat
    BY <1>1
  <1>4. \A x : x \in Range(s) <=> \E i \in DOMAIN s : s[i] = x
    BY DEF Range
  <1>5. at # {} => Min(at) \in at
    BY <1>3, MinAt
  <1>6. at # {} => found \in Range(s) /\ Matches(found, f)
    BY <1>2, <1>4, <1>5
  <1>7. ASSUME NEW a \in Range(s), Matches(a, f) PROVE found # NULL
    <2>1. at # {}
      BY <1>4, <1>7
    <2>2. found \in Nat
      BY <1>1, <1>6, <2>1
    <2> QED
      BY <2>2, BuddyAssumption
  <1> QED
    BY <1>2, <1>6, <1>7 DEF s

\* The lock is taken and a block found: the order and the block it comes from.
LEMMA ServedAt ==
    ASSUME TypeOK, NEW o \in AllOrders, NEW f, Sources(o, f) # {}
    PROVE  LET k == Min(Sources(o, f))
               a == find_buffer_in_bucket(k, f)
           IN  /\ k \in AllOrders /\ o <= k
               /\ a \in Range(mm_bucket[k]) /\ Matches(a, f) /\ a \in Nat
  <1> DEFINE S == Sources(o, f)
             k == Min(S)
             a == find_buffer_in_bucket(k, f)
  <1>1. o \in Nat /\ MAX_ADDRESSABLE_MEM_ORDER \in Nat
    BY OrdersAt
  <1>2. \A j \in S : /\ j \in Nat /\ o <= j /\ j \in AllOrders
                     /\ find_buffer_in_bucket(j, f) # NULL
    BY <1>1 DEF Sources, AllOrders
  <1>3. k \in S
    <2>1. S \in SUBSET Nat
      BY <1>2
    <2> HIDE DEF S
    <2> QED
      BY <2>1, MinAt DEF S
  <1>4. k \in AllOrders /\ o <= k /\ a # NULL
    BY <1>2, <1>3
  <1> HIDE DEF k
  <1>5. a \in Range(mm_bucket[k]) /\ Matches(a, f)
    BY <1>4, FindAt
  <1>6. a \in Nat
    BY <1>4, <1>5, RangeNat, TypeAt
  <1> QED
    BY <1>4, <1>5, <1>6 DEF k

\* A request is served.
LEMMA ServedKeeps ==
    ASSUME RegionsGood, Kept, NEW t \in Tasks, Served(t)
    PROVE  Kept'
  <1>1. TypeOK /\ Places /\ Hands /\ Divided
    BY DEF Kept
  <1> DEFINE o == req[t][1]
             f == Tried(o, req[t][2])
             k == Min(Sources(o, f))
             a == find_buffer_in_bucket(k, f)
             ao == <<a, o>>
  <1>2. /\ pc[t] \in {"alloc", "page"} /\ Sources(o, f) # {}
        /\ Take(k, o, a)
        /\ held' = held \cup {ao}
        /\ pages' = IF pc[t] = "page" THEN pages \cup {ao} ELSE pages
        /\ answer' = [order |-> o, flags |-> req[t][2], addr |-> a]
        /\ pc' = [pc EXCEPT ![t] = IF blk[t] = None THEN Idle ELSE "uncount"]
        /\ req' = [req EXCEPT ![t] = None]
        /\ UNCHANGED <<mm_available, booting, regions, total, used, blk>>
    BY DEF Served, boot
  <1>3. /\ DOMAIN req = Tasks /\ DOMAIN blk = Tasks
        /\ \A u \in Tasks :
             /\ pc[u] \in {"alloc", "page"}
                  => req[u] \in AllOrders \X (Flags \cup {{}})
             /\ pc[u] \in {Idle, "page"} => blk[u] = None
             /\ pc[u] \in {"uncount", "free"} => blk[u] # None
    BY <1>1 DEF Places
  <1>4. o \in AllOrders
    BY <1>2, <1>3
  <1> HIDE DEF o, f
  <1>5. /\ k \in AllOrders /\ o <= k /\ a \in Range(mm_bucket[k]) /\ a \in Nat
    BY <1>1, <1>2, <1>4, ServedAt
  <1> HIDE DEF k, a
  <1>6. /\ held \subseteq Nat \X AllOrders /\ pages \subseteq held /\ used \in Int
        /\ pc \in [Tasks -> {Idle, "alloc", "page", "uncount", "free"}]
        /\ \A u \in Tasks : blk[u] = None \/ blk[u] \in Nat \X AllOrders
    BY <1>1, TypeAt
  <1>7. ao \in Nat \X AllOrders /\ ao # None
    <2>1. ao \in Nat \X AllOrders
      BY <1>4, <1>5
    <2> QED
      BY <2>1, NoneAt
  <1>8. UsedBlocks' = UsedBlocks \cup {ao}
    <2>1. blk' = blk /\ held' = held \cup {ao}
      BY <1>2
    <2> HIDE DEF ao
    <2> QED
      BY <2>1 DEF UsedBlocks, None
  <1>9. /\ Divided' /\ ao \notin UsedBlocks /\ mm_bucket' \in Lists
        /\ \A c \in DOMAIN region' : region'[c] \in DOMAIN regions
    BY <1>1, <1>2, <1>4, <1>5, <1>8, TakeDivided
  <1>10. Hands'
    <2>1. \A u \in Tasks : blk[u] # ao
      <3>1. \A u \in Tasks : blk[u] # None => blk[u] \in UsedBlocks
        BY DEF UsedBlocks
      <3> QED
        BY <1>7, <1>9, <3>1
    <2> HIDE DEF ao
    <2> QED
      BY <1>1, <1>2, <2>1 DEF Hands, None
  <1>11. TypeOK'
    <2>1. held' \subseteq Nat \X AllOrders /\ pages' \subseteq held' /\ used' \in Int
      BY <1>2, <1>6, <1>7
    <2>2. pc' \in [Tasks -> {Idle, "alloc", "page", "uncount", "free"}]
      BY <1>2, <1>6
    <2>3. answer' # NULL => answer'.addr \in Nat \cup {NULL, Wild}
      BY <1>2, <1>5
    <2>4. \A u \in Tasks : blk'[u] = None \/ blk'[u] \in Nat \X AllOrders
      BY <1>2, <1>6
    <2> QED
      BY <1>1, <1>2, <1>9, <2>1, <2>2, <2>3, <2>4, CallType
  <1>12. Places'
    <2>1. DOMAIN req' = Tasks /\ DOMAIN blk' = Tasks
      BY <1>2, <1>3
    <2>2. ASSUME NEW u \in Tasks
          PROVE  /\ pc'[u] \in {"alloc", "page"}
                      => req'[u] \in AllOrders \X (Flags \cup {{}})
                 /\ pc'[u] \in {Idle, "page"} => blk'[u] = None
                 /\ pc'[u] \in {"uncount", "free"} => blk'[u] # None
      <3>1. CASE u = t
        <4>1. pc'[t] = IF blk[t] = None THEN Idle ELSE "uncount"
          BY <1>2, <1>6
        <4> QED
          BY <1>2, <3>1, <4>1 DEF Idle
      <3>2. CASE u # t
        <4>1. pc'[u] = pc[u] /\ req'[u] = req[u] /\ blk'[u] = blk[u]
          BY <1>2, <1>3, <1>6, <3>2
        <4> QED
          BY <1>3, <4>1
      <3> QED
        BY <3>1, <3>2
    <2> QED
      BY <2>1, <2>2 DEF Places, AllOrders, Idle, None
  <1> QED
    BY <1>9, <1>10, <1>11, <1>12 DEF Kept

\* A request finds no block.
LEMMA RefusedKeeps ==
    ASSUME Kept, NEW t \in Tasks, Refused(t)
    PROVE  Kept' /\ UsedBlocks' = UsedBlocks
  <1>1. TypeOK /\ Places /\ Hands /\ Divided
    BY DEF Kept
  <1>2. /\ pc[t] \in {"alloc", "page"}
        /\ answer' = [order |-> req[t][1], flags |-> req[t][2],
                      addr |-> Failed(pc[t])]
        /\ held' = held \cup ({blk[t]} \ {None})
        /\ blk' = [blk EXCEPT ![t] = None]
        /\ pc' = [pc EXCEPT ![t] = Idle]
        /\ req' = [req EXCEPT ![t] = None]
        /\ UNCHANGED <<mm_available, booting, regions, total, mm_bucket, region,
                       pages, used>>
    BY DEF Refused, boot
  <1>3. /\ DOMAIN req = Tasks /\ DOMAIN blk = Tasks
        /\ \A u \in Tasks :
             /\ pc[u] \in {"alloc", "page"}
                  => req[u] \in AllOrders \X (Flags \cup {{}})
             /\ pc[u] \in {Idle, "page"} => blk[u] = None
             /\ pc[u] \in {"uncount", "free"} => blk[u] # None
    BY <1>1 DEF Places
  <1>4. /\ held \subseteq Nat \X AllOrders /\ pages \subseteq held /\ used \in Int
        /\ mm_bucket \in Lists
        /\ \A a \in DOMAIN region : region[a] \in DOMAIN regions
        /\ pc \in [Tasks -> {Idle, "alloc", "page", "uncount", "free"}]
        /\ \A u \in Tasks : blk[u] = None \/ blk[u] \in Nat \X AllOrders
    BY <1>1, TypeAt
  <1>5. /\ blk'[t] = None /\ DOMAIN blk' = Tasks
        /\ \A u \in Tasks : u # t => blk'[u] = blk[u]
    BY <1>2, <1>3
  <1>6. /\ \A u \in Tasks : blk[u] \notin held
        /\ \A u, v \in Tasks : blk[u] # None /\ blk[u] = blk[v] => u = v
    BY <1>1 DEF Hands
  <1>7. UsedBlocks' = UsedBlocks
    <2>1. \A c : c \in UsedBlocks <=>
            c \in held \/ (c # None /\ \E u \in Tasks : blk[u] = c)
      BY DEF UsedBlocks
    <2>2. \A c : c \in UsedBlocks' <=>
            c \in held' \/ (c # None /\ \E u \in Tasks : blk'[u] = c)
      BY DEF UsedBlocks, None
    <2>3. \A c : c \in UsedBlocks' <=> c \in UsedBlocks
      BY <1>2, <1>5, <2>1, <2>2
    <2> QED
      BY <2>3
  <1>8. Hands'
    <2>1. None \notin held
      BY <1>4, NoneAt
    <2>2. /\ \A u \in Tasks : blk'[u] \notin held'
          /\ \A u, v \in Tasks : blk'[u] # None /\ blk'[u] = blk'[v] => u = v
      BY <1>2, <1>5, <1>6, <2>1
    <2> QED
      BY <2>2 DEF Hands, None
  <1>9. TypeOK'
    <2>1. held' \subseteq Nat \X AllOrders /\ pages' \subseteq held'
      BY <1>2, <1>4
    <2>2. /\ pc' \in [Tasks -> {Idle, "alloc", "page", "uncount", "free"}]
          /\ used' \in Int /\ mm_bucket' \in Lists
      BY <1>2, <1>4
    <2>3. Failed(pc[t]) \in {NULL, Wild}
      BY DEF Failed
    <2>4. answer' # NULL => answer'.addr \in Nat \cup {NULL, Wild}
      BY <1>2, <2>3
    <2>5. \A u \in Tasks : blk'[u] = None \/ blk'[u] \in Nat \X AllOrders
      BY <1>4, <1>5
    <2>6. \A a \in DOMAIN region' : region'[a] \in DOMAIN regions
      BY <1>2, <1>4
    <2> QED
      BY <1>1, <1>2, <2>1, <2>2, <2>4, <2>5, <2>6, CallType
  <1>10. Places'
    <2>1. DOMAIN req' = Tasks
      BY <1>2, <1>3
    <2>2. ASSUME NEW u \in Tasks
          PROVE  /\ pc'[u] \in {"alloc", "page"}
                      => req'[u] \in AllOrders \X (Flags \cup {{}})
                 /\ pc'[u] \in {Idle, "page"} => blk'[u] = None
                 /\ pc'[u] \in {"uncount", "free"} => blk'[u] # None
      <3>1. CASE u = t
        <4>1. pc'[t] = Idle
          BY <1>2, <1>4
        <4> QED
          BY <1>5, <3>1, <4>1 DEF Idle
      <3>2. CASE u # t
        <4>1. pc'[u] = pc[u] /\ req'[u] = req[u] /\ blk'[u] = blk[u]
          BY <1>2, <1>3, <1>4, <1>5, <3>2
        <4> QED
          BY <1>3, <4>1
      <3> QED
        BY <3>1, <3>2
    <2> QED
      BY <1>5, <2>1, <2>2 DEF Places, AllOrders, Idle, None
  <1>11. Divided'
    BY <1>1, <1>2, <1>7, KeepDivided
  <1> QED
    BY <1>7, <1>8, <1>9, <1>10, <1>11 DEF Kept

\* The lists and the request of a call that starts to free its block.
LEMMA FreeTypes ==
    ASSUME Kept, NEW t \in Tasks,
           UNCHANGED <<mm_available, booting, regions, total, mm_bucket, req, answer>>,
           DOMAIN region' = DOMAIN region,
           \A a \in DOMAIN region : region'[a] = region[a],
           pc' = [pc EXCEPT ![t] = "free"], used' \in Int,
           pages' \subseteq held', held' \subseteq held,
           DOMAIN blk' = Tasks, blk'[t] \in Nat \X AllOrders,
           \A u \in Tasks : u # t => blk'[u] = blk[u],
           UsedBlocks' = UsedBlocks, Hands'
    PROVE  Kept'
  <1>1. TypeOK /\ Places /\ Hands /\ Divided
    BY DEF Kept
  <1>2. /\ held \subseteq Nat \X AllOrders /\ mm_bucket \in Lists
        /\ \A a \in DOMAIN region : region[a] \in DOMAIN regions
        /\ pc \in [Tasks -> {Idle, "alloc", "page", "uncount", "free"}]
        /\ \A u \in Tasks : blk[u] = None \/ blk[u] \in Nat \X AllOrders
        /\ answer # NULL => answer.addr \in Nat \cup {NULL, Wild}
    BY <1>1, TypeAt
  <1>3. TypeOK'
    <2>1. held' \subseteq Nat \X AllOrders
      BY <1>2
    <2>2. pc' \in [Tasks -> {Idle, "alloc", "page", "uncount", "free"}]
      BY <1>2
    <2>3. \A u \in Tasks : blk'[u] = None \/ blk'[u] \in Nat \X AllOrders
      BY <1>2
    <2>4. \A a \in DOMAIN region' : region'[a] \in DOMAIN regions
      BY <1>2
    <2>5. mm_bucket' \in Lists /\ (answer' # NULL => answer'.addr \in Nat \cup {NULL, Wild})
      BY <1>2
    <2> QED
      BY <1>1, <2>1, <2>2, <2>3, <2>4, <2>5, CallType
  <1>4. /\ DOMAIN req = Tasks
        /\ \A u \in Tasks :
             /\ pc[u] \in {"alloc", "page"}
                  => req[u] \in AllOrders \X (Flags \cup {{}})
             /\ pc[u] \in {Idle, "page"} => blk[u] = None
             /\ pc[u] \in {"uncount", "free"} => blk[u] # None
    BY <1>1 DEF Places
  <1>5. ASSUME NEW u \in Tasks
        PROVE  /\ pc'[u] \in {"alloc", "page"}
                    => req'[u] \in AllOrders \X (Flags \cup {{}})
               /\ pc'[u] \in {Idle, "page"} => blk'[u] = None
               /\ pc'[u] \in {"uncount", "free"} => blk'[u] # None
    <2>1. CASE u = t
      <3>1. pc'[t] = "free"
        BY <1>2
      <3>2. blk'[t] # None
        BY NoneAt
      <3> QED
        BY <2>1, <3>1, <3>2 DEF Idle
    <2>2. CASE u # t
      <3>1. pc'[u] = pc[u] /\ req'[u] = req[u] /\ blk'[u] = blk[u]
        BY <1>2, <2>2
      <3> QED
        BY <1>4, <3>1
    <2> QED
      BY <2>1, <2>2
  <1>6. Places'
    <2>1. DOMAIN req' = Tasks
      BY <1>4
    <2> QED
      BY <1>5, <2>1 DEF Places, AllOrders, Idle, None
  <1>7. \A b \in Blocks : b[1] \in DOMAIN region
    BY <1>1 DEF Divided, BlocksGood
  <1>8. Divided'
    BY <1>1, <1>7, KeepDivided
  <1> QED
    BY <1>3, <1>6, <1>8 DEF Kept

\* kfree up to the lock.
LEMMA FreeKeeps ==
    ASSUME Kept, NEW t \in Tasks, kfree(t)
    PROVE  Kept' /\ UsedBlocks' = UsedBlocks
  <1>1. TypeOK /\ Places /\ Hands /\ Divided
    BY DEF Kept
  <1>2. /\ used' = used - order_to_size(blk'[t][2])
        /\ pc' = [pc EXCEPT ![t] = "free"]
        /\ UNCHANGED <<mm_available, booting, regions, total, mm_bucket, region,
                       pages, req, answer>>
    BY DEF kfree, boot
  <1>3. /\ held \subseteq Nat \X AllOrders /\ pages \subseteq held /\ used \in Int
        /\ \A u \in Tasks : blk[u] = None \/ blk[u] \in Nat \X AllOrders
    BY <1>1, TypeAt
  <1>4. /\ UsedBlocks' = UsedBlocks /\ Hands' /\ DOMAIN blk' = Tasks
        /\ blk'[t] \in Nat \X AllOrders
        /\ \A u \in Tasks : u # t => blk'[u] = blk[u]
        /\ held' \subseteq held /\ pages' \subseteq held'
    <2>1. CASE /\ pc[t] = Idle
               /\ \E b \in held \ pages : /\ held' = held \ {b}
                                          /\ blk' = [blk EXCEPT ![t] = b]
      <3>1. PICK b \in held \ pages : /\ held' = held \ {b}
                                      /\ blk' = [blk EXCEPT ![t] = b]
        BY <2>1
      <3>2. /\ UsedBlocks' = UsedBlocks /\ Hands'
            /\ DOMAIN blk' = Tasks /\ blk'[t] = b
            /\ \A u \in Tasks : u # t => blk'[u] = blk[u]
            /\ b \in Nat \X AllOrders
        BY <1>1, <2>1, <3>1, HandOver
      <3> QED
        BY <1>2, <1>3, <3>1, <3>2
    <2>2. CASE pc[t] = "uncount" /\ UNCHANGED <<held, blk>>
      <3>1. blk[t] # None /\ DOMAIN blk = Tasks
        BY <1>1, <2>2 DEF Places
      <3>2. UsedBlocks' = UsedBlocks /\ Hands'
        BY <1>1, <2>2 DEF UsedBlocks, Hands, None
      <3> QED
        BY <1>2, <1>3, <2>2, <3>1, <3>2
    <2> QED
      BY <2>1, <2>2 DEF kfree
  <1>5. used' \in Int
    <2>1. blk'[t][2] \in Nat
      BY <1>4, OrdersAt
    <2>2. order_to_size(blk'[t][2]) \in Nat
      BY <2>1, SizeType
    <2> QED
      BY <1>2, <1>3, <2>2
  <1> QED
    BY <1>2, <1>4, <1>5, FreeTypes

\* With regions that share no memory, an address names one region.
LEMMA OneRegion ==
    ASSUME RegionsGood, RegionsDisjoint, TypeOK, BlocksGood, NEW b \in Blocks,
           RegionsOf(b[1]) # {}
    PROVE  Min(RegionsOf(b[1])) = region[b[1]]
  <1> DEFINE i == Min(RegionsOf(b[1]))
             r == region[b[1]]
  <1>1. RegionsOf(b[1]) \in SUBSET Nat
    BY DEF RegionsOf, RegionsGood
  <1>2. i \in RegionsOf(b[1])
    BY <1>1, MinAt
  <1>3. /\ i \in DOMAIN regions
        /\ b[1] \in Units(regions[i].start, regions[i].order)
    BY <1>2 DEF RegionsOf
  <1>4. b[1] \in Nat /\ In(b[1], b)
    BY InRegion, BlockType
  <1>5. /\ r \in DOMAIN regions
        /\ b[1] \in Units(regions[r].start, regions[r].order)
    BY <1>4, InRegion
  <1> HIDE DEF i, r
  <1> QED
    BY <1>3, <1>5 DEF RegionsDisjoint, i, r

\* page_free up to the lock.
LEMMA PageFreeKeeps ==
    ASSUME RegionsGood, RegionsDisjoint, Kept, NEW t \in Tasks, page_free(t)
    PROVE  Kept' /\ UsedBlocks' = UsedBlocks
  <1>1. TypeOK /\ Places /\ Hands /\ Divided /\ BlocksGood
    BY DEF Kept, Divided
  <1>2. PICK b \in pages :
          /\ RegionsOf(b[1]) # {}
          /\ region' = [region EXCEPT ![b[1]] = Min(RegionsOf(b[1]))]
          /\ held' = held \ {b}
          /\ pages' = pages \ {b}
          /\ blk' = [blk EXCEPT ![t] = b]
          /\ used' = used - order_to_size(b[2])
    BY DEF page_free
  <1>3. /\ pc[t] = Idle /\ pc' = [pc EXCEPT ![t] = "free"]
        /\ UNCHANGED <<mm_available, booting, regions, total, mm_bucket, req, answer>>
    BY DEF page_free, boot
  <1>4. /\ held \subseteq Nat \X AllOrders /\ pages \subseteq held /\ used \in Int
    BY <1>1, TypeAt
  <1>5. b \in held /\ b \in Blocks
    BY <1>4 DEF Blocks, UsedBlocks
  <1>6. /\ UsedBlocks' = UsedBlocks /\ Hands'
        /\ DOMAIN blk' = Tasks /\ blk'[t] = b
        /\ \A u \in Tasks : u # t => blk'[u] = blk[u]
        /\ b \in Nat \X AllOrders
    BY <1>1, <1>2, <1>3, <1>5, HandOver
  <1>7. Min(RegionsOf(b[1])) = region[b[1]]
    BY <1>1, <1>2, <1>5, OneRegion
  <1>8. /\ DOMAIN region' = DOMAIN region
        /\ \A a \in DOMAIN region : region'[a] = region[a]
    BY <1>2, <1>7
  <1>9. used' \in Int
    <2>1. b[2] \in Nat
      BY <1>6, OrdersAt
    <2>2. order_to_size(b[2]) \in Nat
      BY <2>1, SizeType
    <2> QED
      BY <1>2, <1>4, <2>2
  <1>10. held' \subseteq held /\ pages' \subseteq held'
    BY <1>2, <1>4
  <1> QED
    BY <1>3, <1>6, <1>8, <1>9, <1>10, FreeTypes

\* kfree gives its block back.
LEMMA ReleaseKeeps ==
    ASSUME RegionsGood, Kept, NEW t \in Tasks, Release(t)
    PROVE  /\ Kept' /\ blk[t] \in UsedBlocks
           /\ UsedBlocks' = UsedBlocks \ {blk[t]}
  <1>1. TypeOK /\ Places /\ Hands /\ Divided
    BY DEF Kept
  <1>2. /\ pc[t] = "free" /\ defragment(blk[t][1], blk[t][2])
        /\ blk' = [blk EXCEPT ![t] = None] /\ pc' = [pc EXCEPT ![t] = Idle]
        /\ UNCHANGED <<mm_available, booting, regions, total, region, held,
                       pages, used, req, answer>>
    BY DEF Release, boot
  <1>3. /\ DOMAIN req = Tasks /\ DOMAIN blk = Tasks
        /\ \A u \in Tasks :
             /\ pc[u] \in {"alloc", "page"}
                  => req[u] \in AllOrders \X (Flags \cup {{}})
             /\ pc[u] \in {Idle, "page"} => blk[u] = None
             /\ pc[u] \in {"uncount", "free"} => blk[u] # None
    BY <1>1 DEF Places
  <1>4. /\ held \subseteq Nat \X AllOrders /\ pages \subseteq held /\ used \in Int
        /\ \A a \in DOMAIN region : region[a] \in DOMAIN regions
        /\ pc \in [Tasks -> {Idle, "alloc", "page", "uncount", "free"}]
        /\ \A u \in Tasks : blk[u] = None \/ blk[u] \in Nat \X AllOrders
        /\ answer # NULL => answer.addr \in Nat \cup {NULL, Wild}
    BY <1>1, TypeAt
  <1>5. /\ blk'[t] = None /\ DOMAIN blk' = Tasks
        /\ \A u \in Tasks : u # t => blk'[u] = blk[u]
    BY <1>2, <1>3
  <1>6. /\ \A u \in Tasks : blk[u] \notin held
        /\ \A u, v \in Tasks : blk[u] # None /\ blk[u] = blk[v] => u = v
    BY <1>1 DEF Hands
  <1>7. blk[t] # None /\ blk[t] \in Nat \X AllOrders
    BY <1>2, <1>3, <1>4
  <1>8. blk[t] \in UsedBlocks
    BY <1>7 DEF UsedBlocks
  <1>9. UsedBlocks' = UsedBlocks \ {blk[t]}
    <2>1. \A c : c \in UsedBlocks <=>
            c \in held \/ (c # None /\ \E u \in Tasks : blk[u] = c)
      BY DEF UsedBlocks
    <2>2. \A c : c \in UsedBlocks' <=>
            c \in held' \/ (c # None /\ \E u \in Tasks : blk'[u] = c)
      BY DEF UsedBlocks, None
    <2>3. ASSUME NEW c PROVE c \in UsedBlocks' <=> c \in UsedBlocks /\ c # blk[t]
      <3>1. CASE c = blk[t]
        BY <1>2, <1>5, <1>6, <1>7, <2>2, <3>1
      <3>2. CASE c # blk[t]
        BY <1>2, <1>5, <2>1, <2>2, <3>2
      <3> QED
        BY <3>1, <3>2
    <2> QED
      BY <2>3
  <1>10. Divided' /\ mm_bucket' \in Lists
    <2> DEFINE a == blk[t][1]
               o == blk[t][2]
    <2>1. blk[t] = <<a, o>>
      BY <1>7
    <2>2. /\ <<a, o>> \in UsedBlocks /\ defragment(a, o)
          /\ UsedBlocks' = UsedBlocks \ {<<a, o>>}
      BY <1>2, <1>8, <1>9, <2>1
    <2> HIDE DEF a, o
    <2> QED
      BY <1>1, <1>2, <2>2, MergeDivided
  <1>11. Hands'
    <2>1. None \notin held
      BY <1>4, NoneAt
    <2>2. /\ \A u \in Tasks : blk'[u] \notin held'
          /\ \A u, v \in Tasks : blk'[u] # None /\ blk'[u] = blk'[v] => u = v
      BY <1>2, <1>5, <1>6, <2>1
    <2> QED
      BY <2>2 DEF Hands, None
  <1>12. TypeOK'
    <2>1. held' \subseteq Nat \X AllOrders /\ pages' \subseteq held' /\ used' \in Int
      BY <1>2, <1>4
    <2>2. pc' \in [Tasks -> {Idle, "alloc", "page", "uncount", "free"}]
      BY <1>2, <1>4
    <2>3. answer' # NULL => answer'.addr \in Nat \cup {NULL, Wild}
      BY <1>2, <1>4
    <2>4. \A u \in Tasks : blk'[u] = None \/ blk'[u] \in Nat \X AllOrders
      BY <1>4, <1>5
    <2>5. \A a \in DOMAIN region' : region'[a] \in DOMAIN regions
      BY <1>2, <1>4
    <2> QED
      BY <1>1, <1>2, <1>10, <2>1, <2>2, <2>3, <2>4, <2>5, CallType
  <1>13. Places'
    <2>1. DOMAIN req' = Tasks
      BY <1>2, <1>3
    <2>2. ASSUME NEW u \in Tasks
          PROVE  /\ pc'[u] \in {"alloc", "page"}
                      => req'[u] \in AllOrders \X (Flags \cup {{}})
                 /\ pc'[u] \in {Idle, "page"} => blk'[u] = None
                 /\ pc'[u] \in {"uncount", "free"} => blk'[u] # None
      <3>1. CASE u = t
        <4>1. pc'[t] = Idle
          BY <1>2, <1>4
        <4> QED
          BY <1>5, <3>1, <4>1 DEF Idle
      <3>2. CASE u # t
        <4>1. pc'[u] = pc[u] /\ req'[u] = req[u] /\ blk'[u] = blk[u]
          BY <1>2, <1>3, <1>4, <1>5, <3>2
        <4> QED
          BY <1>3, <4>1
      <3> QED
        BY <3>1, <3>2
    <2> QED
      BY <1>5, <2>1, <2>2 DEF Places, AllOrders, Idle, None
  <1> QED
    BY <1>8, <1>9, <1>10, <1>11, <1>12, <1>13 DEF Kept

\* A step of the boot.
LEMMA BootKeeps ==
    ASSUME RegionsGood, RegionsDisjoint => Kept, Boot, RegionsDisjoint'
    PROVE  /\ RegionsDisjoint /\ Kept /\ Kept'
           /\ UsedBlocks' = UsedBlocks /\ answer' = answer
           /\ Range(regions) \subseteq Range(regions')
  <1>1. /\ mm_available' \in Nat
        /\ booting \in {"init", "board", "done"}
             => booting' \in {"init", "board", "done"}
    BY BootStep
  <1>2. regions \in Seq(Region)
    BY DEF RegionsGood
  <1>3. CASE UNCHANGED <<regions, total, mm_bucket, region, held, pages,
                         used, task, answer>>
    <2>1. RegionsDisjoint
      BY <1>3 DEF RegionsDisjoint
    <2>2. TypeOK /\ Places /\ Hands /\ Divided
      BY <2>1 DEF Kept
    <2>3. UsedBlocks' = UsedBlocks /\ Hands'
      BY <1>3, <2>2 DEF UsedBlocks, Hands, None, task
    <2>4. TypeOK'
      BY <1>1, <1>3, <2>2 DEF TypeOK, AllOrders, Idle, None, task
    <2>5. Places'
      BY <1>3, <2>2 DEF Places, AllOrders, Idle, None, task
    <2>6. Divided'
      BY <1>3, <2>2, <2>3, KeepDivided
    <2> QED
      BY <1>3, <2>1, <2>2, <2>3, <2>4, <2>5, <2>6 DEF Kept
  <1>4. CASE \E r \in Region : Placed(r) /\ mm_add_region(r)
    <2>1. PICK r \in Region : Placed(r) /\ mm_add_region(r)
      BY <1>4
    <2>2. /\ regions' = Append(regions, r)
          /\ total' = total + order_to_size(r.order)
          /\ region' = [a \in DOMAIN region \cup {r.start} |->
                          IF a = r.start THEN Len(regions) + 1 ELSE region[a]]
          /\ mm_bucket' = [mm_bucket EXCEPT ![r.order] = Append(@, r.start)]
          /\ UNCHANGED <<held, pages, used, task, answer>>
      BY <2>1 DEF mm_add_region
    <2>3. /\ RegionsDisjoint
          /\ \A i \in DOMAIN regions :
               Units(regions[i].start, regions[i].order)
                 \cap Units(r.start, r.order) = {}
      BY <1>2, <2>2, DisjointBefore
    <2>4. TypeOK /\ Places /\ Hands /\ Divided
      BY <2>3 DEF Kept
    <2>5. UsedBlocks' = UsedBlocks /\ Hands'
      BY <2>2, <2>4 DEF UsedBlocks, Hands, None, task
    <2>6. Places'
      BY <2>2, <2>4 DEF Places, AllOrders, Idle, None, task
    <2>7. Divided'
      BY <2>1, <2>3, <2>4, AddDivided
    <2>8. /\ r.start \in Nat /\ r.order \in Nat /\ r.order \in AllOrders
          /\ r \in [start : Nat, order : AllOrders, flags : SUBSET UNION Flags]
      BY <2>1, OrdersAt DEF Region, Placed, AllOrders
    <2>9. /\ DOMAIN regions' = DOMAIN regions \cup {Len(regions) + 1}
          /\ \A i \in DOMAIN regions : regions'[i] = regions[i]
          /\ regions'[Len(regions) + 1] = r
      BY <1>2, <2>2, AppendAt
    <2>10. TypeOK'
      <3>1. \A i \in DOMAIN regions' :
              regions'[i] \in [start : Nat, order : AllOrders, flags : SUBSET UNION Flags]
        BY <2>4, <2>8, <2>9 DEF TypeOK
      <3>2. mm_bucket' \in [AllOrders -> Seq(Nat)]
        <4>1. mm_bucket \in [AllOrders -> Seq(Nat)]
          BY <2>4 DEF TypeOK
        <4>2. Append(mm_bucket[r.order], r.start) \in Seq(Nat)
          BY <2>8, <4>1
        <4> QED
          BY <2>2, <4>1, <4>2
      <3>3. \A a \in DOMAIN region' : region'[a] \in DOMAIN regions'
        BY <2>2, <2>4, <2>9 DEF TypeOK
      <3>4. total' \in Nat
        <4>1. order_to_size(r.order) \in Nat /\ total \in Nat
          BY <2>4, <2>8, SizeType, TypeAt
        <4> QED
          BY <2>2, <4>1
      <3>5. /\ held' \subseteq Nat \X AllOrders /\ pages' \subseteq held'
            /\ used' \in Int
            /\ pc' \in [Tasks -> {Idle, "alloc", "page", "uncount", "free"}]
            /\ \A t \in Tasks : blk'[t] = None \/ blk'[t] \in Nat \X AllOrders
            /\ answer' # NULL => answer'.addr \in Nat \cup {NULL, Wild}
        BY <2>2, <2>4, TypeAt DEF task
      <3>6. booting' \in {"init", "board", "done"}
        BY <1>1, <2>4 DEF TypeOK
      <3> QED
        BY <1>1, <3>1, <3>2, <3>3, <3>4, <3>5, <3>6 DEF TypeOK, AllOrders, Idle, None
    <2>11. Range(regions) \subseteq Range(regions')
      BY <2>9 DEF Range
    <2> QED
      BY <2>2, <2>3, <2>4, <2>5, <2>6, <2>7, <2>10, <2>11 DEF Kept
  <1> QED
    BY <1>3, <1>4, BootStep

-----------------------------------------------------------------------------
(* The invariant holds *)

\* At the start there is no memory.
LEMMA BuddyStart ==
    ASSUME Init
    PROVE  BuddyInv
  <1>1. /\ mm_available = Eor - SHeap /\ booting = "init"
        /\ regions = <<>> /\ region = <<>>
        /\ mm_bucket = [o \in AllOrders |-> <<>>]
        /\ held = {} /\ pages = {} /\ total = 0 /\ used = 0
        /\ pc = [t \in Tasks |-> Idle]
        /\ req = [t \in Tasks |-> None]
        /\ blk = [t \in Tasks |-> None]
        /\ answer = NULL
    BY DEF Init
  <1>2. RegionsGood
    <2>1. mm_available \in Nat
      BY <1>1, BuddyAssumption
    <2> QED
      BY <1>1, <2>1 DEF RegionsGood
  <1>3. DOMAIN regions = {} /\ DOMAIN region = {}
    BY <1>1
  <1>4. TypeOK
    <2>1. /\ mm_bucket \in [AllOrders -> Seq(Nat)]
          /\ pc \in [Tasks -> {Idle, "alloc", "page", "uncount", "free"}]
          /\ \A t \in Tasks : blk[t] = None
      BY <1>1
    <2>2. mm_available \in Nat
      BY <1>2 DEF RegionsGood
    <2> QED
      BY <1>1, <1>3, <2>1, <2>2 DEF TypeOK
  <1>5. Places
    BY <1>1 DEF Places, Idle
  <1>6. Hands
    BY <1>1 DEF Hands
  <1>7. FreeBlocks = {} /\ UsedBlocks = {} /\ Blocks = {}
    <2>1. \A o \in AllOrders : Range(mm_bucket[o]) = {}
      BY <1>1 DEF Range
    <2>2. FreeBlocks = {}
      BY <2>1 DEF FreeBlocks
    <2>3. UsedBlocks = {}
      BY <1>1 DEF UsedBlocks
    <2> QED
      BY <2>2, <2>3 DEF Blocks
  <1>8. Divided
    <2>1. BlocksGood /\ Apart(Blocks) /\ Cover
      BY <1>3, <1>7 DEF BlocksGood, Apart, Cover
    <2>2. ListedOnce
      BY <1>1 DEF ListedOnce, IsInjective
    <2>3. FullyMerged
      BY <1>1 DEF FullyMerged, Range
    <2>4. Counted
      <3>1. Memory = {}
        BY <1>3 DEF Memory
      <3> QED
        BY <1>1, <3>1, FS_EmptySet DEF Counted
    <2> QED
      BY <1>7, <2>1, <2>2, <2>3, <2>4 DEF Divided
  <1> QED
    BY <1>2, <1>4, <1>5, <1>6, <1>8 DEF BuddyInv, Kept

\* Regions that share no memory afterwards shared none before.
LEMMA CallKeeps ==
    ASSUME RegionsGood, RegionsDisjoint => Kept, NEW t \in Tasks, Call(t),
           RegionsDisjoint'
    PROVE  RegionsDisjoint /\ Kept /\ Kept'
  <1>1. regions' = regions
    BY CallFrame
  <1>2. RegionsDisjoint
    BY <1>1 DEF RegionsDisjoint
  <1>3. Kept
    BY <1>2
  <1>4. CASE kmalloc(t) \/ page_alloc(t) \/ realloc(t)
    BY <1>2, <1>3, <1>4, AskKeeps
  <1>5. CASE Served(t)
    BY <1>2, <1>3, <1>5, ServedKeeps
  <1>6. CASE Refused(t)
    BY <1>2, <1>3, <1>6, RefusedKeeps
  <1>7. CASE kfree(t)
    BY <1>2, <1>3, <1>7, FreeKeeps
  <1>8. CASE page_free(t)
    BY <1>2, <1>3, <1>8, PageFreeKeeps
  <1>9. CASE Release(t)
    BY <1>2, <1>3, <1>9, ReleaseKeeps
  <1> QED
    BY <1>4, <1>5, <1>6, <1>7, <1>8, <1>9 DEF Call

\* A step that leaves the allocator alone.
LEMMA StutterKeeps ==
    ASSUME RegionsDisjoint => Kept, UNCHANGED vars, RegionsDisjoint'
    PROVE  RegionsDisjoint /\ Kept /\ Kept'
  <1>1. UNCHANGED <<mm_available, booting, regions, total, mm_bucket, region,
                    held, pages, used, pc, req, blk, answer>>
    BY DEF vars, boot, task
  <1>2. RegionsDisjoint
    BY <1>1 DEF RegionsDisjoint
  <1>3. TypeOK /\ Places /\ Hands /\ Divided
    BY <1>2 DEF Kept
  <1>4. UsedBlocks' = UsedBlocks /\ Hands'
    BY <1>1, <1>3 DEF UsedBlocks, Hands, None
  <1>5. TypeOK'
    BY <1>1, <1>3 DEF TypeOK, AllOrders, Idle, None
  <1>6. Places'
    BY <1>1, <1>3 DEF Places, AllOrders, Idle, None
  <1>7. Divided'
    BY <1>1, <1>3, <1>4, KeepDivided
  <1> QED
    BY <1>2, <1>3, <1>4, <1>5, <1>6, <1>7 DEF Kept

\* Every step keeps the invariant.
LEMMA BuddyStep ==
    ASSUME BuddyInv, [Next]_vars
    PROVE  BuddyInv'
  <1>1. RegionsGood /\ (RegionsDisjoint => Kept)
    BY DEF BuddyInv
  <1>2. RegionsGood'
    BY <1>1, RegionsStep
  <1>3. ASSUME RegionsDisjoint' PROVE Kept'
    <2>1. CASE Boot
      BY <1>1, <1>3, <2>1, BootKeeps
    <2>2. CASE \E t \in Tasks : Call(t)
      BY <1>1, <1>3, <2>2, CallKeeps
    <2>3. CASE UNCHANGED vars
      BY <1>1, <1>3, <2>3, StutterKeeps
    <2> QED
      BY <2>1, <2>2, <2>3 DEF Next
  <1> QED
    BY <1>2, <1>3 DEF BuddyInv

\* The inductive invariant: as long as regions share no memory, blocks are
\* aligned, lie in the region their header names and divide the memory.
THEOREM AllocatorInvariant == Spec => []BuddyInv
  <1>1. Init => BuddyInv
    BY BuddyStart
  <1>2. BuddyInv /\ [Next]_vars => BuddyInv'
    BY BuddyStep
  <1> QED
    BY <1>1, <1>2, PTL DEF Spec

-----------------------------------------------------------------------------
(* What it says of the memory *)

\* The units of a block are those that are in it.
LEMMA BlockUnits ==
    ASSUME TypeOK, BlocksGood, NEW b \in Blocks
    PROVE  /\ Units(b[1], b[2]) \subseteq Nat
           /\ \A x \in Nat : x \in Units(b[1], b[2]) <=> In(x, b)
  <1>1. b[1] \in Nat /\ b[2] \in Nat
    BY BlockType
  <1>2. Base(b[1], b[2]) = b[1]
    BY DEF BlocksGood
  <1> QED
    BY <1>1, <1>2, UnitsIn DEF In

\* The units of a region are those whose block of the region's order it is.
LEMMA RegionUnits ==
    ASSUME RegionsGood, NEW i \in DOMAIN regions
    PROVE  /\ Units(regions[i].start, regions[i].order) \subseteq Nat
           /\ \A x \in Nat :
                x \in Units(regions[i].start, regions[i].order)
                  <=> Base(x, regions[i].order) = regions[i].start
  BY RegionAt, UnitsIn

\* A division into blocks is a partition of the units.
LEMMA DividedPartition ==
    ASSUME RegionsGood, TypeOK, Divided
    PROVE  Partition
  <1>1. /\ BlocksGood /\ Apart(Blocks) /\ Cover
        /\ ListedOnce /\ FreeBlocks \cap UsedBlocks = {} /\ Counted
    BY DEF Divided
  <1>2. ASSUME NEW b \in Blocks, NEW c \in Blocks, b # c
        PROVE  Units(b[1], b[2]) \cap Units(c[1], c[2]) = {}
    <2>1. SUFFICES ASSUME NEW x \in Units(b[1], b[2]), x \in Units(c[1], c[2])
                   PROVE  FALSE
      OBVIOUS
    <2>2. x \in Nat /\ In(x, b) /\ In(x, c)
      BY <1>1, <2>1, BlockUnits
    <2> QED
      BY <1>1, <1>2, <2>2 DEF Apart
  <1>3. ASSUME NEW b \in Blocks
        PROVE  \E i \in DOMAIN regions :
                 Units(b[1], b[2]) \subseteq Units(regions[i].start, regions[i].order)
    <2>1. PICK i : i = region[b[1]]
      OBVIOUS
    <2>2. /\ i \in DOMAIN regions
          /\ \A x \in Nat :
               In(x, b) => x \in Units(regions[i].start, regions[i].order)
      BY <1>1, <2>1, InRegion
    <2>3. Units(b[1], b[2]) \subseteq Units(regions[i].start, regions[i].order)
      BY <1>1, <2>2, BlockUnits
    <2> QED
      BY <2>2, <2>3
  <1>4. UNION {Units(b[1], b[2]) : b \in Blocks} = Memory
    <2>1. ASSUME NEW b \in Blocks, NEW x \in Units(b[1], b[2])
          PROVE  x \in Memory
      BY <1>3 DEF Memory
    <2>2. ASSUME NEW x \in Memory
          PROVE  \E b \in Blocks : x \in Units(b[1], b[2])
      <3>1. PICK i \in DOMAIN regions :
              x \in Units(regions[i].start, regions[i].order)
        BY DEF Memory
      <3>2. x \in Nat /\ Base(x, regions[i].order) = regions[i].start
        BY <3>1, RegionUnits
      <3>3. PICK b \in Blocks : In(x, b)
        BY <1>1, <3>2 DEF Cover
      <3> QED
        BY <1>1, <3>2, <3>3, BlockUnits
    <2> QED
      BY <2>1, <2>2
  <1> QED
    BY <1>1, <1>2, <1>3, <1>4 DEF Partition, Blocks, Counted, ListedOnce

\* State variables keep their types as long as regions share no memory.
THEOREM BuddyTypes == Spec => [](RegionsDisjoint => TypeOK)
  <1>1. BuddyInv => (RegionsDisjoint => TypeOK)
    BY DEF BuddyInv, Kept
  <1> QED
    BY <1>1, AllocatorInvariant, PTL

\* Whatever splits and merges kmalloc and kfree made, free blocks and blocks
\* in use divide the registered regions: no unit is lost, none is in two
\* blocks, and mm_usage.total is their number.
THEOREM BlocksPartition == Spec => [](RegionsDisjoint => Partition)
  <1>1. BuddyInv => (RegionsDisjoint => Partition)
    BY DividedPartition DEF BuddyInv, Kept
  <1> QED
    BY <1>1, AllocatorInvariant, PTL

\* defragment leaves no two halves of a block of one region both free.
THEOREM BlocksFullyMerged == Spec => [](RegionsDisjoint => FullyMerged)
  <1>1. BuddyInv => (RegionsDisjoint => FullyMerged)
    BY DEF BuddyInv, Kept, Divided
  <1> QED
    BY <1>1, AllocatorInvariant, PTL

-----------------------------------------------------------------------------
(* The allocator implements Heap *)

\* A block that holds a unit of a region is one of that region.
LEMMA SameRegion ==
    ASSUME RegionsGood, RegionsDisjoint, TypeOK, BlocksGood, NEW b \in Blocks,
           NEW x \in Nat, In(x, b), NEW i \in DOMAIN regions,
           Base(x, regions[i].order) = regions[i].start
    PROVE  region[b[1]] = i
  <1>1. PICK r : r = region[b[1]]
    OBVIOUS
  <1>2. /\ r \in DOMAIN regions
        /\ x \in Units(regions[r].start, regions[r].order)
    BY <1>1, InRegion
  <1>3. x \in Units(regions[i].start, regions[i].order)
    BY RegionUnits
  <1> QED
    BY <1>1, <1>2, <1>3 DEF RegionsDisjoint

\* When nobody uses a unit of an aligned range of a region, one free block of
\* that region is as large as the range: the smallest free block in it would
\* have merged.
LEMMA FreeRoom ==
    ASSUME RegionsGood, RegionsDisjoint, TypeOK, Divided,
           NEW i \in DOMAIN regions, NEW o \in AllOrders, NEW a \in Nat,
           Base(a, o) = a, o <= regions[i].order,
           Base(a, regions[i].order) = regions[i].start,
           \A x \in Nat : Base(x, o) = a => \A b \in UsedBlocks : ~In(x, b)
    PROVE  \E c \in FreeBlocks : o <= c[2] /\ region[c[1]] = i
  <1>1. /\ BlocksGood /\ Apart(Blocks) /\ Cover /\ FullyMerged
    BY DEF Divided
  <1>2. o \in Nat /\ regions[i].order \in Nat
    BY OrdersAt, RegionAt
  <1>3. ASSUME NEW x \in Nat, Base(x, o) = a
        PROVE  \E b \in FreeBlocks :
                 /\ In(x, b) /\ region[b[1]] = i
                 /\ b[1] \in Nat /\ b[2] \in Nat
                 /\ b[2] <= o => Base(b[1], o) = a
    <2>1. Base(x, regions[i].order) = regions[i].start
      <3>1. Base(x, regions[i].order) = Base(a, regions[i].order)
        BY <1>2, <1>3, BaseUp
      <3> QED
        BY <3>1
    <2>2. PICK b \in Blocks : In(x, b)
      BY <1>1, <2>1 DEF Cover
    <2>3. b \in FreeBlocks
      BY <1>3, <2>2 DEF Blocks
    <2>4. region[b[1]] = i
      BY <1>1, <2>1, <2>2, SameRegion
    <2>5. b[1] \in Nat /\ b[2] \in Nat
      BY BlockType
    <2>6. ASSUME b[2] <= o PROVE Base(b[1], o) = a
      <3>1. Base(x, b[2]) = b[1]
        BY <2>2 DEF In
      <3>2. Base(Base(x, b[2]), o) = Base(x, o)
        BY <1>2, <2>5, <2>6, BaseBase
      <3> QED
        BY <1>3, <3>1, <3>2
    <2> QED
      BY <2>2, <2>3, <2>4, <2>5, <2>6
  <1> SUFFICES ASSUME \A c \in FreeBlocks : region[c[1]] = i => ~(o <= c[2])
               PROVE  FALSE
    OBVIOUS
  <1> DEFINE S == {n \in Nat : \E c \in FreeBlocks :
                     /\ c[2] = n /\ c[1] \in Nat
                     /\ Base(c[1], o) = a /\ region[c[1]] = i}
  <1>4. ASSUME NEW x \in Nat, Base(x, o) = a
        PROVE  \E b \in FreeBlocks : /\ In(x, b) /\ region[b[1]] = i
                                     /\ b[1] \in Nat /\ b[2] \in S /\ b[2] < o
    <2>1. PICK b \in FreeBlocks : /\ In(x, b) /\ region[b[1]] = i
                                  /\ b[1] \in Nat /\ b[2] \in Nat
                                  /\ b[2] <= o => Base(b[1], o) = a
      BY <1>3, <1>4
    <2>2. b[2] < o
      BY <1>2, <2>1
    <2> QED
      BY <1>2, <2>1, <2>2
  <1>5. S # {}
    BY <1>4
  <1>6. PICK n \in S : \A l \in S : n <= l
    BY <1>5, LeastExists
  <1>7. PICK c \in FreeBlocks : /\ c[2] = n /\ c[1] \in Nat
                                /\ Base(c[1], o) = a /\ region[c[1]] = i
    BY <1>6
  <1>8. n \in Nat /\ n < o /\ n + 1 \in Nat /\ n + 1 <= o
    <2>1. n \in Nat /\ ~(o <= n)
      BY <1>6, <1>7
    <2> QED
      BY <1>2, <2>1
  <1>9. PICK d : d = BuddyOf(c[1], n)
    OBVIOUS
  <1> HIDE DEF S
  <1>10. c \in Blocks /\ Base(c[1], n) = c[1] /\ c[1] \in Range(mm_bucket[n])
    <2>1. c \in Blocks
      BY DEF Blocks
    <2>2. c = <<c[1], n>>
      BY <1>7, <2>1, BlockType
    <2>3. <<c[1], n>> \in FreeOf(mm_bucket)
      BY <2>2, FreeBlocksAt
    <2> QED
      BY <1>1, <1>7, <2>1, <2>3, FreeOfAt DEF BlocksGood
  <1>11. /\ d \in Nat /\ Base(d, n) = d /\ d # c[1]
         /\ Base(d, n + 1) = Base(c[1], n + 1)
    <2>1. PICK x \in Nat : x = c[1]
      BY <1>7
    <2>2. d = BuddyOf(x, n) /\ n \in Nat /\ Base(x, n) = x
      BY <1>8, <1>9, <1>10, <2>1
    <2>3. d \in Nat /\ Base(d, n) = d /\ d # Base(x, n)
      BY <2>2, Halves
    <2>4. Base(d, n) = BuddyOf(x, n)
      BY <2>2, <2>3
    <2>5. Base(d, n + 1) = Base(x, n + 1)
      BY <2>2, <2>3, <2>4, Halves
    <2> QED
      BY <2>1, <2>2, <2>3, <2>5
  <1>12. Base(d, o) = a
    <2>1. Base(d, o) = Base(c[1], o)
      BY <1>2, <1>7, <1>8, <1>11, BaseUp
    <2> QED
      BY <1>7, <2>1
  <1>13. PICK e \in FreeBlocks : /\ In(d, e) /\ region[e[1]] = i
                                 /\ e[1] \in Nat /\ e[2] \in S
    BY <1>4, <1>11, <1>12
  <1>14. e[2] \in Nat /\ n <= e[2] /\ e \in Blocks /\ Base(d, e[2]) = e[1]
    BY <1>6, <1>13 DEF Blocks, In, S
  <1>15. CASE e[2] = n
    <2>1. e[1] = d
      BY <1>11, <1>14, <1>15
    <2>2. e = <<d, n>>
      BY <1>14, <1>15, <2>1, BlockType
    <2>3. <<d, n>> \in FreeOf(mm_bucket)
      BY <2>2, FreeBlocksAt
    <2>4. d \in Range(mm_bucket[n]) /\ n \in AllOrders
      BY <2>3, FreeOfAt
    <2>5. region[d] = region[c[1]]
      BY <1>7, <1>13, <2>1
    <2>6. c[1] \div order_to_size(n + 1) = d \div order_to_size(n + 1)
      BY <1>7, <1>8, <1>9, <1>10, <1>11, SameParent
    <2> QED
      BY <1>1, <1>10, <1>11, <2>4, <2>5, <2>6 DEF FullyMerged
  <1>16. CASE n < e[2]
    <2>1. n + 1 <= e[2]
      BY <1>8, <1>14, <1>16
    <2>2. Base(c[1], e[2]) = Base(d, e[2])
      BY <1>7, <1>8, <1>11, <1>14, <2>1, BaseUp
    <2>3. In(c[1], e) /\ In(c[1], c)
      BY <1>7, <1>10, <1>14, <2>2 DEF In
    <2>4. e = c
      BY <1>1, <1>7, <1>10, <1>14, <2>3 DEF Apart
    <2> QED
      BY <1>7, <1>8, <1>16, <2>4
  <1> QED
    BY <1>8, <1>14, <1>15, <1>16

\* Heap counts units as the allocator does.
LEMMA HeapUnits == \A a, o : H!Units(a, o) = Units(a, o)
  BY DEF H!Units, Units, order_to_size

\* The addresses at which Heap could serve a request.
LEMMA HeapFree ==
    ASSUME NEW o, NEW f, NEW a
    PROVE  a \in H!Free(o, f) <=>
             /\ \E r \in Range(regions) : a \in Units(r.start, r.order)
             /\ a % order_to_size(o) = 0
             /\ \E r \in Range(regions) :
                  H!Suits(r, f) /\ Units(a, o) \subseteq Units(r.start, r.order)
             /\ \A b \in UsedBlocks : Units(a, o) \cap Units(b[1], b[2]) = {}
  BY HeapUnits, Zenon DEF H!Free, order_to_size

\* An address is aligned when no unit of its block is before it.
LEMMA AlignedAt ==
    ASSUME NEW a \in Nat, NEW o \in Nat
    PROVE  a % order_to_size(o) = 0 <=> Base(a, o) = a
  <1> DEFINE s == order_to_size(o)
  <1>1. s \in Nat /\ s > 0
    BY SizeType
  <1> HIDE DEF s
  <1>2. a % s \in Nat
    BY <1>1, DivMod
  <1>3. Base(a, o) = a - (a % s)
    BY DEF Base, s
  <1> QED
    BY <1>2, <1>3 DEF s

\* What the search finds is free memory that suits the request.
LEMMA FoundFits ==
    ASSUME RegionsGood, TypeOK, Divided, NEW o \in AllOrders, NEW f,
           Sources(o, Tried(o, f)) # {},
           NEW a, a = find_buffer_in_bucket(Min(Sources(o, Tried(o, f))), Tried(o, f))
    PROVE  a \in H!Free(o, f) /\ a \in Nat
  <1>1. BlocksGood /\ Apart(Blocks) /\ FreeBlocks \cap UsedBlocks = {}
    BY DEF Divided
  <1>2. PICK g : g = Tried(o, f)
    OBVIOUS
  <1>3. PICK k : k = Min(Sources(o, g))
    OBVIOUS
  <1>4. /\ k \in AllOrders /\ o <= k
        /\ a \in Range(mm_bucket[k]) /\ Matches(a, g) /\ a \in Nat
    BY <1>2, <1>3, ServedAt
  <1>5. o \in Nat /\ k \in Nat
    BY <1>4, OrdersAt
  <1>6. PICK b : b = <<a, k>>
    OBVIOUS
  <1>7. b \in FreeBlocks /\ b \in Blocks /\ b[1] = a /\ b[2] = k
    <2>1. <<a, k>> \in FreeOf(mm_bucket)
      BY <1>4, FreeOfAt
    <2> QED
      BY <1>6, <2>1, FreeBlocksAt DEF Blocks
  <1>8. Base(a, k) = a
    BY <1>1, <1>7 DEF BlocksGood
  <1>9. Base(a, o) = a
    <2>1. Base(Base(a, k), o) = Base(a, k)
      BY <1>4, <1>5, BaseBase
    <2> QED
      BY <1>8, <2>1
  <1>10. ASSUME NEW x \in Units(a, o) PROVE x \in Nat /\ In(x, b)
    <2>1. x \in Nat /\ Base(x, o) = a
      BY <1>4, <1>5, <1>9, <1>10, UnitsIn
    <2>2. Base(x, k) = Base(a, k)
      BY <1>4, <1>5, <1>9, <2>1, BaseUp
    <2> QED
      BY <1>7, <1>8, <2>1, <2>2 DEF In
  <1>11. PICK i : i = region[a]
    OBVIOUS
  <1>12. /\ i \in DOMAIN regions
         /\ \A x \in Nat :
              In(x, b) => x \in Units(regions[i].start, regions[i].order)
         /\ In(a, b)
    BY <1>1, <1>7, <1>11, InRegion
  <1>13. PICK r \in Range(regions) : r = regions[i]
    BY <1>12 DEF Range
  <1>14. Units(a, o) \subseteq Units(r.start, r.order)
    BY <1>10, <1>12, <1>13
  <1>15. a \in Units(r.start, r.order)
    BY <1>4, <1>12, <1>13
  <1>16. H!Suits(r, f)
    <2>1. g \subseteq r.flags
      BY <1>4, <1>11, <1>13 DEF Matches
    <2>2. g = f \/ (DMA \notin f /\ g = {DMA})
      BY <1>2 DEF Tried
    <2> QED
      BY <2>1, <2>2 DEF H!Suits
  <1>17. ASSUME NEW c \in UsedBlocks
         PROVE  Units(a, o) \cap Units(c[1], c[2]) = {}
    <2>1. c \in Blocks /\ c # b
      BY <1>1, <1>7 DEF Blocks
    <2>2. SUFFICES ASSUME NEW x \in Units(a, o), x \in Units(c[1], c[2])
                   PROVE  FALSE
      OBVIOUS
    <2>3. x \in Nat /\ In(x, b)
      BY <1>10, <2>2
    <2>4. In(x, c)
      BY <1>1, <2>1, <2>2, <2>3, BlockUnits
    <2> QED
      BY <1>1, <1>7, <2>1, <2>3, <2>4 DEF Apart
  <1>18. a % order_to_size(o) = 0
    BY <1>4, <1>5, <1>9, AlignedAt
  <1> QED
    BY <1>4, <1>13, <1>14, <1>15, <1>16, <1>17, <1>18, HeapFree

\* A range of units that lies in another is of no larger order.
LEMMA UnitsOrder ==
    ASSUME NEW a \in Nat, NEW o \in Nat, NEW s \in Nat, NEW k \in Nat,
           Units(a, o) \subseteq Units(s, k)
    PROVE  o <= k
  <1> DEFINE so == order_to_size(o)
             sk == order_to_size(k)
  <1>1. so \in Nat /\ so > 0 /\ sk \in Nat /\ sk > 0
    BY SizeType
  <1>2. a..(a + so - 1) \subseteq s..(s + sk - 1)
    BY DEF Units
  <1> HIDE DEF so, sk
  <1>3. a \in a..(a + so - 1) /\ (a + so - 1) \in a..(a + so - 1)
    BY <1>1
  <1>4. a \in s..(s + sk - 1) /\ (a + so - 1) \in s..(s + sk - 1)
    BY <1>2, <1>3
  <1>5. so <= sk
    BY <1>1, <1>4
  <1>6. k < o => sk < so
    BY SizeMono DEF so, sk
  <1> QED
    BY <1>1, <1>5, <1>6

\* A request Heap could serve: the region and the range in it.
LEMMA FreeAt ==
    ASSUME RegionsGood, TypeOK, BlocksGood, NEW o \in Nat, NEW f,
           NEW a \in H!Free(o, f)
    PROVE  /\ a \in Nat /\ Base(a, o) = a
           /\ \E i \in DOMAIN regions :
                /\ H!Suits(regions[i], f) /\ o <= regions[i].order
                /\ Base(a, regions[i].order) = regions[i].start
           /\ \A x \in Nat : Base(x, o) = a => \A b \in UsedBlocks : ~In(x, b)
  <1>1. PICK r \in Range(regions) : a \in Units(r.start, r.order)
    BY HeapFree
  <1>2. PICK q \in Range(regions) :
          H!Suits(q, f) /\ Units(a, o) \subseteq Units(q.start, q.order)
    BY HeapFree
  <1>3. PICK j \in DOMAIN regions : regions[j] = r
    BY <1>1 DEF Range
  <1>4. PICK i \in DOMAIN regions : regions[i] = q
    BY <1>2 DEF Range
  <1>5. a \in Nat
    BY <1>1, <1>3, RegionUnits
  <1>6. Base(a, o) = a
    BY <1>5, HeapFree, AlignedAt
  <1>7. \A x \in Nat : x \in Units(a, o) <=> Base(x, o) = a
    BY <1>5, <1>6, UnitsIn
  <1>8. regions[i].start \in Nat /\ regions[i].order \in Nat
    BY RegionAt
  <1>9. o <= regions[i].order
    BY <1>2, <1>4, <1>5, <1>8, UnitsOrder
  <1>10. Base(a, regions[i].order) = regions[i].start
    <2>1. a \in Units(regions[i].start, regions[i].order)
      BY <1>2, <1>4, <1>5, <1>6, <1>7
    <2> QED
      BY <1>5, <2>1, RegionUnits
  <1>11. ASSUME NEW x \in Nat, Base(x, o) = a, NEW b \in UsedBlocks
         PROVE  ~In(x, b)
    <2>1. b \in Blocks
      BY DEF Blocks
    <2>2. x \in Units(b[1], b[2]) <=> In(x, b)
      BY <2>1, BlockUnits
    <2>3. Units(a, o) \cap Units(b[1], b[2]) = {}
      BY HeapFree
    <2> QED
      BY <1>7, <1>11, <2>2, <2>3
  <1> QED
    BY <1>2, <1>4, <1>5, <1>6, <1>9, <1>10, <1>11

\* When the search finds nothing, no free range could have served the request.
LEMMA NothingFits ==
    ASSUME RegionsGood, RegionsDisjoint, TypeOK, Divided, NEW o \in AllOrders,
           NEW f, Sources(o, Tried(o, f)) = {}
    PROVE  H!Free(o, f) = {}
  <1> SUFFICES ASSUME NEW a \in H!Free(o, f) PROVE FALSE
    OBVIOUS
  <1>1. BlocksGood /\ o \in Nat
    BY OrdersAt DEF Divided
  <1>2. /\ a \in Nat /\ Base(a, o) = a
        /\ \A x \in Nat : Base(x, o) = a => \A b \in UsedBlocks : ~In(x, b)
    BY <1>1, FreeAt
  <1>3. PICK i \in DOMAIN regions :
          /\ H!Suits(regions[i], f) /\ o <= regions[i].order
          /\ Base(a, regions[i].order) = regions[i].start
    BY <1>1, FreeAt
  <1>4. PICK c \in FreeBlocks : o <= c[2] /\ region[c[1]] = i
    BY <1>2, <1>3, FreeRoom
  <1>5. /\ c[2] \in AllOrders /\ c[2] \in Nat /\ c[1] \in Range(mm_bucket[c[2]])
    <2>1. c \in Blocks
      BY DEF Blocks
    <2>2. c = <<c[1], c[2]>> /\ c[2] \in AllOrders /\ c[2] \in Nat
      BY <2>1, BlockType
    <2>3. <<c[1], c[2]>> \in FreeOf(mm_bucket)
      BY <2>2, FreeBlocksAt
    <2> QED
      BY <2>2, <2>3, FreeOfAt
  <1>6. ASSUME NEW g, g \subseteq regions[i].flags PROVE Sources(o, g) # {}
    <2>1. Matches(c[1], g)
      BY <1>4, <1>6 DEF Matches
    <2>2. find_buffer_in_bucket(c[2], g) # NULL
      BY <1>5, <2>1, FindAt
    <2>3. c[2] \in o..MAX_ADDRESSABLE_MEM_ORDER
      BY <1>1, <1>4, <1>5, OrdersAt DEF AllOrders
    <2> QED
      BY <2>2, <2>3 DEF Sources
  <1>7. CASE f \subseteq regions[i].flags
    <2>1. Sources(o, f) # {}
      BY <1>6, <1>7
    <2> QED
      BY <2>1 DEF Tried
  <1>8. CASE DMA \notin f /\ DMA \in regions[i].flags
    <2>1. Sources(o, {DMA}) # {}
      BY <1>6, <1>8
    <2> QED
      BY <1>8, <2>1 DEF Tried
  <1> QED
    BY <1>3, <1>7, <1>8 DEF H!Suits

\* No region is as large as the largest block kmalloc has a list for.
LEMMA TooLarge ==
    ASSUME RegionsGood, TypeOK, Divided, NEW f
    PROVE  H!Free(MAX_ADDRESSABLE_MEM_ORDER + 1, f) = {}
  <1> SUFFICES ASSUME NEW a \in H!Free(MAX_ADDRESSABLE_MEM_ORDER + 1, f)
               PROVE  FALSE
    OBVIOUS
  <1>1. PICK o \in Nat : o = MAX_ADDRESSABLE_MEM_ORDER + 1
    BY OrdersAt
  <1>2. BlocksGood /\ a \in H!Free(o, f)
    BY <1>1 DEF Divided
  <1>3. PICK i \in DOMAIN regions : o <= regions[i].order
    BY <1>2, FreeAt
  <1> QED
    BY <1>1, <1>3, RegionAt, OrdersAt

\* To a caller that tests for it, a failure is NULL.
LEMMA FailedAnswer ==
    ASSUME NEW o \in 0..(MAX_ADDRESSABLE_MEM_ORDER + 1),
           NEW f \in Flags \cup {{}}, NEW place,
           answer' = [order |-> o, flags |-> f, addr |-> Failed(place)]
    PROVE  Answer' = [order |-> o, flags |-> f, addr |-> NULL]
  <1>1. CASE Failed(place) = Wild
    <2>1. answer' # NULL
      <3>1. [order |-> o, flags |-> f, addr |-> Wild]
              \in [order : 0..(MAX_ADDRESSABLE_MEM_ORDER + 1),
                   flags : Flags \cup {{}}, addr : {Wild}]
        OBVIOUS
      <3> QED
        BY <1>1, <3>1, BuddyAssumption
    <2> QED
      BY <1>1, <2>1 DEF Answer
  <1>2. CASE Failed(place) = NULL
    BY <1>2 DEF Answer
  <1> QED
    BY <1>1, <1>2 DEF Failed

\* A request that ends at once failed, and was too large for any list.
LEMMA AskAnswers ==
    ASSUME TypeOK, Places, NEW t \in Tasks,
           kmalloc(t) \/ page_alloc(t) \/ realloc(t)
    PROVE  \/ answer' = answer
           \/ \E f \in Flags \cup {{}} : \E place :
                answer' = [order |-> MAX_ADDRESSABLE_MEM_ORDER + 1, flags |-> f,
                           addr |-> Failed(place)]
  <1>1. ASSUME NEW o \in 0..(MAX_ADDRESSABLE_MEM_ORDER + 1),
               NEW f \in Flags \cup {{}}, NEW place \in {"alloc", "page"},
               Request(t, o, f, place)
        PROVE  \/ answer' = answer
               \/ answer' = [order |-> MAX_ADDRESSABLE_MEM_ORDER + 1, flags |-> f,
                             addr |-> Failed(place)]
    BY <1>1, RequestStep
  <1>2. CASE kmalloc(t)
    <2>1. PICK s \in Sizes \ {0}, f \in Flags :
            Request(t, size_to_order(s + Header), f, "alloc")
      BY <1>2 DEF kmalloc
    <2>2. size_to_order(s + Header) \in 0..(MAX_ADDRESSABLE_MEM_ORDER + 1)
      BY OrdersAsked
    <2> QED
      BY <1>1, <2>1, <2>2
  <1>3. CASE page_alloc(t)
    <2>1. PICK p \in PageOrders, f \in Flags : Request(t, p + PAGE_ORDER, f, "page")
      BY <1>3 DEF page_alloc
    <2>2. p + PAGE_ORDER \in 0..(MAX_ADDRESSABLE_MEM_ORDER + 1)
      BY OrdersAsked, OrdersAt DEF AllOrders
    <2> QED
      BY <1>1, <2>1, <2>2
  <1>4. CASE realloc(t)
    <2>1. PICK s \in Sizes \ {0} :
            Request(t, size_to_order(s + Header), {}, "alloc")
      BY <1>4 DEF realloc
    <2>2. size_to_order(s + Header) \in 0..(MAX_ADDRESSABLE_MEM_ORDER + 1)
      BY OrdersAsked
    <2> QED
      BY <1>1, <2>1, <2>2
  <1> QED
    BY <1>2, <1>3, <1>4

\* What a client that is served learns and holds.
LEMMA ServedGives ==
    ASSUME TypeOK, Places, NEW t \in Tasks, Served(t)
    PROVE  \E o \in AllOrders, f \in Flags \cup {{}} : \E a :
             /\ Sources(o, Tried(o, f)) # {}
             /\ a = find_buffer_in_bucket(Min(Sources(o, Tried(o, f))), Tried(o, f))
             /\ UsedBlocks' = UsedBlocks \cup {<<a, o>>}
             /\ answer' = [order |-> o, flags |-> f, addr |-> a]
  <1>1. PICK o : o = req[t][1]
    OBVIOUS
  <1>2. PICK f : f = req[t][2]
    OBVIOUS
  <1>3. PICK a : a = find_buffer_in_bucket(Min(Sources(o, Tried(o, f))), Tried(o, f))
    OBVIOUS
  <1>4. /\ pc[t] \in {"alloc", "page"} /\ Sources(o, Tried(o, f)) # {}
        /\ held' = held \cup {<<a, o>>} /\ blk' = blk
        /\ answer' = [order |-> o, flags |-> f, addr |-> a]
    BY <1>1, <1>2, <1>3 DEF Served
  <1>5. o \in AllOrders /\ f \in Flags \cup {{}}
    BY <1>1, <1>2, <1>4 DEF Places
  <1>6. <<a, o>> # None
    BY DEF None
  <1>7. UsedBlocks' = UsedBlocks \cup {<<a, o>>}
    BY <1>4, <1>6 DEF UsedBlocks, None
  <1> QED
    BY <1>3, <1>4, <1>5, <1>7

\* Heap's constants.
LEMMA HeapOrders ==
    /\ MAX_ADDRESSABLE_MEM_ORDER + 1 \in 0..(MAX_ADDRESSABLE_MEM_ORDER + 1)
    /\ AllOrders \subseteq 0..(MAX_ADDRESSABLE_MEM_ORDER + 1)
  BY OrdersAt DEF AllOrders

\* A failure is one that Heap allows.
LEMMA FailStep ==
    ASSUME NEW o \in 0..(MAX_ADDRESSABLE_MEM_ORDER + 1),
           NEW f \in Flags \cup {{}}, NEW place, H!Free(o, f) = {},
           answer' = [order |-> o, flags |-> f, addr |-> Failed(place)],
           regions' = regions, UsedBlocks' = UsedBlocks
    PROVE  H!Fail
  <1>1. Answer' = [order |-> o, flags |-> f, addr |-> NULL]
    BY FailedAnswer
  <1>2. Range(regions)' = Range(regions)
    OBVIOUS
  <1> QED
    BY <1>1, <1>2 DEF H!Fail

\* Every step of a call is a step of Heap, or none.
LEMMA CallImplements ==
    ASSUME RegionsGood, RegionsDisjoint, Kept, NEW t \in Tasks, Call(t)
    PROVE  H!Next \/ UNCHANGED <<Range(regions), UsedBlocks, Answer>>
  <1>1. TypeOK /\ Places /\ Divided
    BY DEF Kept
  <1>2. regions' = regions /\ Range(regions)' = Range(regions)
    BY CallFrame
  <1>3. answer' = answer => Answer' = Answer
    BY DEF Answer
  <1>4. CASE kmalloc(t) \/ page_alloc(t) \/ realloc(t)
    <2>1. UsedBlocks' = UsedBlocks
      BY <1>4, AskKeeps
    <2>2. CASE answer' = answer
      BY <1>2, <1>3, <2>1, <2>2
    <2>3. CASE answer' # answer
      <3>1. PICK f \in Flags \cup {{}} : \E place :
              answer' = [order |-> MAX_ADDRESSABLE_MEM_ORDER + 1, flags |-> f,
                         addr |-> Failed(place)]
        BY <1>1, <1>4, <2>3, AskAnswers
      <3>2. H!Free(MAX_ADDRESSABLE_MEM_ORDER + 1, f) = {}
        BY <1>1, TooLarge
      <3>3. H!Fail
        <4>1. PICK place :
                answer' = [order |-> MAX_ADDRESSABLE_MEM_ORDER + 1, flags |-> f,
                           addr |-> Failed(place)]
          BY <3>1
        <4> QED
          BY <1>2, <2>1, <3>2, <4>1, HeapOrders, FailStep
      <3> QED
        BY <3>3 DEF H!Next
    <2> QED
      BY <2>2, <2>3
  <1>5. CASE Served(t)
    <2> DEFINE Given(o, f, a) ==
                 /\ Sources(o, Tried(o, f)) # {}
                 /\ a = find_buffer_in_bucket(Min(Sources(o, Tried(o, f))), Tried(o, f))
                 /\ UsedBlocks' = UsedBlocks \cup {<<a, o>>}
                 /\ answer' = [order |-> o, flags |-> f, addr |-> a]
    <2>1. PICK o \in AllOrders, f \in Flags \cup {{}} : \E a : Given(o, f, a)
      BY <1>1, <1>5, ServedGives
    <2>2. PICK a : Given(o, f, a)
      BY <2>1
    <2>3. a \in H!Free(o, f) /\ a \in Nat
      BY <1>1, <2>2, FoundFits
    <2>4. Answer' = [order |-> o, flags |-> f, addr |-> a]
      <3>1. answer'.addr # Wild
        BY <2>2, <2>3, BuddyAssumption
      <3> QED
        BY <2>2, <3>1 DEF Answer
    <2>5. o \in 0..(MAX_ADDRESSABLE_MEM_ORDER + 1)
      BY HeapOrders
    <2>6. H!Alloc
      BY <1>2, <2>2, <2>3, <2>4, <2>5 DEF H!Alloc
    <2> QED
      BY <2>6 DEF H!Next
  <1>6. CASE Refused(t)
    <2>1. PICK o : o = req[t][1]
      OBVIOUS
    <2>2. PICK f : f = req[t][2]
      OBVIOUS
    <2>3. /\ pc[t] \in {"alloc", "page"} /\ Sources(o, Tried(o, f)) = {}
          /\ answer' = [order |-> o, flags |-> f, addr |-> Failed(pc[t])]
      BY <1>6, <2>1, <2>2 DEF Refused
    <2>4. o \in AllOrders /\ f \in Flags \cup {{}}
      BY <1>1, <2>1, <2>2, <2>3 DEF Places
    <2>5. H!Free(o, f) = {}
      BY <1>1, <2>3, <2>4, NothingFits
    <2>6. UsedBlocks' = UsedBlocks
      BY <1>6, RefusedKeeps
    <2>7. o \in 0..(MAX_ADDRESSABLE_MEM_ORDER + 1)
      BY <2>4, HeapOrders
    <2>8. PICK place : place = pc[t]
      OBVIOUS
    <2>9. H!Fail
      BY <1>2, <2>3, <2>4, <2>5, <2>6, <2>7, <2>8, FailStep
    <2> QED
      BY <2>9 DEF H!Next
  <1>7. CASE kfree(t)
    <2>1. UsedBlocks' = UsedBlocks
      BY <1>7, FreeKeeps
    <2>2. answer' = answer
      BY <1>7 DEF kfree
    <2> QED
      BY <1>2, <1>3, <2>1, <2>2
  <1>8. CASE page_free(t)
    <2>1. UsedBlocks' = UsedBlocks
      BY <1>8, PageFreeKeeps
    <2>2. answer' = answer
      BY <1>8 DEF page_free
    <2> QED
      BY <1>2, <1>3, <2>1, <2>2
  <1>9. CASE Release(t)
    <2>1. blk[t] \in UsedBlocks /\ UsedBlocks' = UsedBlocks \ {blk[t]}
      BY <1>9, ReleaseKeeps
    <2>2. answer' = answer
      BY <1>9 DEF Release
    <2>3. H!Release
      BY <1>2, <1>3, <2>1, <2>2 DEF H!Release
    <2> QED
      BY <2>3 DEF H!Next
  <1> QED
    BY <1>4, <1>5, <1>6, <1>7, <1>8, <1>9 DEF Call

\* The page allocator keeps Heap's promise as long as regions share no memory:
\* kmalloc, page_alloc and realloc hand out only free memory that suits the
\* request, and refuse only what no free range could serve.
THEOREM BuddyImplements == Spec /\ []RegionsDisjoint => Implements
  <1>1. Init => H!Init
    <2> SUFFICES ASSUME Init PROVE H!Init
      OBVIOUS
    <2>1. regions = <<>> /\ answer = NULL
      BY DEF Init
    <2>2. UsedBlocks = {}
      BY DEF Init, UsedBlocks
    <2>3. Range(regions) = {} /\ Answer = NULL
      BY <2>1 DEF Range, Answer
    <2> QED
      BY <2>2, <2>3 DEF H!Init
  <1>2. BuddyInv /\ RegionsDisjoint' /\ [Next]_vars
          => [H!Next]_<<Range(regions), UsedBlocks, Answer>>
    <2> SUFFICES ASSUME BuddyInv, RegionsDisjoint', [Next]_vars
                 PROVE  H!Next \/ UNCHANGED <<Range(regions), UsedBlocks, Answer>>
      OBVIOUS
    <2>1. RegionsGood /\ (RegionsDisjoint => Kept)
      BY DEF BuddyInv
    <2>2. CASE Boot
      <3>1. /\ UsedBlocks' = UsedBlocks /\ answer' = answer
            /\ Range(regions) \subseteq Range(regions')
        BY <2>1, <2>2, BootKeeps
      <3>2. Answer' = Answer
        BY <3>1 DEF Answer
      <3>3. H!Add
        BY <3>1, <3>2 DEF H!Add
      <3> QED
        BY <3>3 DEF H!Next
    <2>3. ASSUME NEW t \in Tasks, Call(t)
          PROVE  H!Next \/ UNCHANGED <<Range(regions), UsedBlocks, Answer>>
      <3>1. RegionsDisjoint /\ Kept
        BY <2>1, <2>3, CallKeeps
      <3> QED
        BY <2>1, <2>3, <3>1, CallImplements
    <2>4. CASE UNCHANGED vars
      <3>1. UNCHANGED <<regions, held, blk, answer>>
        BY <2>4 DEF vars, boot, task
      <3> QED
        BY <3>1 DEF UsedBlocks, Answer, None
    <2> QED
      BY <2>2, <2>3, <2>4 DEF Next
  <1>3. Spec => []BuddyInv
    BY AllocatorInvariant
  <1> QED
    BY <1>1, <1>2, <1>3, PTL DEF Spec, Implements, H!Spec

-----------------------------------------------------------------------------
(* When mm_init divides the heap *)

Of(r) == Units(r.start, r.order)

\* Where the memory that mm_init has given to regions starts.
Top == SHeap + mm_available

\* The regions mm_init made lie side by side up to the end of the memory, the
\* board's own are the first of its table, and what is left of the heap ends
\* where the next region may.
Layout ==
    /\ RegionsGood /\ RegionsDisjoint /\ mm_available <= Eor - SHeap
    /\ \A j \in DOMAIN regions :
         Of(regions[j]) \subseteq Top..(Eor - 1) \/ j \in Registered
    /\ \A j \in Registered : \E m \in DOMAIN BoardRegions :
         m <= Cardinality(Registered) /\ regions[j] = BoardRegions[m]
    /\ booting = "init" =>
         /\ Registered = {}
         /\ mm_available > 0 => Base(Top, find_msb(mm_available)) = Top

\* The start of a region that ends at an aligned address.
LEMMA StartBelow ==
    ASSUME NEW A \in Nat, A > 0, NEW m \in Nat, NEW E \in Nat, E = SHeap + A,
           order_to_size(m) <= A, A < order_to_size(m + 1), Base(E, m) = E
    PROVE  /\ RegionStart(m) = E - order_to_size(m)
           /\ E - order_to_size(m) \in Nat
           /\ Base(E - order_to_size(m), m) = E - order_to_size(m)
  <1> DEFINE s == order_to_size(m)
             q == Num(E, m)
  <1>1. s \in Nat /\ s > 0 /\ order_to_size(m + 1) = 2 * s
    BY SizeType, SizeDouble
  <1>2. SHeap \in Nat
    BY BuddyAssumption
  <1>3. q \in Nat /\ E = s * q
    BY BaseNum
  <1>4. ASSUME NEW d \in Nat
        PROVE  s * d \in Nat /\ Base(s * d, m) = s * d /\ Num(s * d, m) = d
    BY NumMul
  <1>5. RegionStart(m) = IF SHeap % s = 0 THEN SHeap ELSE SHeap - (SHeap % s) + s
    BY DEF RegionStart
  <1>6. Base(SHeap, m) = SHeap - (SHeap % s) /\ SHeap % s \in Nat
    BY <1>1, <1>2, DivMod DEF Base
  <1>7. Num(SHeap, m) = SHeap \div s
    BY DEF Num
  <1>8. Base(SHeap, m) = s * Num(SHeap, m)
    BY <1>2, BaseNum
  <1> HIDE DEF s, q
  <1>9. q # 0
    <2> SUFFICES ASSUME q = 0 PROVE FALSE
      OBVIOUS
    <2>1. E = 0
      BY <1>1, <1>3
    <2> QED
      BY <1>2, <2>1
  <1>10. q - 1 \in Nat /\ s * (q - 1) = s * q - s
    BY <1>1, <1>3, <1>9
  <1>11. E - s = s * (q - 1) /\ E - s \in Nat /\ Base(E - s, m) = E - s
    BY <1>3, <1>4, <1>10
  <1>12. RegionStart(m) = E - s
    <2>1. CASE A = s
      <3>1. SHeap = s * (q - 1)
        BY <1>1, <1>2, <1>11, <2>1
      <3>2. Base(SHeap, m) = SHeap
        BY <1>4, <1>10, <3>1
      <3>3. SHeap % s = 0
        BY <1>2, <1>6, <3>2
      <3> QED
        BY <1>1, <1>2, <1>5, <2>1, <3>3
    <2>2. CASE s < A
      <3>1. q # 1
        <4> SUFFICES ASSUME q = 1 PROVE FALSE
          OBVIOUS
        <4>1. E = s
          BY <1>1, <1>3
        <4> QED
          BY <1>1, <1>2, <2>2, <4>1
      <3>2. q - 2 \in Nat /\ s * (q - 2) = s * q - 2 * s
        BY <1>1, <1>3, <1>9, <3>1
      <3>3. s * (q - 2) \in Nat
        BY <1>4, <3>2
      <3>4. PICK d \in Nat : d = q - 2
        BY <3>2
      <3>5. s * d \in Nat /\ s * d < SHeap /\ SHeap < s * d + s
        BY <1>1, <1>2, <1>3, <2>2, <3>2, <3>3, <3>4 DEF s
      <3>6. SHeap \div s = d
        BY <1>1, <1>2, <3>5, DivUnique
      <3>7. Base(SHeap, m) = s * d
        BY <1>7, <1>8, <3>6
      <3>8. SHeap % s # 0
        BY <1>2, <1>6, <3>5, <3>7
      <3>9. RegionStart(m) = s * d + s
        BY <1>5, <1>6, <3>7, <3>8
      <3> QED
        BY <1>1, <1>3, <3>2, <3>3, <3>4, <3>9
    <2> QED
      BY <1>1, <2>1, <2>2 DEF s
  <1> QED
    BY <1>11, <1>12 DEF s

\* What is left below that region ends where the next one may.
LEMMA NextBelow ==
    ASSUME NEW B \in Nat, B > 0, NEW m \in Nat, NEW E \in Nat,
           B < order_to_size(m), Base(E, m) = E
    PROVE  Base(E, find_msb(B)) = E
  <1>1. PICK n : n = find_msb(B)
    OBVIOUS
  <1>2. n \in Nat /\ order_to_size(n) <= B
    BY <1>1, MsbAt
  <1>3. order_to_size(n) \in Nat /\ order_to_size(m) \in Nat
    BY <1>2, SizeType
  <1>4. n <= m
    <2> SUFFICES ASSUME m < n PROVE FALSE
      BY <1>2
    <2>1. order_to_size(m) < order_to_size(n)
      BY <1>2, SizeMono
    <2> QED
      BY <1>2, <1>3, <2>1
  <1>5. Base(Base(E, m), n) = Base(E, m)
    BY <1>2, <1>4, BaseBase
  <1> QED
    BY <1>1, <1>5

\* The region that mm_init adds next.
LEMMA NextRegion ==
    ASSUME Layout, booting = "init", Fits # {},
           NEW o, o = Max(Fits)
    PROVE  /\ o \in Nat /\ order_to_size(o) \in Nat /\ order_to_size(o) > 0
           /\ order_to_size(o) <= mm_available
           /\ RegionStart(o) = Top - order_to_size(o)
           /\ mm_available - order_to_size(o) > 0 =>
                Base(Top - order_to_size(o), find_msb(mm_available - order_to_size(o)))
                  = Top - order_to_size(o)
  <1>1. mm_available \in Nat /\ mm_available <= Eor - SHeap
    BY DEF Layout, RegionsGood
  <1>2. mm_available > 0
    BY <1>1 DEF Fits
  <1>3. PICK m : m = find_msb(mm_available)
    OBVIOUS
  <1>4. /\ m \in Nat /\ order_to_size(m) <= mm_available
        /\ mm_available < order_to_size(m + 1)
    BY <1>1, <1>2, <1>3, MsbAt
  <1>5. Base(Top, m) = Top
    BY <1>2, <1>3 DEF Layout
  <1>6. Top \in Nat /\ Top = SHeap + mm_available /\ Top <= Eor
        /\ SHeap \in Nat /\ Eor \in Nat /\ PAGE_ORDER \in Nat
    BY <1>1, BuddyAssumption DEF Top
  <1>7. order_to_size(m) \in Nat /\ order_to_size(m) > 0
    BY <1>4, SizeType
  <1>8. /\ RegionStart(m) = Top - order_to_size(m)
        /\ Top - order_to_size(m) \in Nat
        /\ Base(Top - order_to_size(m), m) = Top - order_to_size(m)
    BY <1>1, <1>2, <1>4, <1>5, <1>6, StartBelow
  <1>9. Fits = {k \in PAGE_ORDER..m : RegionStart(k) + order_to_size(k) <= Eor}
    BY <1>1, <1>2, <1>3 DEF Fits
  <1>10. m \in Fits
    <2>1. m \in PAGE_ORDER..m
      BY <1>4, <1>6, <1>9
    <2>2. RegionStart(m) + order_to_size(m) <= Eor
      BY <1>6, <1>7, <1>8
    <2> QED
      BY <1>9, <2>1, <2>2
  <1>11. \A k \in Fits : k \in Int /\ k <= m
    BY <1>4, <1>6, <1>9
  <1>12. o = m
    <2>1. \A k \in Fits : m >= k
      BY <1>4, <1>11
    <2>2. \E x \in Fits : \A k \in Fits : x >= k
      BY <1>10, <2>1
    <2>3. o \in Fits /\ \A k \in Fits : o >= k
      BY <2>2 DEF Max
    <2> QED
      BY <1>4, <1>10, <1>11, <2>3
  <1>13. ASSUME mm_available - order_to_size(m) > 0
         PROVE  Base(Top - order_to_size(m), find_msb(mm_available - order_to_size(m)))
                  = Top - order_to_size(m)
    <2>1. order_to_size(m + 1) = 2 * order_to_size(m)
      BY <1>4, SizeDouble
    <2>2. /\ mm_available - order_to_size(m) \in Nat
          /\ mm_available - order_to_size(m) < order_to_size(m)
      BY <1>1, <1>4, <1>7, <2>1
    <2> QED
      BY <1>4, <1>8, <1>13, <2>2, NextBelow
  <1> QED
    BY <1>4, <1>7, <1>8, <1>12, <1>13

\* A region that shares no memory with the others is added.
LEMMA DisjointAfter ==
    ASSUME regions \in Seq(Region), RegionsDisjoint, NEW r \in Region,
           regions' = Append(regions, r),
           \A i \in DOMAIN regions : Of(regions[i]) \cap Of(r) = {}
    PROVE  RegionsDisjoint'
  <1>1. PICK n : n = Len(regions) + 1
    OBVIOUS
  <1>2. /\ DOMAIN regions' = DOMAIN regions \cup {n} /\ n \notin DOMAIN regions
        /\ \A i \in DOMAIN regions : regions'[i] = regions[i]
        /\ regions'[n] = r
    BY <1>1, AppendAt
  <1>3. \A i, j \in DOMAIN regions :
          i # j => Of(regions[i]) \cap Of(regions[j]) = {}
    BY DEF RegionsDisjoint, Of
  <1>4. \A i, j \in DOMAIN regions' :
          i # j => Of(regions'[i]) \cap Of(regions'[j]) = {}
    BY <1>2, <1>3
  <1> QED
    BY <1>4 DEF RegionsDisjoint, Of, Units, order_to_size

\* A region has a first unit.
LEMMA FirstUnit ==
    ASSUME NEW r, r.start \in Nat, r.order \in Nat
    PROVE  r.start \in Of(r)
  <1>1. order_to_size(r.order) \in Nat /\ order_to_size(r.order) > 0
    BY SizeType
  <1> QED
    BY <1>1 DEF Of, Units

\* The board's regions are apart from the heap and from each other.
LEMMA BoardAt ==
    ASSUME LaidOut, NEW m \in DOMAIN BoardRegions
    PROVE  /\ Of(BoardRegions[m]) \cap (SHeap..(Eor - 1)) = {}
           /\ \A n \in DOMAIN BoardRegions :
                m # n => Of(BoardRegions[m]) \cap Of(BoardRegions[n]) = {}
  BY DEF LaidOut, Of

\* What is on the list is counted.
LEMMA RegisteredFinite ==
    ASSUME regions \in Seq(Region)
    PROVE  IsFiniteSet(Registered) /\ Cardinality(Registered) \in Nat
  <1>1. Len(regions) \in Nat /\ DOMAIN regions = 1..Len(regions)
    OBVIOUS
  <1>2. IsFiniteSet(1..Len(regions))
    BY <1>1, FS_Interval
  <1>3. Registered \subseteq 1..Len(regions)
    BY <1>1 DEF Registered
  <1> QED
    BY <1>2, <1>3, FS_Subset, FS_CardinalityType

\* mm_init adds a region below the last one.
LEMMA HeapLayout ==
    ASSUME LaidOut, Layout, RegionsGood', booting = "init", Fits # {},
           NEW o, o = Max(Fits), NEW r,
           r = [start |-> RegionStart(o), order |-> o, flags |-> HeapFlags],
           regions' = Append(regions, r),
           mm_available' = mm_available - order_to_size(o), booting' = booting
    PROVE  Layout'
  <1>1. /\ regions \in Seq(Region) /\ mm_available \in Nat
        /\ mm_available <= Eor - SHeap /\ RegionsDisjoint
        /\ \A j \in DOMAIN regions :
             Of(regions[j]) \subseteq Top..(Eor - 1) \/ j \in Registered
        /\ Registered = {}
    BY DEF Layout, RegionsGood
  <1>2. PICK s : s = order_to_size(o)
    OBVIOUS
  <1>3. /\ o \in Nat /\ s \in Nat /\ s > 0 /\ s <= mm_available
        /\ RegionStart(o) = Top - s
        /\ mm_available - s > 0 => Base(Top - s, find_msb(mm_available - s)) = Top - s
    BY <1>2, NextRegion
  <1>4. SHeap \in Nat /\ Eor \in Nat /\ Top = SHeap + mm_available
    BY BuddyAssumption DEF Top
  <1>5. Top' = Top - s /\ Top \in Nat /\ SHeap <= Top - s /\ Top <= Eor
    BY <1>1, <1>2, <1>3, <1>4 DEF Top
  <1>6. PICK T : T = Top - s
    OBVIOUS
  <1>7. r.start = T /\ r.order = o /\ T \in Nat /\ T + s <= Eor /\ SHeap <= T
    BY <1>3, <1>4, <1>5, <1>6
  <1>8. Of(r) = T..(T + s - 1)
    BY <1>2, <1>7 DEF Of, Units
  <1>9. Of(r) \subseteq T..(Eor - 1) /\ T \in Of(r) /\ T \in SHeap..(Eor - 1)
    BY <1>3, <1>4, <1>7, <1>8
  <1>10. r \in Region
    BY <1>3, <1>7, BuddyAssumption DEF Region
  <1>11. RegionsDisjoint'
    <2>1. ASSUME NEW i \in DOMAIN regions PROVE Of(regions[i]) \cap Of(r) = {}
      <3>1. Of(regions[i]) \subseteq (T + s)..(Eor - 1)
        BY <1>1, <1>3, <1>5, <1>6
      <3>2. (T + s)..(Eor - 1) \cap T..(T + s - 1) = {}
        BY <1>3, <1>4, <1>7
      <3> QED
        BY <1>8, <3>1, <3>2
    <2> QED
      BY <1>1, <1>10, <2>1, DisjointAfter
  <1>12. PICK n : n = Len(regions) + 1
    OBVIOUS
  <1>13. /\ DOMAIN regions' = DOMAIN regions \cup {n}
         /\ \A i \in DOMAIN regions : regions'[i] = regions[i]
         /\ regions'[n] = r
    BY <1>1, <1>10, <1>12, AppendAt
  <1>14. r \notin Range(BoardRegions)
    <2> SUFFICES ASSUME NEW m \in DOMAIN BoardRegions, BoardRegions[m] = r
                 PROVE  FALSE
      BY DEF Range
    <2>1. Of(r) \cap (SHeap..(Eor - 1)) = {}
      BY BoardAt
    <2> QED
      BY <1>9, <2>1
  <1>15. Registered' = {}
    <2>1. \A j \in DOMAIN regions : regions[j] \notin Range(BoardRegions)
      BY <1>1 DEF Registered
    <2>2. \A j \in DOMAIN regions' : regions'[j] \notin Range(BoardRegions)
      BY <1>13, <1>14, <2>1
    <2> QED
      BY <2>2 DEF Registered
  <1>16. ASSUME NEW j \in DOMAIN regions'
         PROVE  Of(regions'[j]) \subseteq T..(Eor - 1)
    <2>1. CASE j = n
      BY <1>9, <1>13, <2>1
    <2>2. CASE j \in DOMAIN regions
      <3>1. Of(regions'[j]) \subseteq Top..(Eor - 1)
        BY <1>1, <1>13, <2>2
      <3>2. Top..(Eor - 1) \subseteq T..(Eor - 1)
        BY <1>3, <1>4, <1>5, <1>6
      <3> QED
        BY <3>1, <3>2
    <2> QED
      BY <1>13, <2>1, <2>2
  <1>17. /\ mm_available' \in Nat /\ mm_available' <= Eor - SHeap
         /\ mm_available' > 0 => Base(T, find_msb(mm_available')) = T
    BY <1>1, <1>2, <1>3, <1>4, <1>6
  <1>18. Top' = T
    BY <1>5, <1>6
  <1> QED
    BY <1>11, <1>15, <1>16, <1>17, <1>18
       DEF Layout, Of, Units, order_to_size, find_msb, Base

\* machine_init adds the board's next region.
LEMMA BoardLayout ==
    ASSUME LaidOut, Layout, RegionsGood', booting # "init",
           NEW i \in DOMAIN BoardRegions, i = Cardinality(Registered) + 1,
           regions' = Append(regions, BoardRegions[i]),
           UNCHANGED <<mm_available, booting>>
    PROVE  Layout'
  <1>1. /\ regions \in Seq(Region) /\ mm_available \in Nat
        /\ mm_available <= Eor - SHeap /\ RegionsDisjoint
        /\ \A j \in DOMAIN regions :
             Of(regions[j]) \subseteq Top..(Eor - 1) \/ j \in Registered
        /\ \A j \in Registered : \E m \in DOMAIN BoardRegions :
             m <= Cardinality(Registered) /\ regions[j] = BoardRegions[m]
    BY DEF Layout, RegionsGood
  <1>2. PICK r : r = BoardRegions[i]
    OBVIOUS
  <1>3. BoardRegions \in Seq(Region) /\ r \in Region /\ r \in Range(BoardRegions)
    <2>1. BoardRegions \in Seq(Region)
      BY BuddyAssumption DEF Region
    <2>2. r \in Range(BoardRegions)
      BY <1>2 DEF Range
    <2> QED
      BY <1>2, <2>1, <2>2
  <1>4. PICK c \in Nat : c = Cardinality(Registered)
    BY <1>1, RegisteredFinite
  <1>5. SHeap \in Nat /\ Eor \in Nat /\ Top \in Nat /\ SHeap <= Top
    BY <1>1, BuddyAssumption DEF Top
  <1>6. /\ Of(r) \cap (SHeap..(Eor - 1)) = {}
        /\ \A n \in DOMAIN BoardRegions :
             i # n => Of(r) \cap Of(BoardRegions[n]) = {}
    BY <1>2, BoardAt
  <1>7. ASSUME NEW j \in DOMAIN regions PROVE Of(regions[j]) \cap Of(r) = {}
    <2>1. CASE Of(regions[j]) \subseteq Top..(Eor - 1)
      <3>1. Top..(Eor - 1) \subseteq SHeap..(Eor - 1)
        BY <1>5
      <3> QED
        BY <1>6, <2>1, <3>1
    <2>2. CASE j \in Registered
      <3>1. PICK m \in DOMAIN BoardRegions : m <= c /\ regions[j] = BoardRegions[m]
        BY <1>1, <1>4, <2>2
      <3>2. m # i
        BY <1>4, <3>1
      <3> QED
        BY <1>6, <3>1, <3>2
    <2> QED
      BY <1>1, <2>1, <2>2
  <1>8. RegionsDisjoint'
    BY <1>1, <1>2, <1>3, <1>7, DisjointAfter
  <1>9. PICK n : n = Len(regions) + 1
    OBVIOUS
  <1>10. /\ DOMAIN regions' = DOMAIN regions \cup {n} /\ n \notin DOMAIN regions
         /\ \A j \in DOMAIN regions : regions'[j] = regions[j]
         /\ regions'[n] = r
    BY <1>1, <1>2, <1>3, <1>9, AppendAt
  <1>11. Registered' = Registered \cup {n} /\ n \notin Registered
    BY <1>3, <1>10 DEF Registered
  <1>12. Cardinality(Registered') = c + 1
    BY <1>1, <1>4, <1>11, RegisteredFinite, FS_AddElement
  <1>13. ASSUME NEW j \in Registered'
         PROVE  \E m \in DOMAIN BoardRegions :
                  m <= Cardinality(Registered') /\ regions'[j] = BoardRegions[m]
    <2>1. CASE j = n
      <3>1. i <= Cardinality(Registered')
        BY <1>4, <1>12
      <3> QED
        BY <1>2, <1>10, <2>1, <3>1
    <2>2. CASE j \in Registered
      <3>1. PICK m \in DOMAIN BoardRegions : m <= c /\ regions[j] = BoardRegions[m]
        BY <1>1, <1>4, <2>2
      <3>2. m \in Nat
        BY <1>3
      <3>3. j \in DOMAIN regions
        BY <2>2 DEF Registered
      <3> QED
        BY <1>4, <1>10, <1>12, <3>1, <3>2, <3>3
    <2> QED
      BY <1>11, <2>1, <2>2
  <1>14. Top' = Top
    BY DEF Top
  <1>15. ASSUME NEW j \in DOMAIN regions'
         PROVE  Of(regions'[j]) \subseteq Top..(Eor - 1) \/ j \in Registered'
    BY <1>1, <1>10, <1>11
  <1>16. mm_available' <= Eor - SHeap /\ booting' # "init"
    BY <1>1
  <1> QED
    BY <1>8, <1>13, <1>14, <1>15, <1>16 DEF Layout, Of, Units, order_to_size

\* The layout is kept.
LEMMA LayoutStep ==
    ASSUME LaidOut, Layout, [Next]_vars
    PROVE  Layout'
  <1>1. RegionsGood'
    BY RegionsStep DEF Layout
  <1>2. ASSUME UNCHANGED <<mm_available, regions>>,
               booting' = "init" => booting = "init"
        PROVE  Layout'
    <2>1. RegionsDisjoint'
      BY <1>2 DEF Layout, RegionsDisjoint
    <2>2. Top' = Top /\ Registered' = Registered
      BY <1>2 DEF Top, Registered
    <2> QED
      BY <1>1, <1>2, <2>1, <2>2
         DEF Layout, Of, Units, order_to_size, find_msb, Base
  <1>3. CASE mm_init
    <2>1. CASE Fits = {} \/ Len(regions) = MaxRegions
      BY <1>2, <1>3, <2>1 DEF mm_init
    <2>2. CASE ~ (Fits = {} \/ Len(regions) = MaxRegions)
      <3>1. PICK o : o = Max(Fits)
        OBVIOUS
      <3>2. PICK r : r = [start |-> RegionStart(o), order |-> o, flags |-> HeapFlags]
        OBVIOUS
      <3>3. /\ booting = "init" /\ Fits # {} /\ mm_add_region(r)
            /\ mm_available' = mm_available - order_to_size(o) /\ booting' = booting
        BY <1>3, <2>2, <3>1, <3>2 DEF mm_init
      <3>4. regions' = Append(regions, r)
        BY <3>3 DEF mm_add_region
      <3> QED
        BY <1>1, <3>1, <3>2, <3>3, <3>4, HeapLayout
    <2> QED
      BY <2>1, <2>2
  <1>4. ASSUME NEW i \in 1..(Len(BoardRegions) + 1), machine_init(i)
        PROVE  Layout'
    <2>1. booting = "board" /\ i = Cardinality(Registered) + 1
      BY <1>4 DEF machine_init
    <2>2. CASE i > Len(BoardRegions)
      BY <1>2, <1>4, <2>1, <2>2 DEF machine_init
    <2>3. CASE ~ (i > Len(BoardRegions))
      <3>1. i \in DOMAIN BoardRegions
        BY <2>3, BuddyAssumption
      <3>2. mm_add_region(BoardRegions[i]) /\ UNCHANGED <<mm_available, booting>>
        BY <1>4, <2>3 DEF machine_init
      <3>3. regions' = Append(regions, BoardRegions[i])
        BY <3>2 DEF mm_add_region
      <3> QED
        BY <1>1, <2>1, <3>1, <3>2, <3>3, BoardLayout
    <2> QED
      BY <2>2, <2>3
  <1>5. ASSUME NEW t \in Tasks, Call(t) PROVE Layout'
    BY <1>2, <1>5, CallFrame
  <1>6. CASE UNCHANGED vars
    BY <1>2, <1>6 DEF vars, boot
  <1> QED
    BY <1>3, <1>4, <1>5, <1>6 DEF Next, Boot

\* Before mm_init's first region.
LEMMA LayoutStart ==
    ASSUME LaidOut, Init
    PROVE  Layout
  <1>1. /\ mm_available = Eor - SHeap /\ regions = <<>> /\ DOMAIN regions = {}
    BY DEF Init
  <1>2. RegionsGood
    BY BuddyStart DEF BuddyInv
  <1>3. SHeap \in Nat /\ Eor \in Nat /\ SHeap < Eor /\ Top = Eor
    BY <1>1, BuddyAssumption DEF Top
  <1>4. Registered = {} /\ RegionsDisjoint
    BY <1>1 DEF Registered, RegionsDisjoint
  <1>5. Base(Top, find_msb(mm_available)) = Top
    <2>1. PICK m : m = find_msb(Eor - SHeap)
      OBVIOUS
    <2>2. Eor - SHeap \in Nat /\ Eor - SHeap > 0
      BY <1>3
    <2>3. m \in Nat
      BY <2>1, <2>2, MsbAt
    <2>4. Eor % order_to_size(m) = 0
      BY <2>1 DEF LaidOut
    <2> QED
      BY <1>1, <1>3, <2>1, <2>3, <2>4, AlignedAt
  <1> QED
    BY <1>1, <1>2, <1>3, <1>4, <1>5 DEF Layout

\* On a board whose memory ends at a multiple of the largest region, mm_init
\* registers no memory twice although it never advances mm_start.
THEOREM RegionsApart == ASSUME LaidOut PROVE Spec => []RegionsDisjoint
  <1>1. Init => Layout
    BY LayoutStart
  <1>2. Layout /\ [Next]_vars => Layout'
    BY LayoutStep
  <1>3. Layout => RegionsDisjoint
    BY DEF Layout
  <1> QED
    BY <1>1, <1>2, <1>3, PTL DEF Spec

\* On such a board the blocks divide the memory, are fully merged, and the
\* allocator keeps Heap's promise.
THEOREM AllocatorCorrect ==
    ASSUME LaidOut
    PROVE  Spec => [](TypeOK /\ Partition /\ FullyMerged) /\ Implements
  BY RegionsApart, BuddyTypes, BlocksPartition, BlocksFullyMerged,
     BuddyImplements, PTL

=============================================================================
