--------------------------- MODULE McacheProofs ---------------------------
(***************************************************************************)
(* Theorems about Mcache, for every number of slabs and of objects.        *)
(***************************************************************************)
EXTENDS Mcache, TaskListsProofs, FiniteSetTheorems, WellFoundedInduction

-----------------------------------------------------------------------------
(* The inductive invariant *)

\* The list node of a slab is on a list at most once.
LinkedOnce == \A q \in Lists : IsInjective(lists[q])

\* A slab that does not exist has no object in use.
Untouched == \A s \in Slabs \ made : refcount[s] = 0

CacheInv == TypeOK /\ LinkedOnce /\ Untouched /\ ListedByUse /\ Accounted

-----------------------------------------------------------------------------
(* Helpers *)

\* The search of slab_alloc_object finds an object when there is one.
LEMMA FirstExists ==
    ASSUME NEW S \in SUBSET Nat, S # {}
    PROVE  \E i \in S : \A k \in S : i <= k
  <1> DEFINE R == OpToRel(<, Nat)
  <1>1. \E i \in S : \A k \in S : ~ (<<k, i>> \in R)
    BY NatLessThanWellFounded, WFMin, Zenon
  <1>2. \A k, i \in Nat : <<k, i>> \in R <=> k < i
    BY DEF OpToRel
  <1>3. \E i \in S : \A k \in S : ~ (k < i)
    BY <1>1, <1>2, Zenon
  <1> QED
    BY <1>3

\* What MoveSlab does to each list.
LEMMA MoveOnce ==
    ASSUME NEW l \in [Lists -> Seq(Slabs)], NEW s \in Slabs, NEW q \in Lists,
           \A r \in Lists : IsInjective(l[r])
    PROVE  /\ MoveSlab(l, s, q) \in [Lists -> Seq(Slabs)]
           /\ \A r \in Lists :
                /\ IsInjective(MoveSlab(l, s, q)[r])
                /\ Range(MoveSlab(l, s, q)[r]) =
                     IF r = q THEN Range(l[r]) \cup {s} ELSE Range(l[r]) \ {s}
  <1> DEFINE u(r) == Unlink(l[r], s)
             m == MoveSlab(l, s, q)
  <1>1. \A r \in Lists : /\ u(r) \in Seq(Slabs)
                         /\ Range(u(r)) = Range(l[r]) \ {s}
                         /\ IsInjective(u(r))
    BY UnlinkType, UnlinkOnce
  <1>2. \A r \in Lists : m[r] = IF r = q THEN Append(u(r), s) ELSE u(r)
    BY DEF MoveSlab
  <1>3. m = [r \in Lists |-> m[r]]
    BY DEF MoveSlab
  <1> HIDE DEF u, m
  <1>4. \A r \in Lists :
          /\ m[r] \in Seq(Slabs) /\ IsInjective(m[r])
          /\ Range(m[r]) = IF r = q THEN Range(l[r]) \cup {s}
                           ELSE Range(l[r]) \ {s}
    <2> TAKE r \in Lists
    <2>1. CASE r = q
      <3>1. /\ Append(u(r), s) \in Seq(Slabs)
            /\ Range(Append(u(r), s)) = Range(u(r)) \cup {s}
            /\ IsInjective(Append(u(r), s))
        BY <1>1, AppendOnce
      <3>2. Range(u(r)) \cup {s} = Range(l[r]) \cup {s}
        BY <1>1
      <3> QED
        BY <1>2, <2>1, <3>1, <3>2
    <2>2. CASE r # q
      BY <1>1, <1>2, <2>2
    <2> QED
      BY <2>1, <2>2
  <1> QED
    BY <1>3, <1>4 DEF m

\* The sizes of bitmaps.
LEMMA BitmapSize ==
    ASSUME NEW B \in SUBSET Indexes
    PROVE  /\ Cardinality(B) \in 0..NumObjects
           /\ Cardinality(B) = NumObjects <=> B = Indexes
           /\ Cardinality(B) = 0 <=> B = {}
           /\ \A i \in Indexes \ B : Cardinality(B \cup {i}) = Cardinality(B) + 1
           /\ \A i \in B : Cardinality(B \ {i}) = Cardinality(B) - 1
  <1>1. NumObjects \in Nat \ {0}
    BY McacheAssumption
  <1>2. IsFiniteSet(Indexes) /\ Cardinality(Indexes) = NumObjects
    BY <1>1, FS_Interval DEF Indexes
  <1>3. /\ IsFiniteSet(B) /\ Cardinality(B) <= NumObjects
        /\ Cardinality(B) = NumObjects => B = Indexes
    BY <1>2, FS_Subset
  <1>4. Cardinality(B) \in Nat
    BY <1>3, FS_CardinalityType
  <1>5. Cardinality(B) = 0 <=> B = {}
    BY <1>3, FS_EmptySet
  <1>6. \A i \in Indexes \ B : Cardinality(B \cup {i}) = Cardinality(B) + 1
    BY <1>3, FS_AddElement
  <1>7. \A i \in B : Cardinality(B \ {i}) = Cardinality(B) - 1
    BY <1>3, FS_RemoveElement
  <1> QED
    BY <1>1, <1>2, <1>3, <1>4, <1>5, <1>6, <1>7

-----------------------------------------------------------------------------
(* Allocation *)

\* With a free object, slab_alloc_object takes and counts one.
LEMMA TakesOne ==
    ASSUME TypeOK, NEW l, NEW s \in Slabs, bitmap[s] # Indexes,
           slab_alloc_object(l, s)
    PROVE  \E i \in Indexes \ bitmap[s] :
             /\ bitmap' = [bitmap EXCEPT ![s] = @ \cup {i}]
             /\ refcount' = [refcount EXCEPT ![s] = @ + 1]
             /\ ret' = <<s, i>> /\ held' = held \cup {<<s, i>>}
             /\ lists' = IF refcount'[s] = NumObjects
                         THEN MoveSlab(l, s, "full") ELSE l
  <1> DEFINE F == Indexes \ bitmap[s]
             i == CHOOSE j \in F : \A k \in F : j <= k
  <1>1. NumObjects \in Nat /\ bitmap[s] \subseteq Indexes
    BY McacheAssumption DEF TypeOK
  <1>2. F \in SUBSET Nat /\ F # {}
    <2>1. Indexes \subseteq Nat
      BY <1>1 DEF Indexes
    <2> QED
      BY <1>1, <2>1
  <1>3. i \in F
    <2>1. \E j \in F : \A k \in F : j <= k
      BY <1>2, FirstExists
    <2> QED
      BY <2>1
  <1>4. /\ bitmap' = [bitmap EXCEPT ![s] = @ \cup {i}]
        /\ refcount' = [refcount EXCEPT ![s] = @ + 1]
        /\ ret' = <<s, i>> /\ held' = held \cup {<<s, i>>}
        /\ lists' = IF refcount'[s] = NumObjects
                    THEN MoveSlab(l, s, "full") ELSE l
    BY <1>2 DEF slab_alloc_object
  <1> HIDE DEF i
  <1> QED
    BY <1>3, <1>4

\* An allocation from slab s, which l has as the only partial or new one.
LEMMA AllocKeeps ==
    ASSUME CacheInv, NEW l \in [Lists -> Seq(Slabs)], NEW s \in Slabs,
           \A q \in Lists : IsInjective(l[q]),
           refcount[s] # NumObjects,
           \A q \in Lists : s \in Range(l[q]) <=> q = "partial",
           \A q \in Lists, t \in Slabs \ {s} :
               t \in Range(l[q]) <=> t \in Range(lists[q]),
           slab_alloc_object(l, s),
           made' = made \cup {s}, UNCHANGED <<lost, wild>>
    PROVE  /\ CacheInv'
           /\ ret' \in {s} \X Indexes /\ ret' \notin held
           /\ held' = held \cup {ret'}
  <1>1. /\ TypeOK /\ LinkedOnce /\ ListedByUse /\ Accounted
        /\ bitmap \in [Slabs -> SUBSET Indexes] /\ refcount \in [Slabs -> Nat]
        /\ NumObjects \in Nat \ {0}
    BY McacheAssumption DEF CacheInv, TypeOK
  <1>2. /\ \A t \in Slabs : refcount[t] = Cardinality(bitmap[t])
        /\ bitmap[s] # Indexes /\ refcount[s] \in 0..NumObjects - 1
    BY <1>1, BitmapSize DEF Accounted
  <1>3. PICK i \in Indexes \ bitmap[s] :
             /\ bitmap' = [bitmap EXCEPT ![s] = @ \cup {i}]
             /\ refcount' = [refcount EXCEPT ![s] = @ + 1]
             /\ ret' = <<s, i>> /\ held' = held \cup {<<s, i>>}
             /\ lists' = IF refcount'[s] = NumObjects
                         THEN MoveSlab(l, s, "full") ELSE l
    BY <1>1, <1>2, TakesOne
  <1>4. ret' \in Objects /\ ret' \in {s} \X Indexes /\ ret' \notin held
    BY <1>1, <1>3 DEF Accounted, Objects
  <1> DEFINE m == MoveSlab(l, s, "full")
  <1>5. /\ m \in [Lists -> Seq(Slabs)]
        /\ \A q \in Lists :
              /\ IsInjective(m[q])
              /\ Range(m[q]) = IF q = "full" THEN Range(l[q]) \cup {s}
                               ELSE Range(l[q]) \ {s}
    <2>1. "full" \in Lists
      BY DEF Lists
    <2> QED
      BY <2>1, MoveOnce, Zenon
  <1> HIDE DEF m
  <1>6. lists' \in [Lists -> Seq(Slabs)] /\ LinkedOnce'
    BY <1>3, <1>5 DEF LinkedOnce, m
  <1>7. TypeOK'
    <2>1. bitmap' \in [Slabs -> SUBSET Indexes] /\ refcount' \in [Slabs -> Nat]
      BY <1>1, <1>3
    <2>2. held' \subseteq Objects /\ ret' \in Objects
      BY <1>1, <1>3, <1>4 DEF TypeOK
    <2>3. /\ made' \subseteq Slabs /\ lost' \subseteq Slabs
          /\ wild' \in BOOLEAN
      BY <1>1 DEF TypeOK
    <2> QED
      BY <1>6, <2>1, <2>2, <2>3 DEF TypeOK
  <1>8. Accounted'
    <2>1. ASSUME NEW o \in Objects
          PROVE  o \in held' <=> o[2] \in bitmap'[o[1]]
      <3>1. o \in held <=> o[2] \in bitmap[o[1]]
        BY <1>1 DEF Accounted
      <3>2. o[1] \in Slabs /\ (o = <<s, i>> <=> o[1] = s /\ o[2] = i)
        BY DEF Objects
      <3> QED
        BY <1>1, <1>3, <3>1, <3>2
    <2>2. held' = {o \in Objects : o[2] \in bitmap'[o[1]]}
      BY <1>7, <2>1 DEF TypeOK
    <2>3. \A t \in Slabs : refcount'[t] = Cardinality(bitmap'[t])
      <3>1. Cardinality(bitmap[s] \cup {i}) = Cardinality(bitmap[s]) + 1
        BY <1>1, <1>3, BitmapSize
      <3> QED
        BY <1>1, <1>2, <1>3, <3>1
    <2> QED
      BY <2>2, <2>3 DEF Accounted
  <1>9. ListedByUse'
    <2>1. \A q \in Lists, t \in Slabs \ {s} :
              t \in Range(lists'[q]) <=> t \in Range(lists[q])
      BY <1>3, <1>5 DEF m
    <2>2. ASSUME NEW t \in Slabs \ {s}
          PROVE  refcount'[t] = refcount[t] /\ (t \in made' <=> t \in made)
      BY <1>1, <1>3
    <2>3. refcount'[s] = refcount[s] + 1 /\ s \in made'
      BY <1>1, <1>3
    <2>4. \A q \in Lists : s \in Range(lists'[q]) <=>
              q = IF refcount'[s] = NumObjects THEN "full" ELSE "partial"
      BY <1>3, <1>5 DEF m
    <2>5. ASSUME NEW t \in Slabs \ {s}
          PROVE  /\ t \in Range(lists'["empty"]) <=>
                        t \in made' /\ refcount'[t] = 0
                 /\ t \in Range(lists'["partial"]) <=>
                        t \in made' /\ refcount'[t] \in 1..NumObjects - 1
                 /\ t \in Range(lists'["full"]) <=>
                        t \in made' /\ refcount'[t] = NumObjects
      BY <1>1, <2>1, <2>2 DEF ListedByUse, Lists
    <2>6. /\ s \in Range(lists'["empty"]) <=> s \in made' /\ refcount'[s] = 0
          /\ s \in Range(lists'["partial"]) <=>
                 s \in made' /\ refcount'[s] \in 1..NumObjects - 1
          /\ s \in Range(lists'["full"]) <=>
                 s \in made' /\ refcount'[s] = NumObjects
      BY <1>1, <1>2, <2>3, <2>4 DEF Lists
    <2> QED
      BY <2>5, <2>6 DEF ListedByUse
  <1>10. Untouched'
    BY <1>1, <1>3 DEF CacheInv, Untouched
  <1> QED
    BY <1>3, <1>4, <1>6, <1>7, <1>8, <1>9, <1>10 DEF CacheInv

-----------------------------------------------------------------------------
(* Each action keeps the invariant and maps to a step of ObjectCache *)

known == made \X Indexes

\* With no slab on the partial and empty lists, everything known is held.
LEMMA NothingLeft ==
    ASSUME CacheInv, lists["partial"] = <<>>, lists["empty"] = <<>>
    PROVE  known \subseteq held
  <1>1. /\ TypeOK /\ ListedByUse /\ Accounted
        /\ bitmap \in [Slabs -> SUBSET Indexes] /\ made \subseteq Slabs
        /\ NumObjects \in Nat \ {0}
    BY McacheAssumption DEF CacheInv, TypeOK
  <1>2. Range(lists["partial"]) = {} /\ Range(lists["empty"]) = {}
    BY DEF Range
  <1>3. ASSUME NEW s \in made PROVE bitmap[s] = Indexes
    <2>1. s \in Slabs /\ refcount[s] = Cardinality(bitmap[s])
      BY <1>1 DEF Accounted
    <2>2. refcount[s] # 0 /\ refcount[s] \notin 1..NumObjects - 1
      BY <1>1, <1>2, <2>1 DEF ListedByUse
    <2>3. bitmap[s] \in SUBSET Indexes
      BY <1>1, <2>1
    <2>4. refcount[s] \in 0..NumObjects
      BY <2>1, <2>3, BitmapSize
    <2>5. refcount[s] = NumObjects
      BY <1>1, <2>2, <2>4
    <2> QED
      BY <2>1, <2>3, <2>5, BitmapSize
  <1> QED
    BY <1>1, <1>3 DEF Accounted, known, Objects

\* A step that allocates is one of ObjectCache.
CacheAlloc ==
    /\ ret' \in known' \ held
    /\ held' = held \cup {ret'}
    /\ known' = known \/ (known \subseteq held /\ known \subseteq known')
    /\ known' \subseteq Objects

\* An allocation from the first partial slab.
LEMMA PartialStep ==
    ASSUME CacheInv, AllocPartial
    PROVE  CacheInv' /\ CacheAlloc
  <1> DEFINE s == Head(lists["partial"])
  <1>1. /\ TypeOK /\ LinkedOnce /\ ListedByUse /\ "partial" \in Lists
        /\ lists \in [Lists -> Seq(Slabs)] /\ made \subseteq Slabs
        /\ NumObjects \in Nat \ {0}
    BY McacheAssumption DEF CacheInv, TypeOK, Lists
  <1>2. /\ slab_alloc_object(lists, s) /\ UNCHANGED <<made, lost, wild>>
        /\ lists["partial"] # <<>>
    BY DEF AllocPartial
  <1>3. s \in Slabs /\ s \in Range(lists["partial"])
    BY <1>1, <1>2, UnlinkHead
  <1> HIDE DEF s
  <1>4. s \in made /\ refcount[s] \in 1..NumObjects - 1
    BY <1>1, <1>3 DEF ListedByUse
  <1>5. \A q \in Lists : s \in Range(lists[q]) <=> q = "partial"
    BY <1>1, <1>3, <1>4 DEF ListedByUse, Lists
  <1>6. made' = made \cup {s} /\ refcount[s] # NumObjects
    BY <1>1, <1>2, <1>4
  <1>7. /\ CacheInv'
        /\ ret' \in {s} \X Indexes /\ ret' \notin held
        /\ held' = held \cup {ret'}
    BY <1>1, <1>2, <1>3, <1>5, <1>6, AllocKeeps DEF LinkedOnce
  <1>8. known' = known /\ known \subseteq Objects /\ ret' \in known
    BY <1>1, <1>2, <1>4, <1>7 DEF known, Objects, Indexes
  <1> QED
    BY <1>7, <1>8 DEF CacheAlloc

\* Taking a slab that is empty or new, by way of the partial list.
LEMMA MovedStep ==
    ASSUME CacheInv, NEW s \in Slabs, refcount[s] = 0,
           lists["partial"] = <<>>, UNCHANGED <<lost, wild>>,
           made' = made \cup {s},
           slab_alloc_object(MoveSlab(lists, s, "partial"), s)
    PROVE  /\ CacheInv'
           /\ ret' \in {s} \X Indexes /\ ret' \notin held
           /\ held' = held \cup {ret'}
  <1> DEFINE l == MoveSlab(lists, s, "partial")
  <1>1. /\ TypeOK /\ LinkedOnce /\ ListedByUse /\ "partial" \in Lists
        /\ lists \in [Lists -> Seq(Slabs)]
        /\ NumObjects \in Nat \ {0}
    BY McacheAssumption DEF CacheInv, TypeOK, Lists
  <1>2. /\ l \in [Lists -> Seq(Slabs)]
        /\ \A q \in Lists :
              /\ IsInjective(l[q])
              /\ Range(l[q]) = IF q = "partial" THEN Range(lists[q]) \cup {s}
                               ELSE Range(lists[q]) \ {s}
    BY <1>1, MoveOnce, Zenon DEF LinkedOnce
  <1>3. slab_alloc_object(l, s)
    OBVIOUS
  <1> HIDE DEF l
  <1>4. \A q \in Lists : s \in Range(l[q]) <=> q = "partial"
    BY <1>2
  <1>5. \A q \in Lists, t \in Slabs \ {s} :
            t \in Range(l[q]) <=> t \in Range(lists[q])
    BY <1>2
  <1>6. refcount[s] # NumObjects
    BY <1>1
  <1> QED
    BY <1>2, <1>3, <1>4, <1>5, <1>6, AllocKeeps

\* ... from an empty slab.
LEMMA EmptyStep ==
    ASSUME CacheInv, AllocEmpty
    PROVE  CacheInv' /\ CacheAlloc
  <1> DEFINE s == Head(lists["empty"])
  <1>1. /\ TypeOK /\ ListedByUse /\ "empty" \in Lists
        /\ lists \in [Lists -> Seq(Slabs)] /\ made \subseteq Slabs
    BY DEF CacheInv, TypeOK, Lists
  <1>2. /\ slab_alloc_object(MoveSlab(lists, s, "partial"), s)
        /\ UNCHANGED <<made, lost, wild>>
        /\ lists["empty"] # <<>> /\ lists["partial"] = <<>>
    BY DEF AllocEmpty
  <1>3. s \in Slabs /\ s \in Range(lists["empty"])
    BY <1>1, <1>2, UnlinkHead
  <1> HIDE DEF s
  <1>4. s \in made /\ refcount[s] = 0 /\ made' = made \cup {s}
    BY <1>1, <1>2, <1>3 DEF ListedByUse
  <1>5. /\ CacheInv'
        /\ ret' \in {s} \X Indexes /\ ret' \notin held
        /\ held' = held \cup {ret'}
    BY <1>2, <1>3, <1>4, MovedStep
  <1>6. known' = known /\ known \subseteq Objects /\ ret' \in known
    BY <1>1, <1>2, <1>4, <1>5 DEF known, Objects, Indexes
  <1> QED
    BY <1>5, <1>6 DEF CacheAlloc

\* ... from a slab just made.
LEMMA NewStep ==
    ASSUME CacheInv, AllocNew
    PROVE  CacheInv' /\ CacheAlloc
  <1>1. /\ TypeOK /\ ListedByUse /\ made \subseteq Slabs
    BY DEF CacheInv, TypeOK
  <1>2. PICK s \in Slabs \ (made \cup lost) :
            /\ made' = made \cup {s}
            /\ slab_alloc_object(MoveSlab(lists, s, "partial"), s)
    BY DEF AllocNew
  <1>3. lists["partial"] = <<>> /\ lists["empty"] = <<>> /\ UNCHANGED <<lost, wild>>
    BY DEF AllocNew
  <1>4. refcount[s] = 0
    BY <1>2 DEF CacheInv, Untouched
  <1>5. /\ CacheInv'
        /\ ret' \in {s} \X Indexes /\ ret' \notin held
        /\ held' = held \cup {ret'}
    BY <1>2, <1>3, <1>4, MovedStep
  <1>6. /\ known \subseteq known' /\ known' \subseteq Objects
        /\ ret' \in known'
    BY <1>1, <1>2, <1>5 DEF known, Objects, Indexes
  <1> QED
    BY <1>3, <1>5, <1>6, NothingLeft DEF CacheAlloc

\* A call that fails: every known object is held.
LEMMA FailStep ==
    ASSUME CacheInv, AllocFails
    PROVE  /\ CacheInv'
           /\ known \subseteq held /\ ret' = NULL /\ UNCHANGED <<held, known>>
  <1>1. /\ UNCHANGED <<lists, bitmap, refcount, made, wild, held>>
        /\ ret' = NULL
        /\ lists["partial"] = <<>> /\ lists["empty"] = <<>>
    BY DEF AllocFails
  <1>2. lost' \subseteq Slabs
    BY DEF AllocFails, CacheInv, TypeOK
  <1>3. TypeOK'
    BY <1>1, <1>2 DEF CacheInv, TypeOK
  <1>4. LinkedOnce' /\ Untouched' /\ ListedByUse' /\ Accounted'
    BY <1>1 DEF CacheInv, LinkedOnce, Untouched, ListedByUse, Accounted
  <1> QED
    BY <1>1, <1>3, <1>4, NothingLeft DEF CacheInv, known

-----------------------------------------------------------------------------
(* Release *)

\* mcache_free finds the slab of an object that a client holds.
LEMMA FreeFinds ==
    ASSUME CacheInv, NEW o \in held
    PROVE  /\ o \in Objects /\ o[1] \in made /\ o[2] \in bitmap[o[1]]
           /\ refcount[o[1]] \in 1..NumObjects
           /\ find_buffer_slab(o[1])
  <1>1. /\ TypeOK /\ Untouched /\ ListedByUse /\ Accounted
        /\ bitmap \in [Slabs -> SUBSET Indexes]
        /\ NumObjects \in Nat \ {0}
    BY McacheAssumption DEF CacheInv, TypeOK
  <1>2. o \in Objects /\ o[1] \in Slabs /\ o[2] \in bitmap[o[1]]
    BY <1>1 DEF Accounted, Objects
  <1> DEFINE s == o[1]
  <1>3. /\ bitmap[s] \in SUBSET Indexes /\ bitmap[s] # {}
        /\ refcount[s] = Cardinality(bitmap[s])
    BY <1>1, <1>2 DEF Accounted
  <1>4. refcount[s] \in 0..NumObjects /\ refcount[s] # 0
    BY <1>3, BitmapSize
  <1>5. refcount[s] \in 1..NumObjects
    BY <1>1, <1>4
  <1>6. s \in made
    BY <1>1, <1>2, <1>4 DEF Untouched
  <1>7. refcount[s] \in 1..NumObjects - 1 \/ refcount[s] = NumObjects
    BY <1>1, <1>5
  <1>8. find_buffer_slab(s)
    BY <1>1, <1>2, <1>6, <1>7 DEF ListedByUse, find_buffer_slab
  <1> QED
    BY <1>2, <1>5, <1>6, <1>8

\* Where slab_free_object leaves the slab.
LEMMA FreeMoves ==
    ASSUME CacheInv, NEW s \in Slabs, NEW i, slab_free_object(s, i)
    PROVE  /\ lists' \in [Lists -> Seq(Slabs)] /\ LinkedOnce'
           /\ \A q \in Lists, t \in Slabs \ {s} :
                 t \in Range(lists'[q]) <=> t \in Range(lists[q])
           /\ \A q \in Lists : s \in Range(lists'[q]) <=>
                 q = IF refcount'[s] = 0 THEN "empty" ELSE "partial"
  <1> DEFINE p == MoveSlab(lists, s, "partial")
             e == MoveSlab(p, s, "empty")
  <1>1. /\ lists \in [Lists -> Seq(Slabs)] /\ LinkedOnce
        /\ "partial" \in Lists /\ "empty" \in Lists
    BY DEF CacheInv, TypeOK, Lists
  <1>2. /\ p \in [Lists -> Seq(Slabs)]
        /\ \A q \in Lists :
              /\ IsInjective(p[q])
              /\ Range(p[q]) = IF q = "partial" THEN Range(lists[q]) \cup {s}
                               ELSE Range(lists[q]) \ {s}
    BY <1>1, MoveOnce, Zenon DEF LinkedOnce
  <1>3. lists' = IF refcount'[s] = 0 THEN e ELSE p
    BY DEF slab_free_object
  <1> HIDE DEF p
  <1>4. /\ e \in [Lists -> Seq(Slabs)]
        /\ \A q \in Lists :
              /\ IsInjective(e[q])
              /\ Range(e[q]) = IF q = "empty" THEN Range(p[q]) \cup {s}
                               ELSE Range(p[q]) \ {s}
    <2>1. p \in [Lists -> Seq(Slabs)] /\ \A q \in Lists : IsInjective(p[q])
      BY <1>2, Zenon
    <2> QED
      BY <1>1, <2>1, MoveOnce, Zenon
  <1> HIDE DEF e
  <1>5. CASE refcount'[s] = 0
    BY <1>2, <1>3, <1>4, <1>5 DEF LinkedOnce
  <1>6. CASE refcount'[s] # 0
    BY <1>2, <1>3, <1>6 DEF LinkedOnce
  <1> QED
    BY <1>5, <1>6

\* A release.
LEMMA FreeStep ==
    ASSUME CacheInv, NEW o \in held, mcache_free(o)
    PROVE  /\ CacheInv'
           /\ held' = held \ {o} /\ UNCHANGED <<known, ret>>
  <1> DEFINE s == o[1]
             i == o[2]
  <1>1. /\ TypeOK /\ Untouched /\ ListedByUse /\ Accounted
        /\ bitmap \in [Slabs -> SUBSET Indexes] /\ refcount \in [Slabs -> Nat]
        /\ NumObjects \in Nat \ {0}
    BY McacheAssumption DEF CacheInv, TypeOK
  <1>2. /\ o \in Objects /\ s \in Slabs /\ s \in made /\ i \in bitmap[s]
        /\ refcount[s] \in 1..NumObjects /\ find_buffer_slab(s)
    BY FreeFinds DEF Objects
  <1>3. /\ slab_free_object(s, i) /\ held' = held \ {o}
        /\ UNCHANGED <<made, lost, wild, ret>>
    BY <1>2 DEF mcache_free
  <1>4. /\ bitmap' = [bitmap EXCEPT ![s] = @ \ {i}]
        /\ refcount' = [refcount EXCEPT ![s] = @ - 1]
    BY <1>3 DEF slab_free_object
  <1>5. /\ lists' \in [Lists -> Seq(Slabs)] /\ LinkedOnce'
        /\ \A q \in Lists, t \in Slabs \ {s} :
              t \in Range(lists'[q]) <=> t \in Range(lists[q])
        /\ \A q \in Lists : s \in Range(lists'[q]) <=>
              q = IF refcount'[s] = 0 THEN "empty" ELSE "partial"
    BY <1>2, <1>3, FreeMoves
  <1>6. o = <<s, i>>
    BY <1>2 DEF Objects
  <1> HIDE DEF s, i
  <1>7. TypeOK'
    <2>1. bitmap' \in [Slabs -> SUBSET Indexes] /\ refcount' \in [Slabs -> Nat]
      BY <1>1, <1>2, <1>4
    <2>2. /\ held' \subseteq Objects /\ ret' \in Objects \cup {NULL}
          /\ made' \subseteq Slabs /\ lost' \subseteq Slabs
          /\ wild' \in BOOLEAN
      BY <1>1, <1>3 DEF TypeOK
    <2> QED
      BY <1>5, <2>1, <2>2 DEF TypeOK
  <1>8. Accounted'
    <2>1. ASSUME NEW x \in Objects
          PROVE  x \in held' <=> x[2] \in bitmap'[x[1]]
      <3>1. x \in held <=> x[2] \in bitmap[x[1]]
        BY <1>1 DEF Accounted
      <3>2. x[1] \in Slabs /\ (x = <<s, i>> <=> x[1] = s /\ x[2] = i)
        BY DEF Objects
      <3> QED
        BY <1>1, <1>3, <1>4, <1>6, <3>1, <3>2
    <2>2. held' = {x \in Objects : x[2] \in bitmap'[x[1]]}
      BY <1>7, <2>1 DEF TypeOK
    <2>3. \A t \in Slabs : refcount'[t] = Cardinality(bitmap'[t])
      <3>1. Cardinality(bitmap[s] \ {i}) = Cardinality(bitmap[s]) - 1
        BY <1>1, <1>2, BitmapSize
      <3> QED
        BY <1>1, <1>2, <1>4, <3>1 DEF Accounted
    <2> QED
      BY <2>2, <2>3 DEF Accounted
  <1>9. ListedByUse'
    <2>1. ASSUME NEW t \in Slabs \ {s}
          PROVE  refcount'[t] = refcount[t] /\ (t \in made' <=> t \in made)
      BY <1>1, <1>3, <1>4
    <2>2. /\ refcount'[s] = refcount[s] - 1 /\ s \in made'
          /\ refcount'[s] \in 0..NumObjects - 1
      BY <1>1, <1>2, <1>3, <1>4
    <2>3. ASSUME NEW t \in Slabs \ {s}
          PROVE  /\ t \in Range(lists'["empty"]) <=>
                        t \in made' /\ refcount'[t] = 0
                 /\ t \in Range(lists'["partial"]) <=>
                        t \in made' /\ refcount'[t] \in 1..NumObjects - 1
                 /\ t \in Range(lists'["full"]) <=>
                        t \in made' /\ refcount'[t] = NumObjects
      BY <1>1, <1>5, <2>1 DEF ListedByUse, Lists
    <2>4. /\ s \in Range(lists'["empty"]) <=> s \in made' /\ refcount'[s] = 0
          /\ s \in Range(lists'["partial"]) <=>
                 s \in made' /\ refcount'[s] \in 1..NumObjects - 1
          /\ s \in Range(lists'["full"]) <=>
                 s \in made' /\ refcount'[s] = NumObjects
      <3>1. /\ s \in Range(lists'["empty"]) <=> refcount'[s] = 0
            /\ s \in Range(lists'["partial"]) <=> refcount'[s] # 0
            /\ s \notin Range(lists'["full"])
        BY <1>5 DEF Lists
      <3>2. \A n \in 0..NumObjects - 1 :
                (n # 0 <=> n \in 1..NumObjects - 1) /\ n # NumObjects
        BY McacheAssumption
      <3> QED
        BY <2>2, <3>1, <3>2
    <2> QED
      BY <2>3, <2>4 DEF ListedByUse
  <1>10. Untouched'
    BY <1>1, <1>2, <1>3, <1>4 DEF Untouched
  <1> QED
    BY <1>3, <1>5, <1>7, <1>8, <1>9, <1>10 DEF CacheInv, known

-----------------------------------------------------------------------------
(* Theorems *)

\* The cache at the start.
LEMMA CacheInit == Init => CacheInv
  <1> SUFFICES ASSUME Init PROVE CacheInv
    OBVIOUS
  <1>1. /\ lists = [q \in Lists |-> <<>>] /\ bitmap = [s \in Slabs |-> {}]
        /\ refcount = [s \in Slabs |-> 0]
        /\ made = {} /\ lost = {} /\ wild = FALSE /\ held = {} /\ ret = NULL
    BY DEF Init
  <1>2. TypeOK
    <2>1. wild \in BOOLEAN
      BY <1>1, Zenon
    <2> QED
      BY <1>1, <2>1 DEF TypeOK
  <1>3. \A q \in Lists : Range(lists[q]) = {} /\ IsInjective(lists[q])
    BY <1>1 DEF Range, IsInjective
  <1>4. ListedByUse
    BY <1>1, <1>3 DEF ListedByUse, Lists
  <1>5. Accounted
    <2>1. \A o \in Objects : o[1] \in Slabs
      BY DEF Objects
    <2> QED
      BY <1>1, <2>1, FS_EmptySet DEF Accounted
  <1> QED
    BY <1>1, <1>2, <1>3, <1>4, <1>5 DEF CacheInv, LinkedOnce, Untouched

\* Every step keeps the invariant.
LEMMA CacheStep == CacheInv /\ [Next]_vars => CacheInv'
  <1> SUFFICES ASSUME CacheInv, [Next]_vars PROVE CacheInv'
    OBVIOUS
  <1>1. CASE AllocPartial
    BY <1>1, PartialStep
  <1>2. CASE AllocEmpty
    BY <1>2, EmptyStep
  <1>3. CASE AllocNew
    BY <1>3, NewStep
  <1>4. CASE AllocFails
    BY <1>4, FailStep
  <1>5. ASSUME NEW o \in held, mcache_free(o) PROVE CacheInv'
    BY <1>5, FreeStep
  <1>6. CASE AllocWild
    BY <1>6 DEF AllocWild, CacheInv, TypeOK, LinkedOnce, Untouched,
                ListedByUse, Accounted
  <1>7. CASE UNCHANGED vars
    BY <1>7 DEF vars, CacheInv, TypeOK, LinkedOnce, Untouched, ListedByUse,
                Accounted
  <1> QED
    BY <1>1, <1>2, <1>3, <1>4, <1>5, <1>6, <1>7 DEF Next

(* Every slab is on the list that says how full it is. *)
THEOREM SlabsListed == Spec => []ListedByUse
  <1>1. CacheInv => ListedByUse
    BY DEF CacheInv
  <1> QED
    BY <1>1, CacheInit, CacheStep, PTL DEF Spec

(* No object is handed out twice, lost by a release, or miscounted. *)
THEOREM ObjectsAccounted == Spec => []Accounted
  <1>1. CacheInv => Accounted
    BY DEF CacheInv
  <1> QED
    BY <1>1, CacheInit, CacheStep, PTL DEF Spec

(* The slab allocator implements ObjectCache: an allocation returns an     *)
(* object nobody holds, and takes pages or fails only when every object of *)
(* the slabs it has is held.                                               *)
THEOREM McacheImplements == Spec => Implements
  <1>1. Init => Cache!Init
    BY DEF Init, Cache!Init
  <1>2. CacheInv /\ [Next]_vars => [Cache!Next]_<<held, known, ret>>
    <2> SUFFICES ASSUME CacheInv, [Next]_vars
                 PROVE  [Cache!Next]_<<held, known, ret>>
      OBVIOUS
    <2>1. CacheAlloc => Cache!Next
      BY DEF CacheAlloc, known, Cache!Next, Cache!Alloc
    <2>2. CASE AllocPartial
      BY <2>1, <2>2, PartialStep
    <2>3. CASE AllocEmpty
      BY <2>1, <2>3, EmptyStep
    <2>4. CASE AllocNew
      BY <2>1, <2>4, NewStep
    <2>5. CASE AllocFails
      BY <2>5, FailStep DEF known, Cache!Next, Cache!Fail
    <2>6. ASSUME NEW o \in held, mcache_free(o) PROVE Cache!Next
      BY <2>6, FreeStep DEF known, Cache!Next, Cache!Free
    <2>7. CASE AllocWild
      BY <2>7 DEF AllocWild, known
    <2>8. CASE UNCHANGED vars
      BY <2>8 DEF vars, known
    <2> QED
      BY <2>2, <2>3, <2>4, <2>5, <2>6, <2>7, <2>8 DEF Next
  <1> QED
    BY <1>1, <1>2, CacheInit, CacheStep, PTL
       DEF Spec, Implements, Cache!Spec, known

=============================================================================
