------------------------------ MODULE Mcache ------------------------------
(***************************************************************************)
(* The slab allocator (kernel/mcache.c): one cache, whose slabs of         *)
(* NumObjects objects each are kept on three lists by how full they are.   *)
(* Allocation and release run under the cache's spinlock from beginning to *)
(* end, so each is one step.  Its clients release what they hold.          *)
(***************************************************************************)
EXTENDS TaskLists, FiniteSets

CONSTANTS
    Slabs,          \* bound: the slabs the page allocator has memory for
    NumObjects,     \* objects of a slab, 5 in C
    NULL

Lists == {"empty", "partial", "full"}
Indexes == 0..NumObjects - 1
Objects == Slabs \X Indexes

ASSUME McacheAssumption ==
    /\ NumObjects \in Nat \ {0}
    /\ NULL \notin Objects

VARIABLES
    lists,      \* the slabs on each list
    bitmap,     \* slab->bitmap: the objects marked as allocated
    refcount,   \* slab->refcount
    made,       \* the slabs that exist
    lost,       \* slabs whose pages leaked, for want of a struct mcache_slab
    wild,       \* a slab was made of the address page_alloc turns NULL into
    held,       \* ghost: the objects the clients hold
    ret         \* ghost: what the last mcache_alloc returned

vars == <<lists, bitmap, refcount, made, lost, wild, held, ret>>

TypeOK ==
    /\ lists \in [Lists -> Seq(Slabs)]
    /\ bitmap \in [Slabs -> SUBSET Indexes]
    /\ refcount \in [Slabs -> Nat]
    /\ made \subseteq Slabs /\ lost \subseteq Slabs /\ wild \in BOOLEAN
    /\ held \subseteq Objects
    /\ ret \in Objects \cup {NULL}

-----------------------------------------------------------------------------
(* Helpers *)

\* list_del, from whichever list, then list_add
MoveSlab(l, s, q) ==
    [r \in Lists |-> IF r = q THEN Append(Unlink(l[r], s), s)
                     ELSE Unlink(l[r], s)]

(* slab_alloc_object: the first object whose bit is clear.  A slab without *)
(* one would be moved to the full list and the call would return NULL.     *)
slab_alloc_object(l, s) ==
    LET i == CHOOSE j \in Indexes \ bitmap[s] :
                 \A k \in Indexes \ bitmap[s] : j <= k
        some == Indexes \ bitmap[s] # {}
    IN /\ bitmap' = IF some THEN [bitmap EXCEPT ![s] = @ \cup {i}] ELSE bitmap
       /\ refcount' = IF some THEN [refcount EXCEPT ![s] = @ + 1]
                      ELSE refcount
       /\ ret' = IF some THEN <<s, i>> ELSE NULL
       /\ held' = IF some THEN held \cup {ret'} ELSE held
       /\ lists' = IF refcount'[s] = NumObjects THEN MoveSlab(l, s, "full")
                   ELSE l

-----------------------------------------------------------------------------
(* mcache_alloc, by where the slab comes from *)

AllocPartial ==
    /\ lists["partial"] # <<>>
    /\ slab_alloc_object(lists, Head(lists["partial"]))
    /\ UNCHANGED <<made, lost, wild>>

\* mcache_move_empty_slab_to_partial_list
AllocEmpty ==
    /\ lists["partial"] = <<>> /\ lists["empty"] # <<>>
    /\ LET s == Head(lists["empty"])
       IN slab_alloc_object(MoveSlab(lists, s, "partial"), s)
    /\ UNCHANGED <<made, lost, wild>>

AllocNew ==
    /\ lists["partial"] = <<>> /\ lists["empty"] = <<>>
    /\ \E s \in Slabs \ (made \cup lost) :
         /\ made' = made \cup {s}
         /\ slab_alloc_object(MoveSlab(lists, s, "partial"), s)
    /\ UNCHANGED <<lost, wild>>

\* Mutation: the empty list is not looked at.
FailsWithoutPartial ==
    /\ lists["partial"] = <<>>
    /\ ret' = NULL /\ UNCHANGED <<lists, bitmap, refcount, made, lost, wild, held>>

(* kzalloc fails after page_alloc and the pages are lost, or page_alloc    *)
(* has failed before it (AllocWild) and there are none to lose.            *)
AllocFails ==
    /\ lists["partial"] = <<>> /\ lists["empty"] = <<>>
    /\ ret' = NULL
    /\ \/ \E s \in Slabs \ (made \cup lost) : lost' = lost \cup {s}
       \/ UNCHANGED lost
    /\ UNCHANGED <<lists, bitmap, refcount, made, wild, held>>

(* page_alloc fails: it returns the address of a buffer header before      *)
(* NULL, so the test for NULL does not see it.  When kzalloc succeeds, a   *)
(* slab is made of it: what the constructor and the clients then write to  *)
(* is not memory, and the model stops.                                     *)
AllocWild ==
    /\ lists["partial"] = <<>> /\ lists["empty"] = <<>>
    /\ wild' = TRUE
    /\ UNCHANGED <<lists, bitmap, refcount, made, lost, held, ret>>

-----------------------------------------------------------------------------
(* mcache_free *)

\* Mutation: full slabs are not searched.
FindPartial(s) == s \in Range(lists["partial"])

\* find_buffer_slab: a slab on the empty list is not found.
find_buffer_slab(s) == s \in Range(lists["partial"]) \cup Range(lists["full"])

\* Mutation: a slab stays partial once it is.
FreeStaysPartial(s, i) ==
    /\ bitmap' = [bitmap EXCEPT ![s] = @ \ {i}]
    /\ refcount' = [refcount EXCEPT ![s] = @ - 1]
    /\ lists' = MoveSlab(lists, s, "partial")

slab_free_object(s, i) ==
    /\ bitmap' = [bitmap EXCEPT ![s] = @ \ {i}]
    /\ refcount' = [refcount EXCEPT ![s] = @ - 1]
    /\ lists' = IF refcount'[s] = 0
                THEN MoveSlab(MoveSlab(lists, s, "partial"), s, "empty")
                ELSE MoveSlab(lists, s, "partial")

mcache_free(o) ==
    /\ held' = held \ {o}
    /\ IF find_buffer_slab(o[1]) THEN slab_free_object(o[1], o[2])
       ELSE UNCHANGED <<bitmap, refcount, lists>>
    /\ UNCHANGED <<made, lost, wild, ret>>

-----------------------------------------------------------------------------

\* mcache_create
Init ==
    /\ lists = [q \in Lists |-> <<>>]
    /\ bitmap = [s \in Slabs |-> {}] /\ refcount = [s \in Slabs |-> 0]
    /\ made = {} /\ lost = {} /\ wild = FALSE /\ held = {} /\ ret = NULL

Next ==
    /\ ~wild
    /\ \/ AllocPartial \/ AllocEmpty \/ AllocNew \/ AllocFails \/ AllocWild
       \/ \E o \in held : mcache_free(o)

Spec == Init /\ [][Next]_vars

-----------------------------------------------------------------------------
(* Properties *)

(* A slab is on exactly one list, and on the one that says how full it is: *)
(* otherwise mcache_free would not find it, or mcache_alloc would miss its *)
(* free objects.                                                           *)
ListedByUse ==
    \A s \in Slabs :
        /\ s \in Range(lists["empty"]) <=> s \in made /\ refcount[s] = 0
        /\ s \in Range(lists["partial"]) <=>
               s \in made /\ refcount[s] \in 1..NumObjects - 1
        /\ s \in Range(lists["full"]) <=>
               s \in made /\ refcount[s] = NumObjects

(* Nothing is lost or shared: the bits set are those of the objects that   *)
(* clients hold, and a slab's count is the number of its bits.             *)
Accounted ==
    /\ held = {o \in Objects : o[2] \in bitmap[o[1]]}
    /\ \A s \in Slabs : refcount[s] = Cardinality(bitmap[s])

Cache == INSTANCE ObjectCache WITH known <- made \X Indexes

(* The cache keeps its promise to its clients (ObjectCache). *)
Implements == Cache!Spec

=============================================================================
