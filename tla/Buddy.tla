-------------------------------- MODULE Buddy --------------------------------
(***************************************************************************)
(* The page allocator (kernel/mm.c): the memory regions registered at      *)
(* boot, the lists of free blocks of each order, and the tasks and         *)
(* interrupt handlers that allocate and free blocks.                       *)
(*                                                                         *)
(* Memory is counted in units of the header, struct mm_buffer.  A header   *)
(* that is on a list, or in the hands of a client of kmalloc, is what the  *)
(* allocator knows of the block: its order and its region.  The section    *)
(* under mm_lock is one step, each atomic_add is another.                  *)
(***************************************************************************)
EXTENDS TaskLists, FiniteSetsExt

CONSTANTS
    Tasks,
    Sizes,          \* sizes asked of kmalloc, without the header
    PageOrders,     \* orders asked of page_alloc
    Flags,          \* sets of flags asked for
    DMA,            \* MM_DMA
    SHeap, Eor,     \* _sheap and _eor, the memory mm_init divides
    HeapFlags,      \* the flags mm_init is called with
    BoardRegions,   \* the regions the board adds itself, in their order
    PAGE_ORDER,     \* of a page, and MIN_REGION_ORDER
    MAX_ADDRESSABLE_MEM_ORDER,
    NULL,
    Wild,           \* the pointer page_alloc makes of NULL
    MaxUsed         \* bound: what mm_usage.used may count

MaxRegions == 10    \* ARRAY_SIZE(stm32_mm_regions)
Header == 1         \* sizeof(struct mm_buffer)

ASSUME BuddyAssumption ==
    /\ SHeap \in Nat /\ Eor \in Nat /\ SHeap < Eor
    /\ PAGE_ORDER \in Nat /\ MAX_ADDRESSABLE_MEM_ORDER \in Nat
    /\ MaxUsed \in Nat
    /\ Eor < 2^MAX_ADDRESSABLE_MEM_ORDER
    /\ Sizes \subseteq Nat /\ PageOrders \subseteq Nat
    /\ NULL \notin Nat /\ Wild \notin Nat
    \* Requests are sizes of 32 bits that are so with their header too: a
    \* larger one wraps in kmalloc's size += sizeof(*buffer) (mm.c:232) and
    \* is served a block smaller than a header.
    /\ \A s \in Sizes : s + Header < 2^(MAX_ADDRESSABLE_MEM_ORDER + 1)
    /\ \A p \in PageOrders : p + PAGE_ORDER <= MAX_ADDRESSABLE_MEM_ORDER
    /\ HeapFlags \subseteq UNION Flags
    /\ BoardRegions \in Seq([start : Nat, order : Nat, flags : SUBSET UNION Flags])
    /\ \A i \in DOMAIN BoardRegions :
         LET r == BoardRegions[i]
         IN  r.order < MAX_ADDRESSABLE_MEM_ORDER /\ r.start % 2^r.order = 0
    \* A null pointer is no answer of a call that failed.
    /\ NULL \notin [order : 0..(MAX_ADDRESSABLE_MEM_ORDER + 1),
                    flags : Flags \cup {{}}, addr : {Wild}]

VARIABLES
    mm_available,   \* mm_init's: memory it has not given to a region
    booting,        \* "init", "board" or "done"
    regions,        \* mm_region_list
    mm_bucket,      \* the free blocks of each order, by address
    region,         \* buffer->region: the index of each header's region
    held,           \* the blocks clients hold: <<address, order>>
    pages,          \* those that page_alloc handed out, headers overwritten
    total, used,    \* mm_usage
    pc,             \* each task's place
    req,            \* ... and request: its order and flags
    blk,            \* ... and the block it frees, or reallocates
    answer          \* the last request to end, and what it returned

boot == <<mm_available, booting, regions, total>>
task == <<pc, req, blk>>
vars == <<boot, mm_bucket, region, held, pages, used, task, answer>>

AllOrders == 0..MAX_ADDRESSABLE_MEM_ORDER
None == <<>>        \* no block
Idle == "idle"

TypeOK ==
    /\ mm_available \in Nat /\ booting \in {"init", "board", "done"}
    /\ \A i \in DOMAIN regions :
         regions[i] \in [start : Nat, order : AllOrders, flags : SUBSET UNION Flags]
    /\ mm_bucket \in [AllOrders -> Seq(Nat)]
    /\ \A a \in DOMAIN region : region[a] \in DOMAIN regions
    /\ held \subseteq Nat \X AllOrders /\ pages \subseteq held
    /\ total \in Nat /\ used \in Int
    /\ pc \in [Tasks -> {Idle, "alloc", "page", "uncount", "free"}]
    /\ \A t \in Tasks : blk[t] = None \/ blk[t] \in Nat \X AllOrders
    /\ answer # NULL => answer.addr \in Nat \cup {NULL, Wild}

-----------------------------------------------------------------------------
(* Sizes and orders *)

order_to_size(o) == 2^o

\* The highest bit of x.
find_msb(x) ==
    CHOOSE i \in 0..x : order_to_size(i) <= x /\ x < order_to_size(i + 1)

\* The order of the smallest block of that size.
size_to_order(s) ==
    IF s = order_to_size(find_msb(s)) THEN find_msb(s) ELSE find_msb(s) + 1

Units(a, o) == a..(a + order_to_size(o) - 1)

-----------------------------------------------------------------------------
(* Boot *)

(* mm_add_region: the whole region becomes one free block.  (Its test that *)
(* the size is a power of two is a size's order here.)                     *)
mm_add_region(r) ==
    /\ total' = total + order_to_size(r.order)
    /\ regions' = Append(regions, r)
    /\ region' = [a \in DOMAIN region \cup {r.start} |->
                    IF a = r.start THEN Len(regions) + 1 ELSE region[a]]
    /\ mm_bucket' = [mm_bucket EXCEPT ![r.order] = Append(@, r.start)]
    /\ UNCHANGED <<held, pages, used, task, answer>>

\* Mutation: the start is rounded down.
RegionBelow(o) == SHeap - (SHeap % order_to_size(o))

\* mm_start, rounded up to a multiple of the size of a region.
RegionStart(o) ==
    IF SHeap % order_to_size(o) = 0 THEN SHeap
    ELSE SHeap - (SHeap % order_to_size(o)) + order_to_size(o)

\* The orders of the regions that mm_init's inner loop would accept.
Fits ==
    IF mm_available = 0 THEN {}
    ELSE {o \in PAGE_ORDER..find_msb(mm_available) :
            RegionStart(o) + order_to_size(o) <= Eor}

(* One iteration of mm_init's loop over its table.                         *)
mm_init ==
    /\ booting = "init"
    /\ IF Fits = {} \/ Len(regions) = MaxRegions
       THEN /\ booting' = "board"
            /\ UNCHANGED <<mm_available, regions, total, mm_bucket, region,
                           held, pages, used, task, answer>>
       ELSE LET o == Max(Fits)
            IN  /\ mm_add_region([start |-> RegionStart(o), order |-> o,
                                  flags |-> HeapFlags])
                /\ mm_available' = mm_available - order_to_size(o)
                /\ UNCHANGED booting

\* The regions of the board that are on the list, by their place.
Registered == {j \in DOMAIN regions : regions[j] \in Range(BoardRegions)}

(* machine_init adds the regions of its own.                               *)
machine_init(i) ==
    /\ booting = "board"
    /\ i = Cardinality(Registered) + 1
    /\ IF i > Len(BoardRegions)
       THEN /\ booting' = "done"
            /\ UNCHANGED <<mm_available, regions, total, mm_bucket, region,
                           held, pages, used, task, answer>>
       ELSE mm_add_region(BoardRegions[i]) /\ UNCHANGED <<mm_available, booting>>

-----------------------------------------------------------------------------
(* The lists of free blocks *)

Matches(a, f) == f \subseteq regions[region[a]].flags

(* find_buffer_in_bucket: the first block of that order whose region has   *)
(* the flags.                                                              *)
find_buffer_in_bucket(o, f) ==
    LET at == {i \in DOMAIN mm_bucket[o] : Matches(mm_bucket[o][i], f)}
    IN  IF at = {} THEN NULL ELSE mm_bucket[o][Min(at)]

\* The orders from o up that have a block for a request.
Sources(o, f) ==
    {k \in o..MAX_ADDRESSABLE_MEM_ORDER : find_buffer_in_bucket(k, f) # NULL}

\* Mutation: the high half starts where the low half's buddy ends.
HighTooFar(a, k) == a + order_to_size(k + 1)

\* Where the high half of a block goes when it is split into order k.
HighHalf(a, k) == a + order_to_size(k)

(* get_buffer's find_buffer_in_bucket and fill_bucket, and the list_del of *)
(* kmalloc: the block comes from the smallest order that has one; on the   *)
(* way down each split leaves its high half at the end of that order's     *)
(* list.                                                                   *)
Take(k, o, a) ==
    /\ mm_bucket' = [j \in AllOrders |->
         IF j = k THEN Unlink(mm_bucket[k], a)
         ELSE IF j \in o..(k - 1) THEN Append(mm_bucket[j], HighHalf(a, j))
         ELSE mm_bucket[j]]
    /\ LET highs == {HighHalf(a, j) : j \in o..(k - 1)}
       IN  region' = [b \in DOMAIN region \cup highs |->
                        IF b \in highs THEN region[a] ELSE region[b]]

\* The flags get_buffer finds a block for: those asked for, or DMA instead.
Tried(o, f) ==
    IF Sources(o, f) = {} /\ DMA \notin f THEN {DMA} ELSE f

\* The block of order k that holds the unit at a.
Base(a, k) == a - (a % order_to_size(k))

\* Mutation: the buddy is always the block above.
BuddyAbove(a, k) == Base(a, k) + order_to_size(k)

\* Its buddy.
BuddyOf(a, k) ==
    IF (Base(a, k) \div order_to_size(k)) % 2 = 1
    THEN Base(a, k) - order_to_size(k)
    ELSE Base(a, k) + order_to_size(k)

\* Mutation: the regions of the two blocks are not compared.
MergesAny(a, k) == BuddyOf(a, k) \in Range(mm_bucket[k])

(* defragment goes on from order k: the buddy is free and of the same      *)
(* region.                                                                 *)
Merges(a, k) ==
    /\ BuddyOf(a, k) \in Range(mm_bucket[k])
    /\ region[BuddyOf(a, k)] = region[a]

(* list_add and defragment: the block grows as long as it merges, and ends *)
(* at the end of the list of the order it reaches.                         *)
defragment(a, o) ==
    LET top == Min({k \in o..MAX_ADDRESSABLE_MEM_ORDER : ~Merges(a, k)})
    IN  mm_bucket' = [j \in AllOrders |->
          IF j \in o..(top - 1) THEN Unlink(mm_bucket[j], BuddyOf(a, j))
          ELSE IF j = top THEN Append(mm_bucket[j], Base(a, j))
          ELSE mm_bucket[j]]

-----------------------------------------------------------------------------
(* Calls *)

\* What kmalloc, or page_alloc after it, returns when there is no block.
Failed(place) == IF place = "page" THEN Wild ELSE NULL

(* Up to the atomic_add: a request too large for any bucket is counted and *)
(* refused.                                                                *)
Request(t, o, f, place) ==
    /\ booting = "done" /\ pc[t] = Idle
    /\ used + order_to_size(o) <= MaxUsed
    /\ used' = used + order_to_size(o)
    /\ IF o > MAX_ADDRESSABLE_MEM_ORDER
       THEN /\ answer' = [order |-> o, flags |-> f, addr |-> Failed(place)]
            /\ UNCHANGED <<pc, req>>
       ELSE /\ pc' = [pc EXCEPT ![t] = place]
            /\ req' = [req EXCEPT ![t] = <<o, f>>]
            /\ UNCHANGED answer
    /\ UNCHANGED <<boot, mm_bucket, region, pages>>

kmalloc(t) ==
    /\ \E s \in Sizes \ {0}, f \in Flags :
         Request(t, size_to_order(s + Header), f, "alloc")
    /\ UNCHANGED <<held, blk>>

page_alloc(t) ==
    /\ \E p \in PageOrders, f \in Flags : Request(t, p + PAGE_ORDER, f, "page")
    /\ UNCHANGED <<held, blk>>

(* __wrap__realloc_r: the new block first; the old one goes with it.       *)
realloc(t) ==
    \E s \in Sizes \ {0}, b \in held \ pages :
      /\ Request(t, size_to_order(s + Header), {}, "alloc")
      /\ pc'[t] = "alloc"
      /\ held' = held \ {b}
      /\ blk' = [blk EXCEPT ![t] = b]

(* The section of kmalloc under mm_lock finds a block.                     *)
Served(t) ==
    /\ pc[t] \in {"alloc", "page"}
    /\ LET o == req[t][1]
           f == Tried(o, req[t][2])
           k == Min(Sources(o, f))
           a == find_buffer_in_bucket(k, f)
       IN  /\ Sources(o, f) # {}
           /\ Take(k, o, a)
           /\ held' = held \cup {<<a, o>>}
           /\ pages' = IF pc[t] = "page" THEN pages \cup {<<a, o>>} ELSE pages
           /\ answer' = [order |-> o, flags |-> req[t][2], addr |-> a]
    /\ pc' = [pc EXCEPT ![t] = IF blk[t] = None THEN Idle ELSE "uncount"]
    /\ req' = [req EXCEPT ![t] = None]
    /\ UNCHANGED <<boot, used, blk>>

(* ... or none.  A reallocation leaves its old block alone.                *)
Refused(t) ==
    /\ pc[t] \in {"alloc", "page"}
    /\ LET o == req[t][1]
       IN  /\ Sources(o, Tried(o, req[t][2])) = {}
           /\ answer' = [order |-> o, flags |-> req[t][2],
                         addr |-> Failed(pc[t])]
    /\ held' = held \cup ({blk[t]} \ {None})
    /\ blk' = [blk EXCEPT ![t] = None]
    /\ pc' = [pc EXCEPT ![t] = Idle]
    /\ req' = [req EXCEPT ![t] = None]
    /\ UNCHANGED <<boot, mm_bucket, region, pages, used>>

(* kfree up to its atomic_add, for a block its caller holds or the one     *)
(* that realloc has copied.                                                *)
kfree(t) ==
    /\ \/ /\ pc[t] = Idle
          /\ \E b \in held \ pages :
               /\ held' = held \ {b}
               /\ blk' = [blk EXCEPT ![t] = b]
       \/ pc[t] = "uncount" /\ UNCHANGED <<held, blk>>
    /\ used' = used - order_to_size(blk'[t][2])
    /\ pc' = [pc EXCEPT ![t] = "free"]
    /\ UNCHANGED <<boot, mm_bucket, region, pages, req, answer>>

\* The regions an address lies in.
RegionsOf(a) ==
    {i \in DOMAIN regions : a \in Units(regions[i].start, regions[i].order)}

(* page_free: the header is written again, with the first region that      *)
(* holds the address, before kfree.  A block that is in no region, or not  *)
(* inside it, is left alone.                                               *)
page_free(t) ==
    /\ pc[t] = Idle
    /\ \E b \in pages :
         LET i == Min(RegionsOf(b[1]))
         IN  /\ RegionsOf(b[1]) # {}
             /\ Units(b[1], b[2])
                  \subseteq Units(regions[i].start, regions[i].order)
             /\ region' = [region EXCEPT ![b[1]] = i]
             /\ held' = held \ {b}
             /\ pages' = pages \ {b}
             /\ blk' = [blk EXCEPT ![t] = b]
             /\ used' = used - order_to_size(b[2])
    /\ pc' = [pc EXCEPT ![t] = "free"]
    /\ UNCHANGED <<boot, mm_bucket, req, answer>>

\* The section of kfree under mm_lock.
Release(t) ==
    /\ pc[t] = "free"
    /\ defragment(blk[t][1], blk[t][2])
    /\ blk' = [blk EXCEPT ![t] = None]
    /\ pc' = [pc EXCEPT ![t] = Idle]
    /\ UNCHANGED <<boot, region, held, pages, used, req, answer>>

-----------------------------------------------------------------------------

Init ==
    /\ mm_available = Eor - SHeap /\ booting = "init"
    /\ regions = <<>> /\ region = <<>>
    /\ mm_bucket = [o \in AllOrders |-> <<>>]
    /\ held = {} /\ pages = {} /\ total = 0 /\ used = 0
    /\ pc = [t \in Tasks |-> Idle]
    /\ req = [t \in Tasks |-> None]
    /\ blk = [t \in Tasks |-> None]
    /\ answer = NULL

Boot == mm_init \/ \E i \in 1..(Len(BoardRegions) + 1) : machine_init(i)

Call(t) ==
    \/ kmalloc(t) \/ page_alloc(t) \/ realloc(t) \/ Served(t) \/ Refused(t)
    \/ kfree(t) \/ page_free(t) \/ Release(t)

Next == Boot \/ \E t \in Tasks : Call(t)

Spec == Init /\ [][Next]_vars

-----------------------------------------------------------------------------
(* Properties *)

\* The blocks that are free, and those that somebody still uses.
FreeBlocks == UNION {{<<a, o>> : a \in Range(mm_bucket[o])} : o \in AllOrders}
UsedBlocks == held \cup ({blk[t] : t \in Tasks} \ {None})

(* How a board may lay its memory out: the end of the memory is aligned to *)
(* the largest region mm_init can make, and its own regions share no       *)
(* memory with the heap or with each other.                                *)
LaidOut ==
    LET Own(i) == Units(BoardRegions[i].start, BoardRegions[i].order)
    IN  /\ Eor % order_to_size(find_msb(Eor - SHeap)) = 0
        /\ \A i \in DOMAIN BoardRegions :
             /\ Own(i) \cap (SHeap..(Eor - 1)) = {}
             /\ \A j \in DOMAIN BoardRegions : i # j => Own(i) \cap Own(j) = {}

(* No two registered regions share memory, although mm_init starts every   *)
(* search at the same address: it divides a heap that is laid out so.      *)
RegionsDisjoint ==
    \A i, j \in DOMAIN regions :
      i # j => Units(regions[i].start, regions[i].order)
                 \cap Units(regions[j].start, regions[j].order) = {}

\* The units of all regions.
Memory ==
    UNION {Units(regions[i].start, regions[i].order) : i \in DOMAIN regions}

(* Free blocks and blocks in use divide the regions: no unit is in two     *)
(* blocks or in none, no block lies across two regions, and every free     *)
(* block is on one list once, whatever splits and merges came before.      *)
Partition ==
    LET blocks == FreeBlocks \cup UsedBlocks
    IN  /\ \A b \in blocks, c \in blocks :
             b # c => Units(b[1], b[2]) \cap Units(c[1], c[2]) = {}
        /\ \A b \in blocks : \E i \in DOMAIN regions :
             Units(b[1], b[2]) \subseteq Units(regions[i].start, regions[i].order)
        /\ UNION {Units(b[1], b[2]) : b \in blocks} = Memory
        /\ Cardinality(Memory) = total
        /\ FreeBlocks \cap UsedBlocks = {}
        /\ \A o \in AllOrders : IsInjective(mm_bucket[o])

(* Every block that can merge has merged: the two halves of a block of one *)
(* region are never both free, so memory that was freed is available again *)
(* in the largest blocks possible.                                         *)
FullyMerged ==
    \A o \in AllOrders : \A a, b \in Range(mm_bucket[o]) :
      (a # b /\ region[a] = region[b])
        => a \div order_to_size(o + 1) # b \div order_to_size(o + 1)

(* mm_usage tells the memory in use, whenever no call is under way: what   *)
(* the shell's free command prints as total - used is free memory.         *)
UsageExact ==
    (booting = "done" /\ \A t \in Tasks : pc[t] = Idle)
      => total - used
           = FoldSet(LAMBDA b, n : n + order_to_size(b[2]), 0, FreeBlocks)

(* A call that fails returns NULL, which is what its callers test for.     *)
FailureIsNull == answer # NULL => answer.addr # Wild

\* What a caller learns: page_alloc's failure counts as one.
Answer ==
    IF answer # NULL /\ answer.addr = Wild THEN [answer EXCEPT !.addr = NULL]
    ELSE answer

H == INSTANCE Heap WITH
    memory <- Range(regions), held <- UsedBlocks, answer <- Answer,
    Orders <- 0..(MAX_ADDRESSABLE_MEM_ORDER + 1), Flags <- Flags \cup {{}}

(* The allocator keeps Heap's promise: it hands out only free memory that  *)
(* suits the request, and refuses only what no free range could serve.     *)
Implements == H!Spec

=============================================================================
