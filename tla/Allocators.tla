------------------------------- MODULE Allocators -------------------------------
(***************************************************************************)
(* PreferredSizeAllocator and SmallMemoryAllocator of common/memory, one   *)
(* of them used by one caller in any order; the classes have no lock.  An  *)
(* address is <<region, offset>>; a region is what one malloc returned,    *)
(* the pools are regions that are kept until the allocator is destroyed.   *)
(* malloc may also return nullptr.                                         *)
(***************************************************************************)
EXTENDS Integers, Sequences, SequencesExt, FiniteSets

CONSTANTS
    Regions,        \* what malloc may return
    NoRegion,       \* where nullptr is, or what is taken when malloc is not called
    BlockSizes,     \* the sizes that are allocated from a SmallMemoryAllocator
    PreferredSize, OtherSizes,
    PoolSize,       \* what the constructors are given
    SizeThreshold,
    MaxLive,        \* bound on the blocks in use
    MaxStack        \* bound on the blocks kept for later

\* A block has at least one element.
ASSUME AllocatorAssumption ==
    /\ BlockSizes \subseteq Nat \ {0}
    /\ PreferredSize \in Nat \ {0} /\ OtherSizes \subseteq Nat \ {0, PreferredSize}
    /\ PoolSize \in Nat /\ SizeThreshold \in Int
    /\ NoRegion \notin Regions

VARIABLES
    allocator,
    live,           \* [p, size, id]: blocks allocated and not deallocated; history
    freedOthers     \* blocks of another size than preferred that were freed; history

allocvars == <<allocator, live, freedOthers>>
-----------------------------------------------------------------------------
NullPtr == <<NoRegion, 0>>

\* What malloc may return: any region not in use, one used before included.
MallocFrom(regions, a) == (regions \ a.regions) \cup {NoRegion}

With(regions, region) == regions \cup ({region} \ {NoRegion})

\* Mutant of NewMemoryPool: the blocks of a pool overlap.
NewMemoryPoolDense(a, region) ==
    [a EXCEPT !.regions = With(@, region),
              !.stack = @ \o [k \in 1..a.poolSize \div a.preferredSize |-> <<region, k - 1>>]]

\* malloc's result is not looked at.
NewMemoryPool(a, region) ==
    [a EXCEPT !.regions = With(@, region),
              !.stack = @ \o [k \in 1..a.poolSize \div a.preferredSize |-> <<region, (k - 1) * a.preferredSize>>]]

NewPreferred(region, preferredSize, poolSize) ==
    NewMemoryPool([kind |-> "preferred", preferredSize |-> preferredSize,
                   poolSize |-> (poolSize \div preferredSize + 1) * preferredSize,
                   regions |-> {}, stack |-> <<>>], region)

PreferredMallocs(a, size) == size # a.preferredSize \/ a.stack = <<>>

\* What Allocate returns, and the allocator after that.
PreferredAllocate(a, size, region) ==
    IF size # a.preferredSize THEN [p |-> <<region, 0>>, a |-> [a EXCEPT !.regions = With(@, region)]]
    ELSE LET b == IF a.stack = <<>> THEN NewMemoryPool(a, region) ELSE a
         IN [p |-> Last(b.stack), a |-> [b EXCEPT !.stack = Front(b.stack)]]

\* A block of another size is given back to malloc, and then, as there is
\* no return, also kept for later.
PreferredDeallocate(a, p, size) ==
    LET b == IF size # a.preferredSize THEN [a EXCEPT !.regions = @ \ {p[1]}] ELSE a
    IN [b EXCEPT !.stack = Append(@, p)]
-----------------------------------------------------------------------------
NewSmall(poolSize, threshold) ==
    [kind |-> "small", poolSize |-> poolSize, threshold |-> threshold, regions |-> {}, pools |-> <<>>, pos |-> poolSize]

NeedsPool(a, size) == a.pos + size > a.poolSize

SmallMallocs(a, size) == size >= a.threshold \/ NeedsPool(a, size)

SmallAllocate(a, size, region) ==
    LET b == IF NeedsPool(a, size)
             THEN [a EXCEPT !.regions = With(@, region), !.pools = Append(@, region), !.pos = 0] ELSE a
    IN CASE size >= a.threshold -> [p |-> <<region, 0>>, a |-> [a EXCEPT !.regions = With(@, region)]]
         [] size < a.threshold /\ NeedsPool(a, size) /\ region = NoRegion -> [p |-> NullPtr, a |-> a]
         [] OTHER -> [p |-> <<Last(b.pools), b.pos>>, a |-> [b EXCEPT !.pos = @ + size]]

SmallDeallocate(a, p, size) == IF size >= a.threshold THEN [a EXCEPT !.regions = @ \ {p[1]}] ELSE a
-----------------------------------------------------------------------------
Is(kind) == allocator.kind = kind

AllocInit ==
    /\ allocator \in {NewSmall(PoolSize, SizeThreshold)}
                        \cup {NewPreferred(r, PreferredSize, PoolSize) : r \in Regions \cup {NoRegion}}
    /\ live = {}
    /\ freedOthers = {}

\* What malloc may return, if it is called.
RegionsFor(mallocs) == IF mallocs THEN MallocFrom(Regions, allocator) ELSE {NoRegion}

\* The least id that no block in use has.
IsFree(id) ==
    /\ \A b \in live : b.id # id
    /\ \A other \in 1..id - 1 : \E b \in live : b.id = other

\* The caller has a block, unless it is nullptr.
Hand(result, size) ==
    /\ allocator' = result.a
    /\ \E id \in 1..MaxLive :
          /\ IsFree(id)
          /\ live' = IF result.p = NullPtr THEN live
                     ELSE live \cup {[p |-> result.p, size |-> size, id |-> id]}
    /\ UNCHANGED freedOthers

PreferredAllocates ==
    /\ Is("preferred")
    /\ Cardinality(live) < MaxLive
    /\ \E size \in {PreferredSize} \cup OtherSizes :
       \E region \in RegionsFor(PreferredMallocs(allocator, size)) :
          Hand(PreferredAllocate(allocator, size, region), size)

SmallAllocates ==
    /\ Is("small")
    /\ Cardinality(live) < MaxLive
    /\ \E size \in BlockSizes :
       \E region \in RegionsFor(SmallMallocs(allocator, size)) :
          Hand(SmallAllocate(allocator, size, region), size)

\* The caller gives back what it got, with the size it asked for.
PreferredDeallocates ==
    /\ Is("preferred")
    /\ Len(allocator.stack) < MaxStack
    /\ \E b \in live :
          /\ allocator' = PreferredDeallocate(allocator, b.p, b.size)
          /\ live' = live \ {b}
          /\ freedOthers' = IF b.size = PreferredSize THEN freedOthers ELSE freedOthers \cup {b.p}

SmallDeallocates ==
    /\ Is("small")
    /\ \E b \in live :
          /\ allocator' = SmallDeallocate(allocator, b.p, b.size)
          /\ live' = live \ {b}
    /\ UNCHANGED freedOthers

AllocNext ==
    \/ PreferredAllocates \/ PreferredDeallocates
    \/ SmallAllocates \/ SmallDeallocates

AllocSpec == AllocInit /\ [][AllocNext]_allocvars
-----------------------------------------------------------------------------
(* The property.                                                           *)

Cells(b) == {<<b.p[1], b.p[2] + k>> : k \in 0..b.size - 1}

\* The size of the region the block is in.
RegionSize(b) ==
    IF (Is("preferred") /\ b.size = PreferredSize) \/ (Is("small") /\ b.size < SizeThreshold)
    THEN allocator.poolSize ELSE b.size

HandedOutFreed(b) == b.p \in freedOthers
FromNoPool(b) == Is("preferred") /\ b.p[1] = NoRegion
LargerThanPool(b) == Is("small") /\ b.size < SizeThreshold /\ b.size > PoolSize

\* What an allocator does not keep apart: an address that was given back to
\* a PreferredSizeAllocator as a block of another size, and so was freed,
\* and is handed out again (preferred_size_allocator.h:82-85); an address in
\* a pool of its that malloc did not give, nullptr plus the offset
\* (preferred_size_allocator.h:100-103); and a block larger than the pool of
\* a SmallMemoryAllocator, yet below its threshold, which runs over its end
\* (small_memory_allocator.h:65).
Unusable(b) == HandedOutFreed(b) \/ FromNoPool(b) \/ LargerThanPool(b)

\* All other blocks in use have no cell in common and lie in memory that
\* malloc has given, also when malloc fails in between.
BlocksApart ==
    \A b \in live :
        Unusable(b) \/
        /\ b.p[1] \in allocator.regions
        /\ b.p[2] + b.size <= RegionSize(b)
        /\ \A c \in live \ {b} : Unusable(c) \/ Cells(b) \cap Cells(c) = {}
=============================================================================
