----------------------------- MODULE AllocatorProofs -----------------------------
(***************************************************************************)
(* The blocks an allocator has handed out are apart, for every sequence of *)
(* calls, every size of the blocks and of the pools, wherever malloc finds *)
(* memory and however often it finds none.                                 *)
(***************************************************************************)
EXTENDS Allocators, TLAPS

Places == (Regions \cup {NoRegion}) \X Nat

BlockType == [p : Places, size : Nat \ {0}, id : 1..MaxLive]

Region(b) == b.p[1]

\* One of the two is before the other, in the same region.
Beside(b, c) == b.p[2] + b.size <= c.p[2] \/ c.p[2] + c.size <= b.p[2]

-----------------------------------------------------------------------------
(* The inductive invariant of a PreferredSizeAllocator.                    *)

PreferredType ==
    [kind : {"preferred"}, preferredSize : {PreferredSize},
     poolSize : {(PoolSize \div PreferredSize + 1) * PreferredSize},
     regions : SUBSET Regions, stack : Seq(Places)]

\* In memory malloc has given, and never freed as a block of another size.
Clean(p) == p \notin freedOthers /\ p[1] # NoRegion

Others == {b \in live : b.size # PreferredSize}
InUse  == {b \in live : b.size = PreferredSize /\ Clean(b.p)}
Kept   == {k \in 1..Len(allocator.stack) : Clean(allocator.stack[k])}

\* p is a block of one of the pools.
InPool(p) ==
    /\ p[1] \in allocator.regions
    /\ \A b \in Others : Region(b) # p[1]
    /\ \E m \in Nat : p[2] = m * PreferredSize
    /\ p[2] + PreferredSize <= allocator.poolSize

\* A block of another size is the only one in its region.
OthersAlone ==
    \A b \in Others :
        /\ Region(b) \in allocator.regions /\ b.p[2] = 0
        /\ \A c \in Others \ {b} : Region(b) # Region(c)

PoolBlocks ==
    /\ \A b \in InUse : InPool(b.p)
    /\ \A k \in Kept : InPool(allocator.stack[k])

\* No block is kept for later twice, kept while it is in use, or in use
\* twice.
KeptOnce ==
    /\ \A k, l \in Kept : k # l => allocator.stack[k] # allocator.stack[l]
    /\ \A k \in Kept, b \in InUse : allocator.stack[k] # b.p
    /\ \A b, c \in InUse : b # c => b.p # c.p

PreferredInv ==
    /\ allocator \in PreferredType
    /\ OthersAlone /\ PoolBlocks /\ KeptOnce

-----------------------------------------------------------------------------
(* The inductive invariant of a SmallMemoryAllocator.                      *)

SmallType ==
    [kind : {"small"}, poolSize : {PoolSize}, threshold : {SizeThreshold},
     regions : SUBSET Regions, pools : Seq(Regions), pos : Nat]

Large == {b \in live : b.size >= SizeThreshold}
Small == live \ Large

IsPool(r) == \E k \in 1..Len(allocator.pools) : allocator.pools[k] = r

\* There is a pool before the first block is taken from one.
PoolFirst == allocator.pools = <<>> => allocator.pos = PoolSize

PoolsKept == \A r \in Regions : IsPool(r) => r \in allocator.regions

\* A large block is the only one in its region, and no pool.
LargeAlone ==
    \A b \in Large :
        /\ Region(b) \in allocator.regions /\ b.p[2] = 0
        /\ ~IsPool(Region(b))
        /\ \A c \in Large \ {b} : Region(b) # Region(c)

\* Blocks are taken from a pool one after the other, up to pos in the last.
SmallInPool ==
    \A b \in Small :
        /\ IsPool(Region(b))
        /\ LargerThanPool(b) \/ b.p[2] + b.size <= PoolSize
        /\ Region(b) = Last(allocator.pools) => b.p[2] + b.size <= allocator.pos

SmallBeside == \A b \in Small : \A c \in Small \ {b} : Region(b) = Region(c) => Beside(b, c)

SmallInv ==
    /\ allocator \in SmallType
    /\ PoolFirst /\ PoolsKept /\ LargeAlone /\ SmallInPool /\ SmallBeside

TypeInv ==
    /\ live \subseteq BlockType
    /\ freedOthers \subseteq Places
    /\ allocator \in PreferredType \cup SmallType

PreferredIInv == TypeInv /\ PreferredInv
SmallIInv     == TypeInv /\ SmallInv

IInv == PreferredIInv \/ SmallIInv

-----------------------------------------------------------------------------
(* Arithmetic of the blocks of a pool.                                     *)

LEMMA Dividing ==
    ASSUME NEW s \in Nat, NEW d \in Nat \ {0}
    PROVE  s \div d \in Nat /\ (s \div d) * d <= s
BY SMT

LEMMA Blockwise ==
    ASSUME NEW k \in Nat, NEW l \in Nat, k < l, NEW d \in Nat
    PROVE  k * d + d <= l * d
<1>1. PICK e \in Nat : l = k + 1 + e
  BY l - k - 1 \in Nat, l = k + 1 + (l - k - 1)
<1>2. l * d = k * d + d + e * d
  BY <1>1, SMT
<1>3. e * d >= 0
  BY SMT
<1> QED
  BY <1>2, <1>3, k * d \in Int, e * d \in Int, l * d \in Int

\* The size of the pools is the size of so many blocks.
PoolBytes == (PoolSize \div PreferredSize + 1) * PreferredSize
BlocksIn  == PoolBytes \div PreferredSize

\* Every block of a pool ends in the pool, and there is one.
LEMMA BlocksFit ==
    /\ PoolBytes \in Nat
    /\ BlocksIn \in Nat \ {0}
    /\ \A k \in 1..BlocksIn : (k - 1) * PreferredSize + PreferredSize <= PoolBytes
<1> DEFINE m == PoolSize \div PreferredSize
<1>1. m \in Nat
  BY Dividing, AllocatorAssumption
<1>2. PoolBytes \in Nat /\ PoolBytes = (m + 1) * PreferredSize
  BY <1>1, AllocatorAssumption DEF PoolBytes
<1>3. BlocksIn \in Nat /\ BlocksIn * PreferredSize <= PoolBytes
  BY <1>2, Dividing, AllocatorAssumption DEF BlocksIn
<1>4. BlocksIn # 0
  <2>1. PoolBytes >= PreferredSize
    <3>1. 0 * PreferredSize = 0
      BY AllocatorAssumption
    <3> QED
      BY <1>1, <1>2, <3>1, Blockwise, AllocatorAssumption
  <2> QED
    BY <2>1, <1>2, AllocatorAssumption DEF BlocksIn
<1>5. ASSUME NEW k \in 1..BlocksIn
      PROVE  (k - 1) * PreferredSize + PreferredSize <= PoolBytes
  <2>1. k - 1 \in Nat /\ k - 1 < BlocksIn
    BY <1>3
  <2>2. (k - 1) * PreferredSize + PreferredSize <= BlocksIn * PreferredSize
    BY <2>1, <1>3, Blockwise, AllocatorAssumption
  <2> QED
    BY <2>1, <2>2, <1>2, <1>3, AllocatorAssumption, (k - 1) * PreferredSize \in Int, BlocksIn * PreferredSize \in Int
<1> QED
  BY <1>2, <1>3, <1>4, <1>5


-----------------------------------------------------------------------------
(* What a step of a PreferredSizeAllocator does.                           *)

\* The blocks of a new pool.
Blocks(region) == [k \in 1..BlocksIn |-> <<region, (k - 1) * PreferredSize>>]

Block(p, size, id) == [p |-> p, size |-> size, id |-> id]

\* malloc has failed, and the caller has nothing.
AllocatesNothing == allocator' = allocator /\ live' = live /\ freedOthers' = freedOthers

AllocatesOther(size, r, id) ==
    /\ size \in OtherSizes /\ r \in Regions \ allocator.regions /\ id \in 1..MaxLive
    /\ allocator' = [allocator EXCEPT !.regions = @ \cup {r}]
    /\ live' = live \cup {Block(<<r, 0>>, size, id)}
    /\ freedOthers' = freedOthers

\* The caller has p, or p is nullptr.
HandedOut(p, id) ==
    /\ id \in 1..MaxLive
    /\ live' = IF p = NullPtr THEN live ELSE live \cup {Block(p, PreferredSize, id)}
    /\ freedOthers' = freedOthers

AllocatesKept(id) ==
    /\ allocator.stack # <<>>
    /\ allocator' = [allocator EXCEPT !.stack = Front(allocator.stack)]
    /\ HandedOut(Last(allocator.stack), id)

AllocatesFirst(r, id) ==
    /\ allocator.stack = <<>> /\ r \in MallocFrom(Regions, allocator)
    /\ allocator' = [allocator EXCEPT !.regions = With(@, r), !.stack = Front(Blocks(r))]
    /\ HandedOut(Last(Blocks(r)), id)

GivesBack(b) ==
    /\ b \in live /\ b.size = PreferredSize
    /\ allocator' = [allocator EXCEPT !.stack = Append(@, b.p)]
    /\ live' = live \ {b}
    /\ freedOthers' = freedOthers

GivesBackOther(b) ==
    /\ b \in live /\ b.size # PreferredSize
    /\ allocator' = [allocator EXCEPT !.regions = @ \ {b.p[1]}, !.stack = Append(@, b.p)]
    /\ live' = live \ {b}
    /\ freedOthers' = freedOthers \cup {b.p}

LEMMA BlocksOf ==
    ASSUME NEW r \in Regions \cup {NoRegion}
    PROVE  /\ Blocks(r) \in Seq(Places)
           /\ Len(Blocks(r)) = BlocksIn
           /\ \A k \in 1..BlocksIn : Blocks(r)[k] = <<r, (k - 1) * PreferredSize>>
<1>1. \A k \in 1..BlocksIn : (k - 1) * PreferredSize \in Nat
  BY BlocksFit, AllocatorAssumption
<1> QED
  BY <1>1, BlocksFit DEF Blocks, Places

LEMMA FirstPool ==
    ASSUME NEW a, NEW stack, a.stack = stack, a.poolSize = PoolBytes, a.preferredSize = PreferredSize,
           NEW r, a = [kind |-> a.kind, preferredSize |-> a.preferredSize, poolSize |-> a.poolSize,
                       regions |-> a.regions, stack |-> a.stack],
           stack = <<>>
    PROVE  NewMemoryPool(a, r) = [a EXCEPT !.regions = With(@, r), !.stack = Blocks(r)]
<1>1. Blocks(r) = [k \in 1..a.poolSize \div a.preferredSize |-> <<r, (k - 1) * a.preferredSize>>]
  BY DEF Blocks, BlocksIn
<1>2. Blocks(r) \in Seq(Range(Blocks(r)))
  BY BlocksFit DEF Blocks, Range
<1>3. <<>> \o Blocks(r) = Blocks(r)
  BY <1>2
<1> QED
  BY <1>1, <1>3 DEF NewMemoryPool

LEMMA Handing ==
    ASSUME NEW p, NEW a, NEW size, Hand([p |-> p, a |-> a], size)
    PROVE  \E id \in 1..MaxLive :
              /\ allocator' = a
              /\ live' = IF p = NullPtr THEN live ELSE live \cup {Block(p, size, id)}
              /\ freedOthers' = freedOthers
<1> DEFINE result == [p |-> p, a |-> a]
<1>1. result.p = p /\ result.a = a
  OBVIOUS
<1> HIDE DEF result
<1> QED
  BY <1>1 DEF Hand, Block, result

LEMMA PreferredSteps ==
    ASSUME allocator \in PreferredType, live \subseteq BlockType, AllocNext
    PROVE  \/ AllocatesNothing
           \/ \E size, r, id : AllocatesOther(size, r, id)
           \/ \E id : AllocatesKept(id)
           \/ \E r, id : AllocatesFirst(r, id)
           \/ \E b : GivesBack(b)
           \/ \E b : GivesBackOther(b)
<1>1. allocator.kind = "preferred"
  BY DEF PreferredType
<1>2. CASE PreferredAllocates
  <2>1. PICK size \in {PreferredSize} \cup OtherSizes :
           \E region \in RegionsFor(PreferredMallocs(allocator, size)) :
              Hand(PreferredAllocate(allocator, size, region), size)
    BY <1>2 DEF PreferredAllocates
  <2>2. PICK region \in RegionsFor(PreferredMallocs(allocator, size)) :
              Hand(PreferredAllocate(allocator, size, region), size)
    BY <2>1
  <2>3. PreferredMallocs(allocator, size) => region \in MallocFrom(Regions, allocator)
    BY DEF RegionsFor
  <2>4. CASE size # PreferredSize
    <3>1. region \in MallocFrom(Regions, allocator)
      BY <2>3, <2>4 DEF PreferredMallocs, PreferredType
    <3>2. PICK id \in 1..MaxLive :
             /\ allocator' = [allocator EXCEPT !.regions = With(@, region)]
             /\ live' = IF <<region, 0>> = NullPtr THEN live
                        ELSE live \cup {Block(<<region, 0>>, size, id)}
             /\ freedOthers' = freedOthers
      BY <2>2, <2>4 DEF Hand, PreferredAllocate, PreferredType, Block
    <3>3. CASE region = NoRegion
      <4>1. With(allocator.regions, region) = allocator.regions
        BY <3>3 DEF With
      <4>2. AllocatesNothing
        BY <3>2, <3>3, <4>1 DEF AllocatesNothing, NullPtr, PreferredType
      <4> QED
        BY <4>2
    <3>4. CASE region # NoRegion
      <4>1. With(allocator.regions, region) = allocator.regions \cup {region}
        BY <3>4 DEF With
      <4>2. AllocatesOther(size, region, id)
        BY <2>4, <3>1, <3>2, <3>4, <4>1 DEF AllocatesOther, NullPtr, MallocFrom, PreferredType
      <4> QED
        BY <4>2
    <3> QED
      BY <3>3, <3>4
  <2>5. CASE size = PreferredSize /\ allocator.stack # <<>>
    <3>1. \E id : AllocatesKept(id)
      BY <2>2, <2>5 DEF Hand, PreferredAllocate, PreferredType, AllocatesKept, HandedOut, Block
    <3> QED
      BY <3>1
  <2>6. CASE size = PreferredSize /\ allocator.stack = <<>>
    <3> DEFINE b == NewMemoryPool(allocator, region)
    <3>1. b = [allocator EXCEPT !.regions = With(@, region), !.stack = Blocks(region)]
      BY <2>6, FirstPool DEF PreferredType, PoolBytes
    <3>2. /\ b.stack = Blocks(region)
          /\ [b EXCEPT !.stack = Front(b.stack)] =
                [allocator EXCEPT !.regions = With(@, region), !.stack = Front(Blocks(region))]
      BY <3>1 DEF PreferredType
    <3>3. PreferredAllocate(allocator, size, region) =
             [p |-> Last(b.stack), a |-> [b EXCEPT !.stack = Front(b.stack)]]
      BY <2>6 DEF PreferredAllocate, PreferredType
    <3>4. PICK id \in 1..MaxLive :
             /\ allocator' = [b EXCEPT !.stack = Front(b.stack)]
             /\ live' = IF Last(b.stack) = NullPtr THEN live
                        ELSE live \cup {Block(Last(b.stack), size, id)}
             /\ freedOthers' = freedOthers
      BY <2>2, <3>3, Handing
    <3>5. region \in MallocFrom(Regions, allocator)
      BY <2>3, <2>6 DEF PreferredMallocs
    <3>6. AllocatesFirst(region, id)
      BY <2>6, <3>2, <3>4, <3>5 DEF AllocatesFirst, HandedOut
    <3> QED
      BY <3>6
  <2> QED
    BY <2>4, <2>5, <2>6
<1>3. CASE PreferredDeallocates
  <2>1. PICK b \in live :
          /\ allocator' = PreferredDeallocate(allocator, b.p, b.size)
          /\ live' = live \ {b}
          /\ freedOthers' = IF b.size = PreferredSize THEN freedOthers ELSE freedOthers \cup {b.p}
    BY <1>3 DEF PreferredDeallocates
  <2>2. GivesBack(b) \/ GivesBackOther(b)
    BY <2>1 DEF PreferredDeallocate, PreferredType, GivesBack, GivesBackOther
  <2> QED
    BY <2>2
<1> QED
  BY <1>1, <1>2, <1>3 DEF AllocNext, SmallAllocates, SmallDeallocates, Is

-----------------------------------------------------------------------------
(* Each step of a PreferredSizeAllocator keeps its invariant.              *)

\* The blocks of a pool are different.
LEMMA NewBlocksDiffer ==
    ASSUME NEW r \in Regions \cup {NoRegion}, NEW k \in 1..BlocksIn, NEW l \in 1..BlocksIn, k # l
    PROVE  Blocks(r)[k] # Blocks(r)[l]
<1>1. k - 1 \in Nat /\ l - 1 \in Nat /\ (k - 1 < l - 1 \/ l - 1 < k - 1)
  BY BlocksFit
<1>2. \/ (k - 1) * PreferredSize + PreferredSize <= (l - 1) * PreferredSize
      \/ (l - 1) * PreferredSize + PreferredSize <= (k - 1) * PreferredSize
  BY <1>1, Blockwise, AllocatorAssumption
<1>3. (k - 1) * PreferredSize # (l - 1) * PreferredSize
  BY <1>1, <1>2, AllocatorAssumption, (k - 1) * PreferredSize \in Int, (l - 1) * PreferredSize \in Int
<1> QED
  BY <1>3, BlocksOf

LEMMA AllocatesOtherKeeps ==
    ASSUME PreferredIInv, NEW size, NEW r, NEW id, AllocatesOther(size, r, id)
    PROVE  PreferredIInv'
<1> DEFINE new == Block(<<r, 0>>, size, id)
<1> USE DEF PreferredIInv, TypeInv, PreferredInv
<1>1. new \in BlockType /\ new.size # PreferredSize /\ Region(new) = r /\ new.p[2] = 0
  BY AllocatorAssumption DEF AllocatesOther, BlockType, Region, Block, Places
<1>2. allocator' \in PreferredType /\ allocator'.stack = allocator.stack
      /\ allocator'.regions = allocator.regions \cup {r} /\ allocator'.poolSize = allocator.poolSize
  BY DEF AllocatesOther, PreferredType
<1>3. live' = live \cup {new} /\ freedOthers' = freedOthers /\ r \notin allocator.regions
  BY DEF AllocatesOther
<1> HIDE DEF new
<1>4. Others' = Others \cup {new}
  BY <1>1, <1>3 DEF Others
<1>5. InUse' = InUse /\ Kept' = Kept
  BY <1>1, <1>2, <1>3 DEF InUse, Kept, Clean
<1>6. OthersAlone'
  BY <1>1, <1>2, <1>3, <1>4 DEF OthersAlone
<1>7. ASSUME NEW p, InPool(p) PROVE InPool(p)'
  BY <1>1, <1>2, <1>3, <1>4, <1>7 DEF InPool
<1>8. PoolBlocks' /\ KeptOnce'
  BY <1>2, <1>5, <1>7 DEF PoolBlocks, KeptOnce
<1> QED
  BY <1>1, <1>2, <1>3, <1>6, <1>8

\* What is handed out becomes a block in use, or is not clean.
LEMMA HandedOutInUse ==
    ASSUME TypeInv, NEW p \in Places, NEW id, HandedOut(p, id)
    PROVE  /\ live' \subseteq BlockType /\ freedOthers' = freedOthers
           /\ Others' = Others
           /\ InUse' = IF Clean(p) THEN InUse \cup {Block(p, PreferredSize, id)} ELSE InUse
<1> DEFINE new == Block(p, PreferredSize, id)
<1>1. new \in BlockType /\ new.size = PreferredSize /\ new.p = p
  BY AllocatorAssumption DEF BlockType, Block, HandedOut
<1>2. Clean(p) => p # NullPtr
  BY DEF Clean, NullPtr
<1>3. freedOthers' = freedOthers /\ live' = IF p = NullPtr THEN live ELSE live \cup {new}
  BY DEF HandedOut
<1> HIDE DEF new
<1>4. Others' = Others
  BY <1>1, <1>3 DEF Others
<1>5. InUse' = IF Clean(p) THEN InUse \cup {new} ELSE InUse
  BY <1>1, <1>2, <1>3 DEF InUse, Clean
<1> QED
  BY <1>1, <1>3, <1>4, <1>5 DEF TypeInv, new

LEMMA AllocatesKeptKeeps ==
    ASSUME PreferredIInv, NEW id, AllocatesKept(id)
    PROVE  PreferredIInv'
<1> DEFINE stack == allocator.stack
           n     == Len(stack)
           new   == Block(Last(stack), PreferredSize, id)
<1> USE DEF PreferredIInv, TypeInv, PreferredInv
<1>1. stack \in Seq(Places) /\ n \in Nat \ {0} /\ Last(stack) = stack[n] /\ stack[n] \in Places
  BY DEF AllocatesKept, PreferredType, Last
<1>2. /\ Front(stack) \in Seq(Places) /\ Len(Front(stack)) = n - 1
      /\ \A k \in 1..n - 1 : Front(stack)[k] = stack[k]
  BY <1>1 DEF Front
<1>3. /\ allocator' \in PreferredType /\ allocator'.stack = Front(stack)
      /\ allocator'.regions = allocator.regions /\ allocator'.poolSize = allocator.poolSize
  BY <1>2 DEF AllocatesKept, PreferredType
<1>4. /\ live' \subseteq BlockType /\ freedOthers' = freedOthers /\ Others' = Others
      /\ InUse' = IF Clean(stack[n]) THEN InUse \cup {new} ELSE InUse
  BY <1>1, HandedOutInUse DEF AllocatesKept
<1>5. Kept' = Kept \ {n}
  <2>1. Kept' = {k \in 1..n - 1 : Clean(stack[k])}
    BY <1>2, <1>3, <1>4 DEF Kept, Clean
  <2>2. Kept = {k \in 1..n : Clean(stack[k])}
    BY DEF Kept
  <2> QED
    BY <1>1, <2>1, <2>2
<1>6. n \in Kept <=> Clean(stack[n])
  BY <1>1 DEF Kept
<1>7. new.p = stack[n]
  BY <1>1 DEF Block
<1> HIDE DEF new
<1>8. OthersAlone'
  BY <1>3, <1>4 DEF OthersAlone
<1>9. \A p : InPool(p)' <=> InPool(p)
  BY <1>3, <1>4 DEF InPool
<1>10. \A k \in Kept' : allocator'.stack[k] = stack[k]
  BY <1>1, <1>2, <1>3, <1>5 DEF Kept
<1>11. PoolBlocks'
  BY <1>4, <1>5, <1>6, <1>7, <1>9, <1>10 DEF PoolBlocks
<1>12. KeptOnce'
  BY <1>4, <1>5, <1>6, <1>7, <1>10 DEF KeptOnce
<1> QED
  BY <1>3, <1>4, <1>8, <1>11, <1>12

LEMMA AllocatesFirstKeeps ==
    ASSUME PreferredIInv, NEW r, NEW id, AllocatesFirst(r, id)
    PROVE  PreferredIInv'
<1> DEFINE stack == Blocks(r)
           n     == BlocksIn
           new   == Block(Last(stack), PreferredSize, id)
<1> USE DEF PreferredIInv, TypeInv, PreferredInv
<1>0. r \in Regions \cup {NoRegion} /\ r \notin allocator.regions
  BY AllocatorAssumption DEF AllocatesFirst, MallocFrom, PreferredType
<1>1. /\ stack \in Seq(Places) /\ n \in Nat \ {0} /\ Len(stack) = n
      /\ Last(stack) = stack[n] /\ stack[n] \in Places
  BY <1>0, BlocksOf, BlocksFit DEF Last
<1>2. /\ Front(stack) \in Seq(Places) /\ Len(Front(stack)) = n - 1
      /\ \A k \in 1..n - 1 : Front(stack)[k] = stack[k]
  BY <1>1 DEF Front
<1>3. /\ allocator' \in PreferredType /\ allocator'.stack = Front(stack)
      /\ allocator'.regions = With(allocator.regions, r)
      /\ allocator'.poolSize = allocator.poolSize /\ allocator.poolSize = PoolBytes
  BY <1>0, <1>2 DEF AllocatesFirst, PreferredType, PoolBytes, With
<1>4. /\ live' \subseteq BlockType /\ freedOthers' = freedOthers /\ Others' = Others
      /\ InUse' = IF Clean(stack[n]) THEN InUse \cup {new} ELSE InUse
  BY <1>1, HandedOutInUse DEF AllocatesFirst
<1>5. new.p = stack[n]
  BY <1>1 DEF Block
<1> HIDE DEF new
<1>6. \A k \in 1..n : stack[k][1] = r
  BY <1>0, BlocksOf
<1>7. /\ \A k \in Kept' : k \in 1..n /\ k # n /\ allocator'.stack[k] = stack[k] /\ Clean(stack[k])
      /\ InUse' = InUse \/ Clean(stack[n])
  BY <1>1, <1>2, <1>3, <1>4 DEF Kept, Clean
<1>8. OthersAlone'
  BY <1>3, <1>4 DEF OthersAlone, With
<1>9. \A p : InPool(p) => InPool(p)' /\ p[1] # r
  BY <1>0, <1>3, <1>4 DEF InPool, With
<1>10. \A b \in Others' : Region(b) # r
  BY <1>0, <1>4 DEF OthersAlone
<1>11. \A k \in 1..n : Clean(stack[k]) => InPool(stack[k])'
  <2>1. TAKE k \in 1..n
  <2>2. stack[k] = <<r, (k - 1) * PreferredSize>>
    BY <1>0, BlocksOf
  <2>3. k - 1 \in Nat /\ (k - 1) * PreferredSize + PreferredSize <= PoolBytes
    BY BlocksFit
  <2>4. Clean(stack[k]) => r \in allocator'.regions
    BY <1>3, <1>6 DEF Clean, With
  <2> QED
    BY <1>3, <1>10, <2>2, <2>3, <2>4 DEF InPool
<1>12. PoolBlocks'
  BY <1>1, <1>4, <1>5, <1>7, <1>9, <1>11 DEF PoolBlocks
<1>13. \A k, l \in 1..n : k # l => stack[k] # stack[l]
  BY <1>0, NewBlocksDiffer
<1>14. \A b \in InUse : b.p[1] # r
  BY <1>9 DEF PoolBlocks
<1>15. \A k \in Kept', b \in InUse' : allocator'.stack[k] # b.p
  BY <1>1, <1>4, <1>5, <1>6, <1>7, <1>13, <1>14
<1>16. \A b, c \in InUse' : b # c => b.p # c.p
  BY <1>1, <1>4, <1>5, <1>6, <1>14 DEF KeptOnce
<1>17. KeptOnce'
  BY <1>7, <1>13, <1>15, <1>16 DEF KeptOnce
<1> QED
  BY <1>3, <1>4, <1>8, <1>12, <1>17

LEMMA GivesBackKeeps ==
    ASSUME PreferredIInv, NEW b, GivesBack(b)
    PROVE  PreferredIInv'
<1> DEFINE stack == allocator.stack
           n     == Len(stack)
<1> USE DEF PreferredIInv, TypeInv, PreferredInv
<1>1. stack \in Seq(Places) /\ n \in Nat /\ b \in live /\ b.p \in Places
  BY DEF GivesBack, PreferredType, BlockType
<1>2. /\ Append(stack, b.p) \in Seq(Places) /\ Len(Append(stack, b.p)) = n + 1
      /\ \A k \in 1..n : Append(stack, b.p)[k] = stack[k]
      /\ Append(stack, b.p)[n + 1] = b.p
  BY <1>1
<1>3. /\ allocator' \in PreferredType /\ allocator'.stack = Append(stack, b.p)
      /\ allocator'.regions = allocator.regions /\ allocator'.poolSize = allocator.poolSize
  BY <1>2 DEF GivesBack, PreferredType
<1>4. live' = live \ {b} /\ freedOthers' = freedOthers /\ b.size = PreferredSize
  BY DEF GivesBack
<1>5. Others' = Others /\ InUse' = InUse \ {b}
  BY <1>4 DEF Others, InUse, Clean
<1>6. /\ Kept' = IF Clean(b.p) THEN Kept \cup {n + 1} ELSE Kept
      /\ Kept \subseteq 1..n /\ n + 1 \notin Kept
  BY <1>1, <1>2, <1>3, <1>4 DEF Kept, Clean
<1>7. Clean(b.p) => b \in InUse
  BY <1>1, <1>4 DEF InUse
<1>8. OthersAlone'
  BY <1>3, <1>5 DEF OthersAlone
<1>9. \A p : InPool(p)' <=> InPool(p)
  BY <1>3, <1>5 DEF InPool
<1>10. PoolBlocks'
  BY <1>2, <1>3, <1>5, <1>6, <1>7, <1>9 DEF PoolBlocks
<1>11. KeptOnce'
  BY <1>2, <1>3, <1>5, <1>6, <1>7 DEF KeptOnce
<1> QED
  BY <1>3, <1>4, <1>8, <1>10, <1>11

LEMMA GivesBackOtherKeeps ==
    ASSUME PreferredIInv, NEW b, GivesBackOther(b)
    PROVE  PreferredIInv'
<1> DEFINE stack == allocator.stack
           n     == Len(stack)
<1> USE DEF PreferredIInv, TypeInv, PreferredInv
<1>1. stack \in Seq(Places) /\ n \in Nat /\ b \in Others /\ b.p \in Places
  BY DEF GivesBackOther, PreferredType, BlockType, Others
<1>2. /\ Append(stack, b.p) \in Seq(Places) /\ Len(Append(stack, b.p)) = n + 1
      /\ \A k \in 1..n : Append(stack, b.p)[k] = stack[k]
      /\ Append(stack, b.p)[n + 1] = b.p
  BY <1>1
<1>3. /\ allocator' \in PreferredType /\ allocator'.stack = Append(stack, b.p)
      /\ allocator'.regions = allocator.regions \ {Region(b)} /\ allocator'.poolSize = allocator.poolSize
  BY <1>2 DEF GivesBackOther, PreferredType, Region
<1>4. live' = live \ {b} /\ freedOthers' = freedOthers \cup {b.p} /\ b.size # PreferredSize
  BY DEF GivesBackOther
<1>5. Others' = Others \ {b} /\ InUse' \subseteq InUse
  BY <1>4 DEF Others, InUse, Clean
<1>6. Kept' \subseteq Kept /\ Kept \subseteq 1..n
  BY <1>1, <1>2, <1>3, <1>4 DEF Kept, Clean
<1>7. OthersAlone'
  BY <1>1, <1>3, <1>5 DEF OthersAlone
<1>8. \A p : InPool(p) => InPool(p)'
  BY <1>1, <1>3, <1>5 DEF InPool
<1>9. \A k \in Kept' : k \in Kept /\ allocator'.stack[k] = stack[k]
  BY <1>2, <1>3, <1>6
<1>10. PoolBlocks'
  BY <1>5, <1>8, <1>9 DEF PoolBlocks
<1>11. KeptOnce'
  BY <1>5, <1>9 DEF KeptOnce
<1> QED
  BY <1>1, <1>3, <1>4, <1>7, <1>10, <1>11

-----------------------------------------------------------------------------
(* What a step of a SmallMemoryAllocator does.                             *)

AllocatesLarge(size, r, id) ==
    /\ id \in 1..MaxLive
    /\ size \in BlockSizes /\ size >= SizeThreshold /\ r \in Regions \ allocator.regions
    /\ allocator' = [allocator EXCEPT !.regions = @ \cup {r}]
    /\ live' = live \cup {Block(<<r, 0>>, size, id)}
    /\ freedOthers' = freedOthers

AllocatesNext(size, id) ==
    /\ id \in 1..MaxLive
    /\ size \in BlockSizes /\ size < SizeThreshold /\ allocator.pos + size <= PoolSize
    /\ allocator' = [allocator EXCEPT !.pos = @ + size]
    /\ live' = live \cup {Block(<<Last(allocator.pools), allocator.pos>>, size, id)}
    /\ freedOthers' = freedOthers

AllocatesInNew(size, r, id) ==
    /\ id \in 1..MaxLive
    /\ size \in BlockSizes /\ size < SizeThreshold /\ r \in Regions \ allocator.regions
    /\ allocator' = [allocator EXCEPT !.regions = @ \cup {r}, !.pools = Append(@, r), !.pos = size]
    /\ live' = live \cup {Block(<<r, 0>>, size, id)}
    /\ freedOthers' = freedOthers

Frees(b) ==
    /\ b \in live
    /\ allocator' = IF b.size >= SizeThreshold THEN [allocator EXCEPT !.regions = @ \ {b.p[1]}] ELSE allocator
    /\ live' = live \ {b}
    /\ freedOthers' = freedOthers

LEMMA SmallSteps ==
    ASSUME allocator \in SmallType, PoolFirst, live \subseteq BlockType, AllocNext
    PROVE  \/ AllocatesNothing
           \/ \E size, r, id : AllocatesLarge(size, r, id)
           \/ \E size, id : AllocatesNext(size, id)
           \/ \E size, r, id : AllocatesInNew(size, r, id)
           \/ \E b : Frees(b)
<1>1. allocator.kind = "small"
  BY DEF SmallType
<1>2. CASE SmallAllocates
  <2>1. PICK size \in BlockSizes :
           \E region \in RegionsFor(SmallMallocs(allocator, size)) :
              Hand(SmallAllocate(allocator, size, region), size)
    BY <1>2 DEF SmallAllocates
  <2>2. PICK region \in RegionsFor(SmallMallocs(allocator, size)) :
              Hand(SmallAllocate(allocator, size, region), size)
    BY <2>1
  <2>3. SmallMallocs(allocator, size) => region \in MallocFrom(Regions, allocator)
    BY DEF RegionsFor
  <2>4. /\ size \in Nat \ {0} /\ SizeThreshold \in Int /\ PoolSize \in Nat /\ allocator.pos \in Nat
        /\ allocator.threshold = SizeThreshold /\ allocator.poolSize = PoolSize
        /\ allocator.pools \in Seq(Regions) /\ allocator.regions \subseteq Regions
    BY AllocatorAssumption DEF SmallType
  <2>5. CASE size >= SizeThreshold
    <3>1. region \in MallocFrom(Regions, allocator)
      BY <2>3, <2>4, <2>5 DEF SmallMallocs
    <3>2. SmallAllocate(allocator, size, region) =
             [p |-> <<region, 0>>, a |-> [allocator EXCEPT !.regions = With(@, region)]]
      BY <2>4, <2>5 DEF SmallAllocate
    <3>3. PICK id \in 1..MaxLive :
             /\ allocator' = [allocator EXCEPT !.regions = With(@, region)]
             /\ live' = IF <<region, 0>> = NullPtr THEN live
                        ELSE live \cup {Block(<<region, 0>>, size, id)}
             /\ freedOthers' = freedOthers
      BY <2>2, <3>2, Handing
    <3>4. CASE region = NoRegion
      <4>1. With(allocator.regions, region) = allocator.regions
        BY <2>4, <3>4, AllocatorAssumption DEF With
      <4>2. AllocatesNothing
        BY <3>3, <3>4, <4>1 DEF AllocatesNothing, NullPtr, SmallType
      <4> QED
        BY <4>2
    <3>5. CASE region # NoRegion
      <4>1. With(allocator.regions, region) = allocator.regions \cup {region}
        BY <3>5 DEF With
      <4>2. AllocatesLarge(size, region, id)
        BY <2>5, <3>1, <3>3, <3>5, <4>1 DEF AllocatesLarge, NullPtr, MallocFrom, SmallType
      <4> QED
        BY <4>2
    <3> QED
      BY <3>4, <3>5
  <2>6. CASE ~(size >= SizeThreshold) /\ ~NeedsPool(allocator, size)
    <3> DEFINE p == <<Last(allocator.pools), allocator.pos>>
    <3>1. SmallAllocate(allocator, size, region) = [p |-> p, a |-> [allocator EXCEPT !.pos = @ + size]]
      BY <2>4, <2>6 DEF SmallAllocate
    <3>2. PICK id \in 1..MaxLive :
             /\ allocator' = [allocator EXCEPT !.pos = @ + size]
             /\ live' = IF p = NullPtr THEN live ELSE live \cup {Block(p, size, id)}
             /\ freedOthers' = freedOthers
      BY <2>2, <3>1, Handing
    <3>3. allocator.pos + size <= PoolSize
      BY <2>4, <2>6 DEF NeedsPool
    <3>4. p # NullPtr
      <4>1. allocator.pools # <<>>
        BY <2>4, <3>3 DEF PoolFirst
      <4>2. Last(allocator.pools) \in Regions
        BY <2>4, <4>1 DEF Last
      <4> QED
        BY <4>2, AllocatorAssumption DEF NullPtr
    <3>5. AllocatesNext(size, id)
      BY <2>4, <2>6, <3>2, <3>3, <3>4 DEF AllocatesNext
    <3> QED
      BY <3>5
  <2>7. CASE ~(size >= SizeThreshold) /\ NeedsPool(allocator, size) /\ region = NoRegion
    <3>1. SmallAllocate(allocator, size, region) = [p |-> NullPtr, a |-> allocator]
      BY <2>4, <2>7 DEF SmallAllocate
    <3>2. AllocatesNothing
      BY <2>2, <3>1 DEF Hand, AllocatesNothing
    <3> QED
      BY <3>2
  <2>8. CASE ~(size >= SizeThreshold) /\ NeedsPool(allocator, size) /\ region # NoRegion
    <3> DEFINE b == [allocator EXCEPT !.regions = With(@, region), !.pools = Append(@, region), !.pos = 0]
    <3>1. SmallAllocate(allocator, size, region) =
             [p |-> <<Last(b.pools), b.pos>>, a |-> [b EXCEPT !.pos = @ + size]]
      BY <2>4, <2>8 DEF SmallAllocate
    <3>2. region \in Regions \ allocator.regions
      BY <2>3, <2>8 DEF SmallMallocs, MallocFrom
    <3>3. b.pos = 0 /\ b.pools = Append(allocator.pools, region) /\ Last(b.pools) = region
      BY <3>2 DEF SmallType, Last
    <3>4. [b EXCEPT !.pos = @ + size] =
             [allocator EXCEPT !.regions = @ \cup {region}, !.pools = Append(@, region), !.pos = size]
      <4>1. b.pos + size = size /\ With(allocator.regions, region) = allocator.regions \cup {region}
        BY <2>4, <2>8, <3>3 DEF With
      <4>2. [b EXCEPT !.pos = @ + size] = [b EXCEPT !.pos = size]
        BY <4>1
      <4> QED
        BY <4>1, <4>2 DEF SmallType
    <3>5. PICK id \in 1..MaxLive :
             /\ allocator' = [b EXCEPT !.pos = @ + size]
             /\ live' = IF <<region, 0>> = NullPtr THEN live
                        ELSE live \cup {Block(<<region, 0>>, size, id)}
             /\ freedOthers' = freedOthers
      <4>1. SmallAllocate(allocator, size, region) =
               [p |-> <<region, 0>>, a |-> [b EXCEPT !.pos = @ + size]]
        BY <3>1, <3>3
      <4> HIDE DEF b
      <4> QED
        BY <2>2, <4>1, Handing
    <3>6. AllocatesInNew(size, region, id)
      BY <2>4, <2>8, <3>2, <3>4, <3>5 DEF AllocatesInNew, NullPtr
    <3> QED
      BY <3>6
  <2> QED
    BY <2>5, <2>6, <2>7, <2>8
<1>3. CASE SmallDeallocates
  <2>1. PICK b \in live :
          /\ allocator' = SmallDeallocate(allocator, b.p, b.size)
          /\ live' = live \ {b}
    BY <1>3 DEF SmallDeallocates
  <2>2. freedOthers' = freedOthers
    BY <1>3 DEF SmallDeallocates
  <2>3. Frees(b)
    BY <2>1, <2>2 DEF SmallDeallocate, SmallType, Frees
  <2> QED
    BY <2>3
<1> QED
  BY <1>1, <1>2, <1>3 DEF AllocNext, PreferredAllocates, PreferredDeallocates, Is

-----------------------------------------------------------------------------
(* Each step of a SmallMemoryAllocator keeps its invariant.                *)

LEMMA AllocatesLargeKeeps ==
    ASSUME SmallIInv, NEW size, NEW r, NEW id, AllocatesLarge(size, r, id)
    PROVE  SmallIInv'
<1> DEFINE new == Block(<<r, 0>>, size, id)
<1> USE DEF SmallIInv, TypeInv, SmallInv
<1>1. /\ new \in BlockType /\ new.size >= SizeThreshold
      /\ Region(new) = r /\ new.p[2] = 0 /\ r \in Regions /\ r \notin allocator.regions
  BY AllocatorAssumption DEF AllocatesLarge, BlockType, Region, Block, Places
<1>2. /\ allocator' \in SmallType /\ allocator'.regions = allocator.regions \cup {r}
      /\ allocator'.pools = allocator.pools /\ allocator'.pos = allocator.pos
      /\ allocator'.kind = allocator.kind
  BY DEF AllocatesLarge, SmallType
<1>3. live' = live \cup {new} /\ freedOthers' = freedOthers
  BY DEF AllocatesLarge
<1>4. Large' = Large \cup {new} /\ Small' = Small
  BY <1>1, <1>3 DEF Large, Small
<1>5. \A x : IsPool(x)' <=> IsPool(x)
  BY <1>2 DEF IsPool
<1>6. PoolFirst' /\ PoolsKept'
  BY <1>2, <1>5 DEF PoolFirst, PoolsKept
<1>7. ~IsPool(r)
  BY <1>1 DEF PoolsKept
<1>8. LargeAlone'
  BY <1>1, <1>2, <1>4, <1>5, <1>7 DEF LargeAlone
<1>9. SmallInPool'
  BY <1>2, <1>4, <1>5 DEF SmallInPool, LargerThanPool, Is
<1>10. SmallBeside'
  BY <1>4 DEF SmallBeside
<1> QED
  BY <1>1, <1>2, <1>3, <1>6, <1>8, <1>9, <1>10

LEMMA AllocatesNextKeeps ==
    ASSUME SmallIInv, NEW size, NEW id, AllocatesNext(size, id)
    PROVE  SmallIInv'
<1> DEFINE pools == allocator.pools
           r     == Last(pools)
           pos   == allocator.pos
           new   == Block(<<r, pos>>, size, id)
<1> USE DEF SmallIInv, TypeInv, SmallInv
<1>1. /\ size \in Nat \ {0} /\ size < SizeThreshold /\ pos + size <= PoolSize
      /\ pos \in Nat /\ PoolSize \in Nat /\ SizeThreshold \in Int /\ pools \in Seq(Regions)
  BY AllocatorAssumption DEF AllocatesNext, SmallType
<1>2. pools # <<>> /\ r = pools[Len(pools)] /\ Len(pools) \in 1..Len(pools) /\ r \in Regions
  BY <1>1 DEF PoolFirst, Last
<1>3. IsPool(r)
  BY <1>2 DEF IsPool
<1>4. new \in BlockType /\ Region(new) = r /\ new.p[2] = pos /\ new.size = size
  BY <1>1, <1>2 DEF AllocatesNext, BlockType, Region, Block, Places
<1>5. /\ allocator' \in SmallType /\ allocator'.regions = allocator.regions
      /\ allocator'.pools = pools /\ allocator'.pos = pos + size
      /\ allocator'.kind = allocator.kind
  BY <1>1 DEF AllocatesNext, SmallType
<1>6. live' = live \cup {new} /\ freedOthers' = freedOthers
  BY DEF AllocatesNext
<1>7. Large' = Large /\ Small' = Small \cup {new}
  BY <1>1, <1>4, <1>6 DEF Large, Small
<1>8. \A x : IsPool(x)' <=> IsPool(x)
  BY <1>5 DEF IsPool
<1>9. PoolFirst' /\ PoolsKept'
  BY <1>2, <1>5, <1>8 DEF PoolFirst, PoolsKept
<1>10. LargeAlone'
  BY <1>5, <1>7, <1>8 DEF LargeAlone
<1>11. \A b \in Small : b.p[2] \in Nat /\ b.size \in Nat
  BY DEF Small, BlockType, Places
<1>12. SmallInPool'
  <2>1. ASSUME NEW b \in Small
        PROVE  /\ IsPool(Region(b))'
               /\ LargerThanPool(b)' \/ b.p[2] + b.size <= PoolSize
               /\ Region(b) = Last(allocator'.pools) => b.p[2] + b.size <= allocator'.pos
    BY <1>1, <1>5, <1>8, <1>11 DEF SmallInPool, LargerThanPool, Is
  <2>2. ASSUME NEW b, b = new
        PROVE  /\ IsPool(Region(b))'
               /\ b.p[2] + b.size <= PoolSize
               /\ b.p[2] + b.size <= allocator'.pos
    BY <1>1, <1>3, <1>4, <1>5, <1>8, <2>2
  <2> QED
    BY <1>7, <2>1, <2>2 DEF SmallInPool
<1>13. \A b \in Small : Region(b) = r => Beside(b, new) /\ Beside(new, b)
  BY <1>4 DEF SmallInPool, Beside
<1>14. SmallBeside'
  BY <1>4, <1>7, <1>13 DEF SmallBeside
<1> QED
  BY <1>4, <1>5, <1>6, <1>9, <1>10, <1>12, <1>14

LEMMA AllocatesInNewKeeps ==
    ASSUME SmallIInv, NEW size, NEW r, NEW id, AllocatesInNew(size, r, id)
    PROVE  SmallIInv'
<1> DEFINE pools == allocator.pools
           new   == Block(<<r, 0>>, size, id)
<1> USE DEF SmallIInv, TypeInv, SmallInv
<1>1. /\ size \in Nat \ {0} /\ size < SizeThreshold /\ r \in Regions /\ r \notin allocator.regions
      /\ PoolSize \in Nat /\ SizeThreshold \in Int /\ pools \in Seq(Regions)
  BY AllocatorAssumption DEF AllocatesInNew, SmallType
<1>2. /\ Append(pools, r) \in Seq(Regions) /\ Len(Append(pools, r)) = Len(pools) + 1
      /\ Append(pools, r)[Len(pools) + 1] = r /\ Len(pools) \in Nat
      /\ \A k \in 1..Len(pools) : Append(pools, r)[k] = pools[k]
  BY <1>1
<1>3. Last(Append(pools, r)) = r /\ Append(pools, r) # <<>>
  BY <1>2 DEF Last
<1>4. new \in BlockType /\ Region(new) = r /\ new.p[2] = 0 /\ new.size = size
  BY <1>1 DEF AllocatesInNew, BlockType, Region, Block, Places
<1>5. /\ allocator' \in SmallType /\ allocator'.regions = allocator.regions \cup {r}
      /\ allocator'.pools = Append(pools, r) /\ allocator'.pos = size
      /\ allocator'.kind = allocator.kind
  BY <1>1, <1>2 DEF AllocatesInNew, SmallType
<1>6. live' = live \cup {new} /\ freedOthers' = freedOthers
  BY DEF AllocatesInNew
<1>7. Large' = Large /\ Small' = Small \cup {new}
  BY <1>1, <1>4, <1>6 DEF Large, Small
<1>8. \A x : IsPool(x)' <=> IsPool(x) \/ x = r
  BY <1>2, <1>5 DEF IsPool
<1>9. ~IsPool(r)
  BY <1>1 DEF PoolsKept
<1>10. PoolFirst' /\ PoolsKept'
  BY <1>3, <1>5, <1>8 DEF PoolFirst, PoolsKept
<1>11. LargeAlone'
  BY <1>1, <1>5, <1>7, <1>8 DEF LargeAlone
<1>12. \A b \in Small : Region(b) # r
  BY <1>9 DEF SmallInPool
<1>13. SmallInPool'
  <2>1. ASSUME NEW b \in Small
        PROVE  /\ IsPool(Region(b))'
               /\ LargerThanPool(b)' \/ b.p[2] + b.size <= PoolSize
               /\ Region(b) # Last(allocator'.pools)
    BY <1>3, <1>5, <1>8, <1>12 DEF SmallInPool, LargerThanPool, Is
  <2>2. /\ IsPool(Region(new))'
        /\ LargerThanPool(new)' \/ new.p[2] + new.size <= PoolSize
        /\ new.p[2] + new.size <= allocator'.pos
    BY <1>1, <1>4, <1>5, <1>8 DEF LargerThanPool, Is, SmallType
  <2> QED
    BY <1>7, <2>1, <2>2 DEF SmallInPool
<1>14. SmallBeside'
  BY <1>4, <1>7, <1>12 DEF SmallBeside
<1> QED
  BY <1>4, <1>5, <1>6, <1>10, <1>11, <1>13, <1>14

LEMMA FreesKeeps ==
    ASSUME SmallIInv, NEW b, Frees(b)
    PROVE  SmallIInv'
<1> USE DEF SmallIInv, TypeInv, SmallInv
<1>1. b \in live /\ live' = live \ {b} /\ freedOthers' = freedOthers
  BY DEF Frees
<1>2. /\ allocator' \in SmallType /\ allocator'.kind = allocator.kind
      /\ allocator'.pools = allocator.pools /\ allocator'.pos = allocator.pos
      /\ allocator'.regions = IF b \in Large THEN allocator.regions \ {Region(b)} ELSE allocator.regions
  BY <1>1 DEF Frees, SmallType, Large, Region
<1>3. Large' = Large \ {b} /\ Small' = Small \ {b}
  BY <1>1 DEF Large, Small
<1>4. \A x : IsPool(x)' <=> IsPool(x)
  BY <1>2 DEF IsPool
<1>5. PoolFirst'
  BY <1>2 DEF PoolFirst
<1>6. PoolsKept'
  BY <1>2, <1>4 DEF PoolsKept, LargeAlone
<1>7. LargeAlone'
  BY <1>2, <1>3, <1>4 DEF LargeAlone
<1>8. SmallInPool'
  BY <1>2, <1>3, <1>4 DEF SmallInPool, LargerThanPool, Is
<1>9. SmallBeside'
  BY <1>3 DEF SmallBeside
<1> QED
  BY <1>1, <1>2, <1>5, <1>6, <1>7, <1>8, <1>9

-----------------------------------------------------------------------------
(* The theorems.                                                           *)

LEMMA InitInv == AllocInit => IInv
<1> SUFFICES ASSUME AllocInit PROVE IInv
  OBVIOUS
<1>1. live = {} /\ freedOthers = {}
  BY DEF AllocInit
<1>2. CASE allocator = NewSmall(PoolSize, SizeThreshold)
  <2>1. /\ allocator \in SmallType
        /\ allocator.pools = <<>> /\ allocator.pos = PoolSize
    BY <1>2, AllocatorAssumption DEF NewSmall, SmallType
  <2>2. Large = {} /\ Small = {}
    BY <1>1 DEF Large, Small
  <2>3. \A r : ~IsPool(r)
    BY <2>1 DEF IsPool
  <2>4. SmallInv
    BY <2>1, <2>2, <2>3 DEF SmallInv, PoolFirst, PoolsKept, LargeAlone, SmallInPool, SmallBeside
  <2> QED
    BY <1>1, <2>1, <2>4 DEF IInv, SmallIInv, TypeInv
<1>3. ASSUME NEW r \in Regions \cup {NoRegion}, allocator = NewPreferred(r, PreferredSize, PoolSize)
      PROVE  IInv
  <2> DEFINE a == [kind |-> "preferred", preferredSize |-> PreferredSize, poolSize |-> PoolBytes,
                   regions |-> {}, stack |-> <<>>]
  <2>1. allocator = NewMemoryPool(a, r)
    BY <1>3 DEF NewPreferred, PoolBytes
  <2>2. NewMemoryPool(a, r) = [a EXCEPT !.regions = With(@, r), !.stack = Blocks(r)]
    BY FirstPool
  <2>3. /\ allocator \in PreferredType /\ allocator.stack = Blocks(r)
        /\ allocator.regions = {r} \ {NoRegion} /\ allocator.poolSize = PoolBytes
    <3>1. allocator = [a EXCEPT !.regions = {r} \ {NoRegion}, !.stack = Blocks(r)]
      BY <2>1, <2>2 DEF With
    <3>2. Blocks(r) \in Seq(Places) /\ {r} \ {NoRegion} \subseteq Regions
      BY BlocksOf
    <3>3. allocator = [kind |-> "preferred", preferredSize |-> PreferredSize, poolSize |-> PoolBytes,
                       regions |-> {r} \ {NoRegion}, stack |-> Blocks(r)]
      BY <3>1
    <3> QED
      BY <3>2, <3>3 DEF PreferredType, PoolBytes
  <2>4. Others = {} /\ InUse = {}
    BY <1>1 DEF Others, InUse
  <2>5. Kept \subseteq 1..BlocksIn /\ (r = NoRegion => Kept = {})
    BY <1>1, <2>3, BlocksOf DEF Kept, Clean
  <2>6. ASSUME NEW k \in 1..BlocksIn, r # NoRegion PROVE InPool(Blocks(r)[k])
    <3>1. Blocks(r)[k] = <<r, (k - 1) * PreferredSize>>
      BY BlocksOf
    <3>2. k - 1 \in Nat /\ (k - 1) * PreferredSize + PreferredSize <= PoolBytes
      BY BlocksFit
    <3> QED
      BY <2>3, <2>4, <2>6, <3>1, <3>2 DEF InPool
  <2>7. PreferredInv
    BY <2>3, <2>4, <2>5, <2>6, NewBlocksDiffer DEF PreferredInv, OthersAlone, PoolBlocks, KeptOnce
  <2> QED
    BY <1>1, <2>3, <2>7 DEF IInv, PreferredIInv, TypeInv
<1> QED
  BY <1>2, <1>3 DEF AllocInit

LEMMA NothingKeeps ==
    ASSUME AllocatesNothing
    PROVE  PreferredIInv' = PreferredIInv /\ SmallIInv' = SmallIInv
<1>1. UNCHANGED <<allocator, live, freedOthers>>
  BY DEF AllocatesNothing
<1>2. PreferredInv' = PreferredInv
  BY ONLY <1>1 DEF PreferredInv, OthersAlone, PoolBlocks, KeptOnce, Others, InUse, Kept, Clean, InPool
<1>3. SmallInv' = SmallInv
  BY ONLY <1>1 DEF SmallInv, PoolFirst, PoolsKept, LargeAlone, SmallInPool, SmallBeside, Large, Small,
     IsPool, LargerThanPool, Is
<1>4. TypeInv' = TypeInv
  BY ONLY <1>1 DEF TypeInv
<1> QED
  BY ONLY <1>2, <1>3, <1>4 DEF PreferredIInv, SmallIInv

LEMMA NextInv == IInv /\ [AllocNext]_allocvars => IInv'
<1> SUFFICES ASSUME IInv, [AllocNext]_allocvars PROVE IInv'
  OBVIOUS
<1>1. CASE AllocNext /\ PreferredIInv
  BY <1>1, PreferredSteps, NothingKeeps, AllocatesOtherKeeps, AllocatesKeptKeeps, AllocatesFirstKeeps,
     GivesBackKeeps, GivesBackOtherKeeps DEF IInv, PreferredIInv, TypeInv, PreferredInv
<1>2. CASE AllocNext /\ SmallIInv
  BY <1>2, SmallSteps, NothingKeeps, AllocatesLargeKeeps, AllocatesNextKeeps, AllocatesInNewKeeps, FreesKeeps
     DEF IInv, SmallIInv, TypeInv, SmallInv
<1>3. CASE UNCHANGED allocvars
  BY <1>3, NothingKeeps DEF allocvars, AllocatesNothing, IInv
<1> QED
  BY <1>1, <1>2, <1>3 DEF IInv

\* Blocks in different regions have no cell in common.
LEMMA RegionsApart ==
    ASSUME NEW b, NEW c, Region(b) # Region(c)
    PROVE  Cells(b) \cap Cells(c) = {}
BY DEF Region, Cells

\* Nor have blocks of which one is before the other.
LEMMA BesideApart ==
    ASSUME NEW b \in BlockType, NEW c \in BlockType, Beside(b, c)
    PROVE  Cells(b) \cap Cells(c) = {}
BY DEF BlockType, Places, Beside, Cells

LEMMA PreferredApart == PreferredIInv => BlocksApart
<1> SUFFICES ASSUME PreferredIInv, NEW b \in live, ~Unusable(b)
             PROVE  /\ b.p[1] \in allocator.regions
                    /\ b.p[2] + b.size <= RegionSize(b)
                    /\ \A c \in live \ {b} : ~Unusable(c) => Cells(b) \cap Cells(c) = {}
  BY DEF BlocksApart
<1> USE DEF PreferredIInv, PreferredInv, TypeInv
<1>1. allocator.kind = "preferred" /\ b \in BlockType /\ allocator.poolSize = PoolBytes
  BY DEF PreferredType, PoolBytes
<1>2. \A c \in live : c \in Others \/ Unusable(c) \/ c \in InUse
  BY <1>1 DEF Others, InUse, Clean, Unusable, HandedOutFreed, FromNoPool, Is
<1>3. RegionSize(b) = IF b \in Others THEN b.size ELSE PoolBytes
  BY <1>1 DEF RegionSize, Is, Others
<1>4. CASE b \in Others
  <2>1. b.p[1] \in allocator.regions /\ b.p[2] = 0 /\ b.size \in Nat
    BY <1>1, <1>4 DEF OthersAlone, Region, BlockType
  <2>2. b.p[2] + b.size <= RegionSize(b)
    BY <1>3, <1>4, <2>1
  <2>3. ASSUME NEW c \in live \ {b}, ~Unusable(c) PROVE Region(b) # Region(c)
    BY <1>2, <1>4, <2>3 DEF OthersAlone, PoolBlocks, InPool, Region
  <2> QED
    BY <2>1, <2>2, <2>3, RegionsApart
<1>5. CASE b \in InUse
  <2>1. /\ b.p[1] \in allocator.regions /\ b.size = PreferredSize /\ b \notin Others
        /\ b.p[2] + PreferredSize <= PoolBytes
    BY <1>1, <1>5 DEF PoolBlocks, InPool, InUse, Others
  <2>2. ASSUME NEW c \in live \ {b}, ~Unusable(c)
        PROVE  Cells(b) \cap Cells(c) = {}
    <3>1. CASE c \in Others
      <4>1. Region(b) # Region(c)
        BY <1>5, <3>1 DEF PoolBlocks, InPool, Region
      <4> QED
        BY <4>1, RegionsApart
    <3>2. CASE c \in InUse /\ Region(b) # Region(c)
      BY <3>2, RegionsApart
    <3>3. CASE c \in InUse /\ Region(b) = Region(c)
      <4>1. PICK m \in Nat, n \in Nat : b.p[2] = m * PreferredSize /\ c.p[2] = n * PreferredSize
        BY <1>5, <3>3 DEF PoolBlocks, InPool
      <4>2. b.size = PreferredSize /\ c.size = PreferredSize /\ b # c /\ c \in BlockType
        BY <1>5, <3>3, <2>2 DEF InUse
      <4>3. b.p[2] # c.p[2]
        BY <1>1, <1>5, <3>3, <4>2 DEF KeptOnce, BlockType, Places, Region
      <4>4. m < n \/ n < m
        BY <4>1, <4>3
      <4>5. \/ m * PreferredSize + PreferredSize <= n * PreferredSize
            \/ n * PreferredSize + PreferredSize <= m * PreferredSize
        BY <4>4, Blockwise, AllocatorAssumption
      <4>6. Beside(b, c)
        BY ONLY <4>1, <4>2, <4>5 DEF Beside
      <4> QED
        BY <1>1, <4>2, <4>6, BesideApart
    <3> QED
      BY <1>2, <2>2, <3>1, <3>2, <3>3
  <2> QED
    BY <1>3, <2>1, <2>2
<1> QED
  BY <1>2, <1>4, <1>5

LEMMA SmallApart == SmallIInv => BlocksApart
<1> SUFFICES ASSUME SmallIInv, NEW b \in live, ~Unusable(b)
             PROVE  /\ b.p[1] \in allocator.regions
                    /\ b.p[2] + b.size <= RegionSize(b)
                    /\ \A c \in live \ {b} : Cells(b) \cap Cells(c) = {}
  BY DEF BlocksApart
<1> USE DEF SmallIInv, SmallInv, TypeInv
<1>1. /\ allocator.kind = "small" /\ allocator.poolSize = PoolSize
      /\ b \in BlockType /\ Region(b) = b.p[1] /\ ~LargerThanPool(b)
      /\ allocator.regions \subseteq Regions /\ allocator.pools \in Seq(Regions)
  BY DEF SmallType, BlockType, Places, Region, Unusable
<1>2. b \in Large \/ b \in Small
  BY DEF Small
<1>3. b.p[1] \in allocator.regions
  BY <1>1, <1>2 DEF LargeAlone, SmallInPool, PoolsKept, IsPool
<1>4. RegionSize(b) = IF b \in Large THEN b.size ELSE PoolSize
  BY <1>1, AllocatorAssumption DEF RegionSize, Is, Large, BlockType
<1>5. b.p[2] + b.size <= RegionSize(b)
  <2>1. CASE b \in Large
    BY <1>1, <1>4, <2>1 DEF LargeAlone, BlockType, Places
  <2>2. CASE b \in Small
    BY <1>1, <1>4, <2>2 DEF SmallInPool, Small
  <2> QED
    BY <1>2, <2>1, <2>2
<1>6. ASSUME NEW c \in live \ {b} PROVE Cells(b) \cap Cells(c) = {}
  <2>1. c \in BlockType /\ (c \in Large \/ c \in Small)
    BY DEF Small
  <2>2. CASE Region(b) # Region(c)
    BY <2>2, RegionsApart
  <2>3. CASE Region(b) = Region(c)
    <3>1. b \in Small /\ c \in Small
      BY <1>2, <1>6, <2>1, <2>3 DEF LargeAlone, SmallInPool
    <3>2. Beside(b, c)
      BY <1>6, <2>3, <3>1 DEF SmallBeside
    <3> QED
      BY <1>1, <2>1, <3>2, BesideApart
  <2> QED
    BY <2>2, <2>3
<1> QED
  BY <1>3, <1>5, <1>6

\* Every state satisfies the invariant of the allocator it has: whether or
\* not malloc has failed, what is in use and what is kept for later in
\* memory of malloc's are blocks of the pools at different places, and the
\* rest is alone in its region.
THEOREM AllocatorInvariant == AllocSpec => []IInv
BY InitInv, NextInv, PTL DEF AllocSpec

\* Whatever is allocated and deallocated in whatever order, and whenever
\* malloc fails, the blocks in use have no cell in common and lie in memory
\* malloc has given, except those of a freed address, those of a pool that
\* malloc did not give, and those larger than a pool.
THEOREM BlocksStayApart == AllocSpec => []BlocksApart
<1>1. IInv => BlocksApart
  BY PreferredApart, SmallApart DEF IInv
<1> QED
  BY <1>1, AllocatorInvariant, PTL
=============================================================================
