------------------------ MODULE GrowableArraysProofs ------------------------
(***************************************************************************)
(* Proofs about the arena, for every capacity, header size and sequence of *)
(* fitting requests: blocks lie within their buffers, share no byte and    *)
(* have the alignment asked for; arenaDestroy frees every buffer once.     *)
(*                                                                         *)
(* And about the growable arrays, for any number of arrays of any item     *)
(* sizes, beside any other allocations that fit: they use the arena as its *)
(* specification allows, and implement lists, each its own.                *)
(***************************************************************************)
EXTENDS GrowableArrays, SequenceTheorems, TLAPS

-----------------------------------------------------------------------------
(* The arithmetic of the padding.                                          *)

LEMMA Division ==
  ASSUME NEW x \in Int, NEW n \in Nat \ {0}
  PROVE  /\ x \div n \in Int
         /\ (x % n) \in 0..(n - 1)
         /\ x = (n * (x \div n)) + (x % n)
BY SMT

LEMMA MultipleLeavesNothing ==
  ASSUME NEW k \in Int, NEW n \in Nat \ {0}
  PROVE  (n * k) % n = 0
<1> DEFINE y == n * k
           d == k - (y \div n)
<1>1. y \in Int /\ d \in Int
  BY Division
<1>2. n * d = (y % n)
  <2>1. y = (n * (y \div n)) + (y % n)
    BY <1>1, Division
  <2>2. n * d = (n * k) - (n * (y \div n))
    BY <1>1, Division
  <2> QED BY <2>1, <2>2, <1>1, Division
<1>3. n * d \in 0..(n - 1)
  BY <1>1, <1>2, Division
<1>4. CASE d >= 1
  <2>1. n * d >= n * 1
    BY <1>4, <1>1
  <2> QED BY <2>1, <1>3
<1>5. CASE d <= -1
  <2>1. n * d <= n * (-1)
    BY <1>5, <1>1
  <2> QED BY <2>1, <1>3
<1>6. CASE d = 0
  BY <1>6, <1>2
<1> QED BY <1>1, <1>4, <1>5, <1>6

(* An address is padded to a multiple of the alignment.                    *)
LEMMA PaddingAligns ==
  ASSUME NEW address \in Int, NEW align \in Nat \ {0}
  PROVE  /\ PaddingTo(address, align) \in Nat
         /\ (address + PaddingTo(address, align)) % align = 0
<1> DEFINE m == -address
           q == m \div align
           r == m % align
<1>1. q \in Int /\ r \in 0..(align - 1) /\ m = (align * q) + r
  <2>1. m \in Int
    OBVIOUS
  <2> HIDE DEF m
  <2> QED BY <2>1, Division
<1>2. address + r = align * (-q)
  <2>1. align * (-q) = -(align * q)
    BY <1>1
  <2> HIDE DEF q, r
  <2> QED BY <1>1, <2>1
<1>3. (align * (-q)) % align = 0
  BY <1>1, MultipleLeavesNothing
<1> QED BY <1>1, <1>2, <1>3 DEF PaddingTo

LEMMA SmallRemainder ==
  ASSUME NEW n \in Nat \ {0}, NEW x \in 0..(n - 1)
  PROVE  x % n = x
BY SMT

(* The size_t comparison of arenaAlloc is that of the integers: a fitting  *)
(* request never wraps the room that is left.                              *)
LEMMA RoomDoesNotWrap ==
  ASSUME ArenaAssumption, offset \in 0..Capacity,
         NEW r \in Request, Fitting(r)
  PROVE  /\ StartOf(r.align) \in offset..Capacity
         /\ (HeaderSize + StartOf(r.align)) % r.align = 0
         /\ Fits(r.size, r.align) <=> StartOf(r.align) + r.size <= Capacity
<1> DEFINE start == StartOf(r.align)
           padding == Padding(offset, r.align)
<1>1. r.align \in Nat \ {0} /\ r.size \in Nat \ {0}
  BY DEF Request
<1>2. HeaderSize + offset \in Int
  BY DEF ArenaAssumption
<1>3. /\ padding \in Nat
      /\ ((HeaderSize + offset) + padding) % r.align = 0
  BY <1>1, <1>2, PaddingAligns DEF Padding
<1>4. start = offset + padding /\ start <= Capacity
  BY DEF StartOf, Fitting
<1>5. start \in offset..Capacity
  <2> HIDE DEF padding, start
  <2> QED BY <1>3, <1>4 DEF ArenaAssumption
<1>6. HeaderSize + start = (HeaderSize + offset) + padding
  <2> HIDE DEF padding, start
  <2> QED BY <1>3, <1>4 DEF ArenaAssumption
<1>7. (Capacity - start) % Word = Capacity - start
  <2>1. Capacity - start \in 0..(Word - 1) /\ Word \in Nat \ {0}
    BY <1>5 DEF ArenaAssumption
  <2> HIDE DEF start
  <2> QED BY <2>1, SmallRemainder
<1>8. r.size <= Capacity - start <=> start + r.size <= Capacity
  <2> HIDE DEF start
  <2> QED BY <1>1, <1>5 DEF ArenaAssumption
<1> QED BY <1>3, <1>5, <1>6, <1>7, <1>8 DEF Fits

-----------------------------------------------------------------------------
(* The inductive invariant.  InBounds and Disjoint follow the offset: all  *)
(* blocks of the current buffer end before it, and no block is in a buffer *)
(* that does not exist yet.  The list of buffers is the chain 1, 2, ..,    *)
(* and arenaDestroy has freed a front part of it.                          *)

Behind ==
  \A i \in DOMAIN blocks :
    /\ blocks[i].buffer <= buffer
    /\ blocks[i].buffer = buffer => blocks[i].start + blocks[i].size <= offset

Chained ==
  /\ buffer = Len(next)
  /\ \A b \in 1..Len(next) : next[b] = IF b = Len(next) THEN 0 ELSE b + 1

FrontFreed ==
  IF current = 0 THEN live \in {{}, 1..Len(next)} ELSE live = current..Len(next)

ArenaInv ==
  /\ ArenaTypeOK /\ Behind /\ Chained /\ FrontFreed
  /\ InBounds /\ Disjoint /\ Aligned

LEMMA Appended ==
  ASSUME NEW S, NEW s \in Seq(S), NEW e \in S
  PROVE  /\ Append(s, e) \in Seq(S)
         /\ Len(Append(s, e)) = Len(s) + 1
         /\ DOMAIN Append(s, e) = 1..(Len(s) + 1)
         /\ DOMAIN s = 1..Len(s)
         /\ Len(s) \in Nat
         /\ \A i \in 1..Len(s) : Append(s, e)[i] = s[i]
         /\ Append(s, e)[Len(s) + 1] = e
BY SMT

LEMMA ArenaInitially ==
  ASSUME ArenaAssumption, ArenaInit
  PROVE  ArenaInv
<1>1. ArenaTypeOK
  BY DEF ArenaAssumption, ArenaInit, ArenaTypeOK
<1>2. DOMAIN blocks = {}
  BY DEF ArenaInit
<1>3. Chained /\ FrontFreed
  BY DEF ArenaInit, Chained, FrontFreed
<1> QED BY <1>1, <1>2, <1>3 DEF ArenaInv, Behind, InBounds, Disjoint, Aligned

(* What both ways of allocating have in common: a block that is aligned,   *)
(* within its buffer and behind all others of its buffer can be handed out.*)
LEMMA HandingOut ==
  ASSUME ArenaAssumption, ArenaInv,
         NEW block \in Block,
         blocks' = Append(blocks, block),
         block.start + block.size <= Capacity,
         (HeaderSize + block.start) % block.align = 0,
         \A i \in DOMAIN blocks :
           blocks[i].buffer = block.buffer => blocks[i].start + blocks[i].size <= block.start
  PROVE  blocks' \in Seq(Block) /\ InBounds' /\ Disjoint' /\ Aligned'
<1> blocks \in Seq(Block)
  BY DEF ArenaInv, ArenaTypeOK
<1>1. /\ blocks' \in Seq(Block)
      /\ DOMAIN blocks = 1..Len(blocks) /\ Len(blocks) \in Nat
      /\ DOMAIN blocks' = 1..(Len(blocks) + 1)
      /\ \A i \in 1..Len(blocks) : blocks'[i] = blocks[i]
      /\ blocks'[Len(blocks) + 1] = block
  BY Appended
<1>2. InBounds'
  BY <1>1 DEF ArenaInv, InBounds
<1>3. Aligned'
  BY <1>1 DEF ArenaInv, Aligned
<1>4. Disjoint'
  <2> SUFFICES ASSUME NEW i \in DOMAIN blocks', NEW j \in DOMAIN blocks',
                      i < j, blocks'[i].buffer = blocks'[j].buffer
               PROVE  blocks'[i].start + blocks'[i].size <= blocks'[j].start
    BY DEF Disjoint
  <2>1. CASE j \in 1..Len(blocks)
    BY <2>1, <1>1 DEF ArenaInv, Disjoint
  <2>2. CASE j = Len(blocks) + 1
    BY <2>2, <1>1
  <2> QED BY <2>1, <2>2, <1>1
<1> QED BY <1>1, <1>2, <1>3, <1>4

LEMMA AllocateHerePreserves ==
  ASSUME ArenaAssumption, ArenaInv,
         NEW r \in Request, Fitting(r), arenaAlloc(r.size, r.align),
         allocateHere(r.size, r.align)
  PROVE  ArenaInv'
<1> DEFINE start == StartOf(r.align)
           block == Hand(buffer, start, r.size, r.align)
<1>1. /\ buffer' = buffer /\ next' = next /\ live' = live /\ current' = current
      /\ totalAllocated' = totalAllocated + r.size
      /\ offset' = start + r.size
      /\ blocks' = Append(blocks, block)
      /\ Fits(r.size, r.align)
  BY DEF arenaAlloc, allocateHere, OffsetBehind
<1>2. /\ start \in offset..Capacity
      /\ (HeaderSize + start) % r.align = 0
      /\ start + r.size <= Capacity
  BY <1>1, RoomDoesNotWrap DEF ArenaInv, ArenaTypeOK
<1>3. r.size \in Nat \ {0} /\ r.align \in Nat \ {0}
  BY DEF Request
<1>4. /\ buffer \in Nat \ {0} /\ offset \in Nat /\ Capacity \in Nat
      /\ blocks \in Seq(Block)
  BY DEF ArenaInv, ArenaTypeOK, ArenaAssumption
<1>5. start \in Nat
  <2> HIDE DEF start
  <2> QED BY <1>2, <1>4
<1>6. /\ block \in Block
      /\ block.buffer = buffer /\ block.start = start
      /\ block.size = r.size /\ block.align = r.align
  <2> HIDE DEF start
  <2> QED BY <1>3, <1>4, <1>5 DEF Hand, Block
<1> HIDE DEF start, block
<1>7. blocks' \in Seq(Block) /\ InBounds' /\ Disjoint' /\ Aligned'
  <2>1. \A i \in DOMAIN blocks :
          blocks[i].buffer = block.buffer => blocks[i].start + blocks[i].size <= block.start
    <3> SUFFICES ASSUME NEW i \in DOMAIN blocks, blocks[i].buffer = buffer
                 PROVE  blocks[i].start + blocks[i].size <= start
      BY <1>6
    <3>1. blocks[i] \in Block
      BY <1>4
    <3>2. blocks[i].start \in Nat /\ blocks[i].size \in Nat
      BY <3>1 DEF Block
    <3>3. blocks[i].start + blocks[i].size <= offset
      BY DEF ArenaInv, Behind
    <3> QED BY <3>2, <3>3, <1>2, <1>4
  <2> QED BY <2>1, <1>1, <1>2, <1>6, HandingOut
<1>8. ArenaTypeOK'
  <2>1. offset' \in 0..Capacity
    BY <1>1, <1>2, <1>3, <1>4, <1>5
  <2>2. totalAllocated' \in Nat
    BY <1>1, <1>3 DEF ArenaInv, ArenaTypeOK
  <2> QED BY <2>1, <2>2, <1>1, <1>7 DEF ArenaInv, ArenaTypeOK
<1>9. Behind'
  <2> SUFFICES ASSUME NEW i \in DOMAIN blocks'
               PROVE  /\ blocks'[i].buffer <= buffer
                      /\ blocks'[i].buffer = buffer
                           => blocks'[i].start + blocks'[i].size <= offset'
    BY <1>1 DEF Behind
  <2>1. /\ DOMAIN blocks' = 1..(Len(blocks) + 1) /\ DOMAIN blocks = 1..Len(blocks)
        /\ Len(blocks) \in Nat
        /\ \A k \in 1..Len(blocks) : blocks'[k] = blocks[k] /\ blocks[k] \in Block
        /\ blocks'[Len(blocks) + 1] = block
    BY <1>1, <1>4, <1>6, Appended
  <2>2. CASE i \in 1..Len(blocks)
    <3>1. blocks[i].buffer <= buffer
      BY <2>1, <2>2 DEF ArenaInv, Behind
    <3>2. ASSUME blocks[i].buffer = buffer
          PROVE  blocks[i].start + blocks[i].size <= offset'
      <4>1. blocks[i].start + blocks[i].size <= offset
        BY <2>1, <2>2, <3>2 DEF ArenaInv, Behind
      <4>2. blocks[i].start \in Nat /\ blocks[i].size \in Nat
        BY <2>1, <2>2 DEF Block
      <4> QED BY <4>1, <4>2, <1>1, <1>2, <1>3, <1>4, <1>5
    <3> QED BY <3>1, <3>2, <2>1, <2>2
  <2>3. CASE i = Len(blocks) + 1
    BY <2>1, <2>3, <1>1, <1>3, <1>4, <1>5, <1>6
  <2> QED BY <2>1, <2>2, <2>3
<1>10. Chained' /\ FrontFreed'
  BY <1>1 DEF ArenaInv, Chained, FrontFreed
<1> QED BY <1>7, <1>8, <1>9, <1>10 DEF ArenaInv

LEMMA AllocateInNewBufferPreserves ==
  ASSUME ArenaAssumption, ArenaInv,
         NEW r \in Request, Fitting(r), arenaAlloc(r.size, r.align),
         allocateInNewBuffer(r.size, r.align)
  PROVE  ArenaInv'
<1> DEFINE fresh == Len(next) + 1
           block == Hand(fresh, 0, r.size, r.align)
           linked == [next EXCEPT ![buffer] = fresh]
<1>1. /\ buffer' = fresh /\ next' = Append(linked, 0) /\ live' = live \cup {fresh}
      /\ current' = current /\ current = 0 /\ live # {}
      /\ totalAllocated' = totalAllocated + r.size
      /\ offset' = r.size
      /\ blocks' = Append(blocks, block)
  BY DEF arenaAlloc, allocateInNewBuffer, LinkedBuffer
<1>2. /\ r.size \in Nat \ {0} /\ r.align \in Nat \ {0}
      /\ r.size <= Capacity /\ HeaderSize % r.align = 0
  BY DEF Request, Fitting
<1>3. /\ buffer = Len(next) /\ next \in Seq(Nat) /\ Len(next) \in Nat
      /\ buffer \in 1..Len(next)
      /\ Capacity \in Nat /\ HeaderSize \in Nat
      /\ blocks \in Seq(Block)
  BY DEF ArenaInv, ArenaTypeOK, ArenaAssumption, Chained
<1>4. fresh \in Nat \ {0}
  BY <1>3
<1>5. linked \in Seq(Nat) /\ Len(linked) = Len(next)
  BY <1>3, <1>4
<1>6. /\ next' \in Seq(Nat) /\ Len(next') = fresh
      /\ \A b \in 1..Len(next) : next'[b] = IF b = buffer THEN fresh ELSE next[b]
      /\ next'[fresh] = 0
  <2>1. \A b \in 1..Len(next) : linked[b] = IF b = buffer THEN fresh ELSE next[b]
    BY <1>3
  <2> HIDE DEF linked
  <2> QED BY <2>1, <1>1, <1>5, Appended
<1>7. /\ block \in Block
      /\ block.buffer = fresh /\ block.start = 0
      /\ block.size = r.size /\ block.align = r.align
  <2> HIDE DEF fresh
  <2> QED BY <1>2, <1>4 DEF Hand, Block
<1>8. \A k \in DOMAIN blocks : blocks[k] \in Block /\ blocks[k].buffer < fresh
  <2> SUFFICES ASSUME NEW k \in DOMAIN blocks
               PROVE  blocks[k] \in Block /\ blocks[k].buffer < fresh
    OBVIOUS
  <2>1. blocks[k] \in Block
    BY <1>3
  <2>2. blocks[k].buffer \in Nat /\ blocks[k].buffer <= buffer
    BY <2>1 DEF Block, ArenaInv, Behind
  <2> QED BY <2>1, <2>2, <1>3
<1>9. Chained'
  <2>1. buffer' = Len(next')
    BY <1>1, <1>6
  <2>2. ASSUME NEW b \in 1..Len(next')
        PROVE  next'[b] = IF b = Len(next') THEN 0 ELSE b + 1
    <3>1. CASE b = fresh
      BY <3>1, <1>6
    <3>2. CASE b \in 1..Len(next)
      <4>1. next[b] = IF b = Len(next) THEN 0 ELSE b + 1
        BY <3>2 DEF ArenaInv, Chained
      <4>2. b # fresh
        BY <3>2, <1>3
      <4> QED BY <3>2, <4>1, <4>2, <1>3, <1>6
    <3> QED BY <3>1, <3>2, <1>3, <1>6
  <2> QED BY <2>1, <2>2 DEF Chained
<1>10. FrontFreed' /\ live' \subseteq 1..Len(next')
  <2>1. live = 1..Len(next)
    BY <1>1 DEF ArenaInv, FrontFreed
  <2>2. live' = 1..Len(next')
    BY <2>1, <1>1, <1>3, <1>6
  <2> QED BY <2>2, <1>1 DEF FrontFreed
<1> HIDE DEF fresh, block, linked
<1>11. blocks' \in Seq(Block) /\ InBounds' /\ Disjoint' /\ Aligned'
  <2>1. \A k \in DOMAIN blocks : blocks[k].buffer # block.buffer
    <3> SUFFICES ASSUME NEW k \in DOMAIN blocks
                 PROVE  blocks[k].buffer # fresh
      BY <1>7
    <3>1. blocks[k].buffer < fresh /\ blocks[k].buffer \in Nat
      BY <1>8 DEF Block
    <3> QED BY <3>1, <1>4
  <2>2. block.start + block.size <= Capacity /\ (HeaderSize + block.start) % block.align = 0
    BY <1>2, <1>3, <1>7
  <2> QED BY <2>1, <2>2, <1>1, <1>7, HandingOut
<1>12. ArenaTypeOK'
  <2>1. offset' \in 0..Capacity
    BY <1>1, <1>2, <1>3
  <2>2. totalAllocated' \in Nat
    BY <1>1, <1>2 DEF ArenaInv, ArenaTypeOK
  <2>3. buffer' \in 1..Len(next') /\ current' \in 0..Len(next')
    BY <1>1, <1>4, <1>6
  <2> QED BY <2>1, <2>2, <2>3, <1>6, <1>10, <1>11 DEF ArenaTypeOK
<1>13. Behind'
  <2> SUFFICES ASSUME NEW i \in DOMAIN blocks'
               PROVE  /\ blocks'[i].buffer <= fresh
                      /\ blocks'[i].buffer = fresh
                           => blocks'[i].start + blocks'[i].size <= r.size
    BY <1>1 DEF Behind
  <2>1. /\ DOMAIN blocks' = 1..(Len(blocks) + 1) /\ DOMAIN blocks = 1..Len(blocks)
        /\ Len(blocks) \in Nat
        /\ \A k \in 1..Len(blocks) : blocks'[k] = blocks[k]
        /\ blocks'[Len(blocks) + 1] = block
    BY <1>1, <1>3, <1>7, Appended
  <2>2. CASE i \in 1..Len(blocks)
    <3>1. blocks'[i].buffer < fresh /\ blocks'[i].buffer \in Nat
      BY <2>1, <2>2, <1>8 DEF Block
    <3> QED BY <3>1, <1>4
  <2>3. CASE i = Len(blocks) + 1
    BY <2>1, <2>3, <1>2, <1>4, <1>7
  <2> QED BY <2>1, <2>2, <2>3
<1> QED BY <1>9, <1>10, <1>11, <1>12, <1>13 DEF ArenaInv

LEMMA FreeBufferPreserves ==
  ASSUME ArenaAssumption, ArenaInv, freeBuffer
  PROVE  ArenaInv'
<1>1. /\ current # 0 /\ current' = next[current] /\ live' = live \ {current}
      /\ UNCHANGED <<buffer, offset, totalAllocated, next, blocks>>
  BY DEF freeBuffer
<1>2. current \in 1..Len(next) /\ Len(next) \in Nat
  BY <1>1 DEF ArenaInv, ArenaTypeOK
<1>3. current' = IF current = Len(next) THEN 0 ELSE current + 1
  BY <1>1, <1>2 DEF ArenaInv, Chained
<1>4. live = current..Len(next)
  BY <1>1 DEF ArenaInv, FrontFreed
<1>5. FrontFreed'
  <2>1. CASE current = Len(next)
    BY <2>1, <1>1, <1>2, <1>3, <1>4 DEF FrontFreed
  <2>2. CASE current # Len(next)
    BY <2>2, <1>1, <1>2, <1>3, <1>4 DEF FrontFreed
  <2> QED BY <2>1, <2>2
<1>6. ArenaTypeOK'
  BY <1>1, <1>2, <1>3, <1>4 DEF ArenaInv, ArenaTypeOK
<1>7. Behind' /\ Chained' /\ InBounds' /\ Disjoint' /\ Aligned'
  BY <1>1 DEF ArenaInv, Behind, Chained, InBounds, Disjoint, Aligned
<1> QED BY <1>5, <1>6, <1>7 DEF ArenaInv

LEMMA ArenaStep ==
  ASSUME ArenaAssumption, ArenaInv, [ArenaNext]_arenaVars
  PROVE  ArenaInv'
<1>1. ASSUME NEW r \in Request, Fitting(r), arenaAlloc(r.size, r.align)
      PROVE  ArenaInv'
  <2>1. allocateHere(r.size, r.align) \/ allocateInNewBuffer(r.size, r.align)
    BY <1>1 DEF arenaAlloc
  <2> QED BY <2>1, <1>1, AllocateHerePreserves, AllocateInNewBufferPreserves
<1>2. CASE arenaDestroy
  <2>1. /\ live # {} /\ current = 0 /\ current' = 1
        /\ UNCHANGED <<buffer, offset, totalAllocated, next, live, blocks>>
    BY <1>2 DEF arenaDestroy
  <2>2. FrontFreed'
    BY <2>1 DEF ArenaInv, FrontFreed
  <2>3. ArenaTypeOK'
    BY <2>1 DEF ArenaInv, ArenaTypeOK
  <2> QED BY <2>1, <2>2, <2>3
          DEF ArenaInv, Behind, Chained, InBounds, Disjoint, Aligned
<1>3. CASE freeBuffer
  BY <1>3, FreeBufferPreserves
<1>4. CASE UNCHANGED arenaVars
  BY <1>4 DEF arenaVars, ArenaInv, ArenaTypeOK, Behind, Chained, FrontFreed,
              InBounds, Disjoint, Aligned
<1>5. CASE Destroyed
  BY <1>4, <1>5 DEF Destroyed
<1> QED BY <1>1, <1>2, <1>3, <1>4, <1>5 DEF ArenaNext

-----------------------------------------------------------------------------
(* What is proved of the arena.                                            *)

LEMMA ArenaInvariant == ArenaSpec => []ArenaInv
<1>1. ArenaInit => ArenaInv
  BY ArenaAssumption, ArenaInitially
<1>2. ArenaInv /\ [ArenaNext]_arenaVars => ArenaInv'
  BY ArenaAssumption, ArenaStep
<1> QED BY <1>1, <1>2, PTL DEF ArenaSpec

(* The arena's variables keep their types: the offset never leaves the     *)
(* buffer, and the links lead to buffers that exist.                       *)
THEOREM ArenaTypeCorrect == ArenaSpec => []ArenaTypeOK
<1>1. ArenaInv => ArenaTypeOK
  BY DEF ArenaInv
<1> QED BY <1>1, ArenaInvariant, PTL

(* No block that arenaAlloc hands out reaches beyond its buffer.           *)
THEOREM BlocksInBounds == ArenaSpec => []InBounds
<1>1. ArenaInv => InBounds
  BY DEF ArenaInv
<1> QED BY <1>1, ArenaInvariant, PTL

(* No two blocks that arenaAlloc hands out share a byte.                   *)
THEOREM BlocksDisjoint == ArenaSpec => []Disjoint
<1>1. ArenaInv => Disjoint
  BY DEF ArenaInv
<1> QED BY <1>1, ArenaInvariant, PTL

(* Every block that arenaAlloc hands out is aligned as it was asked for.   *)
THEOREM BlocksAligned == ArenaSpec => []Aligned
<1>1. ArenaInv => Aligned
  BY DEF ArenaInv
<1> QED BY <1>1, ArenaInvariant, PTL

(* arenaDestroy follows live buffers only, frees each of them once, and    *)
(* stops when none is left.                                                *)
THEOREM DestroyFreesEveryBuffer == ArenaSpec => DestroyFreesAll
<1> DEFINE Freed == /\ current' # 0 => current' \in live'
                    /\ current # 0 /\ current' = 0 => live' = {}
<1>1. ArenaInv /\ ArenaInv' /\ [ArenaNext]_arenaVars => [Freed]_arenaVars
  <2> SUFFICES ASSUME ArenaInv, ArenaInv', ArenaNext
               PROVE  Freed
    OBVIOUS
  <2>1. current' # 0 => current' \in live'
    BY DEF ArenaInv, ArenaTypeOK, FrontFreed
  <2>2. ASSUME current # 0, current' = 0
        PROVE  live' = {}
    <3>1. \/ freeBuffer
          \/ UNCHANGED current
      BY <2>2 DEF ArenaNext, arenaAlloc, arenaDestroy, Destroyed, arenaVars
    <3>2. freeBuffer
      BY <3>1, <2>2
    <3>3. current \in 1..Len(next) /\ next[current] = 0 /\ live' = live \ {current}
      BY <3>2, <2>2 DEF freeBuffer, ArenaInv, ArenaTypeOK
    <3>4. current = Len(next)
      BY <3>3 DEF ArenaInv, Chained
    <3>5. live = current..Len(next)
      BY <2>2 DEF ArenaInv, FrontFreed
    <3> QED BY <3>3, <3>4, <3>5
  <2> QED BY <2>1, <2>2
<1> QED BY <1>1, ArenaInvariant, PTL DEF ArenaSpec, DestroyFreesAll

-----------------------------------------------------------------------------
(* The inductive invariant.  An array that is not empty holds a block of   *)
(* the arena, and no two of these overlap.                                 *)

BlockOf(a) ==
  Hand(arrays[a].data.buffer, arrays[a].data.start,
       arrays[a].capacity * ItemSize[a], ItemSize[a])

Separate(x, y) ==
  \/ x.buffer # y.buffer
  \/ x.start + x.size <= y.start
  \/ y.start + y.size <= x.start

(* A buffer is made for a block, but for the first: all have their cells.  *)
FewBuffers == Len(next) <= Len(blocks) + 1 /\ Len(blocks) <= MaxBlocks

Held == \A a \in Arrays : arrays[a].capacity > 0 => \E i \in DOMAIN blocks : blocks[i] = BlockOf(a)

Apart ==
  \A a, b \in Arrays :
    a # b /\ arrays[a].capacity > 0 /\ arrays[b].capacity > 0 => Separate(BlockOf(a), BlockOf(b))

ArraysInv == TypeOK /\ ArenaInv /\ FewBuffers /\ Held /\ Apart

-----------------------------------------------------------------------------
(* Arithmetic of items in a block, and what a push does to the records.    *)

(* Of "count" items of a size, one before the last ends inside.            *)
LEMMA ItemOffset ==
  ASSUME NEW size \in Nat \ {0}, NEW count \in Nat, NEW k \in 0..(count - 1)
  PROVE  /\ k * size \in Nat /\ count * size \in Nat
         /\ k * size + size <= count * size
<1>1. k * size \in Nat /\ count * size \in Nat
  BY Z3
<1>2. (count - k - 1) * size >= 0
  <2>1. count - k - 1 \in Nat
    OBVIOUS
  <2> QED BY <2>1, Z3
<1>3. (count - k - 1) * size = count * size - (k * size + size)
  BY Z3
<1> QED BY <1>1, <1>2, <1>3

LEMMA ItemsApart ==
  ASSUME NEW size \in Nat \ {0}, NEW k \in Nat, NEW m \in Nat, k < m
  PROVE  k * size + size <= m * size
BY ItemOffset

LEMMA PushInPlaceRecords ==
  ASSUME TypeOK, NEW a \in Arrays, NEW item \in Items, pushInPlace(a, item)
  PROVE  /\ arrays' \in [Arrays -> Array]
         /\ arrays'[a].length = arrays[a].length + 1
         /\ arrays'[a].capacity = arrays[a].capacity /\ arrays'[a].data = arrays[a].data
         /\ \A b \in Arrays \ {a} : arrays'[b] = arrays[b]
<1>1. arrays' = [arrays EXCEPT ![a].length = @ + 1]
  BY DEF pushInPlace
<1>2. arrays[a] \in Array /\ arrays[a].length + 1 \in Nat
  BY DEF TypeOK, Array
<1> QED BY <1>1, <1>2 DEF TypeOK, Array

LEMMA PushAndGrowRecords ==
  ASSUME TypeOK, NEW a \in Arrays, NEW item \in Items, pushAndGrow(a, item),
         NEW block, block = blocks'[Len(blocks')],
         block.buffer \in Nat, block.start \in Nat
  PROVE  /\ arrays' \in [Arrays -> Array]
         /\ arrays'[a].length = arrays[a].length + 1
         /\ arrays'[a].capacity = GROW_CAPACITY(arrays[a].capacity)
         /\ arrays'[a].data = [buffer |-> block.buffer, start |-> block.start]
         /\ \A b \in Arrays \ {a} : arrays'[b] = arrays[b]
<1> DEFINE grown == [capacity |-> GROW_CAPACITY(arrays[a].capacity),
                     length |-> arrays[a].length + 1,
                     data |-> [buffer |-> block.buffer, start |-> block.start]]
<1>1. arrays' = [arrays EXCEPT ![a] = grown]
  BY DEF pushAndGrow
<1>2. arrays[a] \in Array /\ arrays[a].length \in Nat /\ arrays[a].capacity \in Nat
  BY DEF TypeOK, Array
<1>3. grown \in Array
  BY <1>2, ArraysAssumption DEF Array, GROW_CAPACITY
<1>4. /\ grown.length = arrays[a].length + 1
      /\ grown.capacity = GROW_CAPACITY(arrays[a].capacity)
      /\ grown.data = [buffer |-> block.buffer, start |-> block.start]
  OBVIOUS
<1> HIDE DEF grown
<1> QED BY <1>1, <1>3, <1>4 DEF TypeOK

-----------------------------------------------------------------------------
(* A block the arena hands out has its cells, and is separate from all the *)
(* blocks before it.                                                       *)

LEMMA Allocated ==
  ASSUME ArenaInv, FewBuffers, NEW r \in Request, Fitting(r), arenaAlloc(r.size, r.align)
  PROVE  /\ ArenaInv' /\ FewBuffers'
         /\ \A i \in DOMAIN blocks : i \in DOMAIN blocks' /\ blocks'[i] = blocks[i]
         /\ Len(blocks') \in DOMAIN blocks'
         /\ \E block \in Block :
              /\ block = blocks'[Len(blocks')]
              /\ block.size = r.size /\ block.align = r.align
              /\ block.buffer \in 1..(MaxBlocks + 1) /\ block.start + block.size <= Capacity
              /\ \A i \in DOMAIN blocks : Separate(blocks[i], block)
<1>1. ArenaInv'
  <2>1. ArenaNext
    BY DEF ArenaNext
  <2> QED BY <2>1, ArenaAssumption, ArenaStep
<1>2. /\ blocks \in Seq(Block) /\ blocks' \in Seq(Block) /\ next \in Seq(Nat)
      /\ buffer \in 1..Len(next) /\ MaxBlocks \in Nat
  BY <1>1, ArenaAssumption DEF ArenaInv, ArenaTypeOK, ArenaAssumption
<1>3. PICK block : /\ blocks' = Append(blocks, block)
                   /\ block.size = r.size /\ block.align = r.align
  BY DEF arenaAlloc, allocateHere, allocateInNewBuffer, Hand
<1>4. /\ Len(blocks') = Len(blocks) + 1 /\ blocks'[Len(blocks) + 1] = block
      /\ \A i \in DOMAIN blocks : i \in DOMAIN blocks' /\ blocks'[i] = blocks[i]
      /\ DOMAIN blocks' = 1..(Len(blocks) + 1) /\ Len(blocks) \in Nat
      /\ DOMAIN blocks = 1..Len(blocks)
  BY <1>2, <1>3
<1>5. block \in Block
  BY <1>2, <1>4
<1>6. Len(next') <= Len(next) + 1
  <2>1. CASE UNCHANGED next
    BY <1>2, <2>1
  <2>2. CASE next' = LinkedBuffer(Len(next) + 1)
    BY <1>2, <2>2 DEF LinkedBuffer
  <2> QED BY <2>1, <2>2 DEF arenaAlloc, allocateHere, allocateInNewBuffer
<1>7. FewBuffers'
  <2>1. Len(blocks) < MaxBlocks /\ Len(next) <= Len(blocks) + 1
    BY DEF arenaAlloc, FewBuffers
  <2>2. next' \in Seq(Nat)
    BY <1>1 DEF ArenaInv, ArenaTypeOK
  <2>3. Len(next) \in Nat /\ Len(next') \in Nat
    BY <1>2, <2>2
  <2>4. Len(next') <= Len(blocks') + 1 /\ Len(blocks') <= MaxBlocks
    BY <1>2, <1>4, <1>6, <2>1, <2>3
  <2> QED BY <2>4 DEF FewBuffers
<1>8. block.buffer \in 1..(MaxBlocks + 1)
  <2>1. block.buffer <= buffer' /\ buffer' = Len(next') /\ block.buffer \in Nat \ {0}
    BY <1>1, <1>4, <1>5 DEF ArenaInv, Behind, Chained, Block
  <2>2. Len(next') <= MaxBlocks + 1 /\ Len(next') \in Nat
    <3>1. next' \in Seq(Nat) /\ blocks' \in Seq(Block)
      BY <1>1 DEF ArenaInv, ArenaTypeOK
    <3>2. Len(next') <= Len(blocks') + 1 /\ Len(blocks') <= MaxBlocks
      BY <1>7 DEF FewBuffers
    <3> QED BY <1>2, <3>1, <3>2
  <2> QED BY <1>2, <2>1, <2>2
<1>9. block.start + block.size <= Capacity
  BY <1>1, <1>4 DEF ArenaInv, InBounds
<1>10. \A i \in DOMAIN blocks : Separate(blocks[i], block)
  <2> TAKE i \in DOMAIN blocks
  <2>1. i < Len(blocks) + 1 /\ i \in DOMAIN blocks' /\ Len(blocks) + 1 \in DOMAIN blocks'
    BY <1>4
  <2>2. blocks'[i] = blocks[i] /\ blocks'[Len(blocks) + 1] = block
    BY <1>4
  <2> QED BY <1>1, <2>1, <2>2 DEF ArenaInv, Disjoint, Separate
<1> QED BY <1>1, <1>4, <1>5, <1>7, <1>3, <1>8, <1>9, <1>10

(* The other actions of the arena hand out nothing.                        *)
LEMMA NotAllocated ==
  ASSUME ArenaInv, FewBuffers, destroy
  PROVE  ArenaInv' /\ FewBuffers' /\ blocks' = blocks /\ UNCHANGED <<arrays, memory>>
<1>1. ArenaNext
  BY DEF destroy, ArenaNext
<1>2. ArenaInv'
  BY <1>1, ArenaAssumption, ArenaStep
<1>3. UNCHANGED <<blocks, next, arrays, memory>>
  BY DEF destroy, arenaDestroy, freeBuffer, Destroyed, arenaVars
<1> QED BY <1>2, <1>3 DEF FewBuffers

-----------------------------------------------------------------------------
(* The cells of an array's items.                                          *)

ByteOf(a, k) == arrays[a].data.start + k * ItemSize[a]

LEMMA ArrayTypes ==
  ASSUME TypeOK, NEW a \in Arrays
  PROVE  /\ arrays[a].capacity \in Nat /\ arrays[a].length \in Nat
         /\ arrays[a].length <= arrays[a].capacity
         /\ arrays[a].data.buffer \in Nat /\ arrays[a].data.start \in Nat
         /\ ItemSize[a] \in Nat \ {0}
         /\ arrays[a].capacity * ItemSize[a] \in Nat
<1>1. arrays[a] \in Array
  BY DEF TypeOK
<1>2. /\ arrays[a].capacity \in Nat /\ arrays[a].length \in Nat
      /\ arrays[a].data \in [buffer : Nat, start : Nat]
  BY <1>1 DEF Array
<1>3. arrays[a].length <= arrays[a].capacity /\ ItemSize[a] \in Nat \ {0}
  BY ArraysAssumption DEF TypeOK
<1>4. \A x \in Nat, y \in Nat \ {0} : x * y \in Nat
  OBVIOUS
<1> QED BY <1>2, <1>3, <1>4

(* The block of an array that is not empty lies inside a buffer that has   *)
(* cells.                                                                  *)
LEMMA BlockInside ==
  ASSUME ArraysInv, NEW a \in Arrays, arrays[a].capacity > 0
  PROVE  /\ arrays[a].data.buffer \in 1..(MaxBlocks + 1)
         /\ arrays[a].data.start + arrays[a].capacity * ItemSize[a] <= Capacity
<1>1. PICK i \in DOMAIN blocks : blocks[i] = BlockOf(a)
  BY DEF ArraysInv, Held
<1>2. /\ BlockOf(a).buffer = arrays[a].data.buffer /\ BlockOf(a).start = arrays[a].data.start
      /\ BlockOf(a).size = arrays[a].capacity * ItemSize[a]
  BY DEF BlockOf, Hand
<1>3. blocks[i].start + blocks[i].size <= Capacity
  BY DEF ArraysInv, ArenaInv, InBounds
<1>4. blocks[i].buffer <= buffer /\ buffer = Len(next) /\ blocks[i] \in Block
      /\ next \in Seq(Nat) /\ blocks \in Seq(Block)
  BY DEF ArraysInv, ArenaInv, Behind, Chained, ArenaTypeOK
<1>5. Len(next) <= Len(blocks) + 1 /\ Len(blocks) <= MaxBlocks /\ MaxBlocks \in Nat
  BY ArenaAssumption DEF ArraysInv, FewBuffers, ArenaAssumption
<1>6. blocks[i].buffer \in Nat \ {0}
  BY <1>4 DEF Block
<1>7. Len(next) \in Nat /\ Len(blocks) \in Nat
  BY <1>4
<1>8. blocks[i].buffer \in 1..(MaxBlocks + 1)
  BY <1>4, <1>5, <1>6, <1>7
<1> QED BY <1>1, <1>2, <1>3, <1>8

LEMMA ItemInside ==
  ASSUME ArraysInv, NEW a \in Arrays, NEW k \in 0..(arrays[a].capacity - 1)
  PROVE  /\ ByteOf(a, k) \in Nat /\ arrays[a].data.start <= ByteOf(a, k)
         /\ ByteOf(a, k) + ItemSize[a] <= arrays[a].data.start + arrays[a].capacity * ItemSize[a]
         /\ <<arrays[a].data.buffer, ByteOf(a, k)>> \in Cells
<1> DEFINE capacity == arrays[a].capacity
           start == arrays[a].data.start
           size == ItemSize[a]
<1>1. capacity \in Nat /\ start \in Nat /\ size \in Nat \ {0} /\ capacity > 0
      /\ k \in 0..(capacity - 1) /\ Capacity \in Nat
  BY ArrayTypes, ArenaAssumption DEF ArraysInv, ArenaAssumption
<1>2. arrays[a].data.buffer \in 1..(MaxBlocks + 1) /\ start + capacity * size <= Capacity
  BY <1>1, BlockInside
<1>3. ByteOf(a, k) = start + k * size
  BY DEF ByteOf
<1> HIDE DEF capacity, start, size
<1>4. k * size \in Nat /\ capacity * size \in Nat /\ k * size + size <= capacity * size
  BY <1>1, ItemOffset
<1>5. /\ ByteOf(a, k) \in Nat /\ start <= ByteOf(a, k)
      /\ ByteOf(a, k) + size <= start + capacity * size
  BY <1>1, <1>3, <1>4
<1>6. ByteOf(a, k) \in 0..(Capacity - 1)
  BY <1>1, <1>2, <1>4, <1>5
<1> QED BY <1>2, <1>5, <1>6 DEF Cells, capacity, start, size

(* Only cells of a block are written.                                      *)
WritesOnly(block) ==
  \A c \in Cells :
    \/ c[1] = block.buffer /\ c[2] \in block.start..(block.start + block.size - 1)
    \/ memory'[c] = memory[c]

(* An array whose block is separate from what is written keeps its items.  *)
LEMMA ContentsKept ==
  ASSUME ArraysInv, NEW a \in Arrays, arrays'[a] = arrays[a],
         NEW block \in Block, WritesOnly(block),
         arrays[a].capacity > 0 => Separate(BlockOf(a), block)
  PROVE  Contents(a)' = Contents(a)
<1> SUFFICES ASSUME NEW k \in 1..arrays[a].length
             PROVE  memory'[<<arrays[a].data.buffer, ByteOf(a, k - 1)>>]
                      = memory[<<arrays[a].data.buffer, ByteOf(a, k - 1)>>]
  BY DEF Contents, growableArrayGet, ByteOf
<1> DEFINE c == <<arrays[a].data.buffer, ByteOf(a, k - 1)>>
<1>1. /\ arrays[a].length \in Nat /\ arrays[a].capacity \in Nat
      /\ arrays[a].length <= arrays[a].capacity /\ arrays[a].data.start \in Nat
      /\ ItemSize[a] \in Nat \ {0} /\ arrays[a].capacity * ItemSize[a] \in Nat
  BY ArrayTypes DEF ArraysInv
<1>2. k - 1 \in 0..(arrays[a].capacity - 1) /\ arrays[a].capacity > 0
  BY <1>1
<1>3. /\ ByteOf(a, k - 1) \in Nat /\ arrays[a].data.start <= ByteOf(a, k - 1)
      /\ ByteOf(a, k - 1) + ItemSize[a]
           <= arrays[a].data.start + arrays[a].capacity * ItemSize[a]
      /\ c \in Cells
  BY <1>2, ItemInside
<1>4. /\ BlockOf(a).buffer = arrays[a].data.buffer /\ BlockOf(a).start = arrays[a].data.start
      /\ BlockOf(a).size = arrays[a].capacity * ItemSize[a]
  BY DEF BlockOf, Hand
<1>5. block.start \in Nat /\ block.size \in Nat
  BY DEF Block
<1>6. Separate(BlockOf(a), block)
  BY <1>2
<1>7. ~ (c[1] = block.buffer /\ c[2] \in block.start..(block.start + block.size - 1))
  <2> DEFINE byte == ByteOf(a, k - 1)
             size == arrays[a].capacity * ItemSize[a]
  <2>1. c[1] = arrays[a].data.buffer /\ c[2] = byte
    OBVIOUS
  <2>2. \/ arrays[a].data.buffer # block.buffer
        \/ arrays[a].data.start + size <= block.start
        \/ block.start + block.size <= arrays[a].data.start
    BY <1>4, <1>6 DEF Separate
  <2>3. byte \in Nat /\ size \in Nat /\ arrays[a].data.start <= byte
        /\ byte < arrays[a].data.start + size
    BY <1>1, <1>3
  <2> HIDE DEF byte, size, c
  <2> QED BY <1>1, <1>5, <2>1, <2>2, <2>3
<1> QED BY <1>3, <1>7 DEF WritesOnly

(* An array of as many cells as its contents and one more.                 *)
LEMMA ContentsAppended ==
  ASSUME NEW S, NEW s \in Seq(S), NEW item \in S, NEW n \in Nat, Len(s) = n,
         NEW t, t \in [1..(n + 1) -> S],
         \A i \in 1..n : t[i] = s[i], t[n + 1] = item
  PROVE  t = Append(s, item)
<1>1. t \in Seq(S) /\ Len(t) = n + 1
  OBVIOUS
<1>2. Append(s, item) \in Seq(S) /\ Len(Append(s, item)) = n + 1
      /\ (\A i \in 1..n : Append(s, item)[i] = s[i]) /\ Append(s, item)[n + 1] = item
  BY AppendProperties
<1>3. \A i \in 1..(n + 1) : t[i] = Append(s, item)[i]
  BY <1>2
<1> QED BY ONLY <1>1, <1>2, <1>3, SeqEqual

(* Writing a region of one item.                                           *)
OnlyWritten(mem, new, b, start, size, item) ==
  \A c \in Cells :
    /\ c[1] = b /\ c[2] \in start..(start + size - 1) => new[c] = item
    /\ ~ (c[1] = b /\ c[2] \in start..(start + size - 1)) => new[c] = mem[c]

LEMMA WrittenRegion ==
  ASSUME NEW mem \in [Cells -> Items \cup {Foreign}], NEW b \in Nat, NEW start \in Nat,
         NEW size \in Nat, NEW item \in Items \cup {Foreign},
         NEW new, new = Written(mem, Region(b, start, 1, size), item)
  PROVE  /\ new \in [Cells -> Items \cup {Foreign}]
         /\ OnlyWritten(mem, new, b, start, size, item)
<1> DEFINE R == Region(b, start, 1, size)
<1>1. new = [c \in Cells |-> IF c \in R THEN item ELSE mem[c]]
  BY DEF Written
<1>2. ASSUME NEW c \in Cells
      PROVE  c \in R <=> c[1] = b /\ c[2] \in start..(start + size - 1)
  <2>1. c = <<c[1], c[2]>>
    BY DEF Cells
  <2>2. start + 1 * size - 1 = start + size - 1
    OBVIOUS
  <2> QED BY <2>1, <2>2 DEF Region
<1> HIDE DEF R
<1> QED BY <1>1, <1>2 DEF OnlyWritten

LEMMA MemoryType == ArraysInv => memory \in [Cells -> Items \cup {Foreign}]
BY DEF ArraysInv, TypeOK

LEMMA ContentsType ==
  ASSUME ArraysInv, NEW a \in Arrays
  PROVE  /\ Contents(a) \in Seq(Items \cup {Foreign}) /\ Len(Contents(a)) = arrays[a].length
         /\ Contents(a) = [i \in 1..arrays[a].length |->
                            memory[<<arrays[a].data.buffer, ByteOf(a, i - 1)>>]]
<1> DEFINE cell(i) == memory[<<arrays[a].data.buffer, ByteOf(a, i - 1)>>]
<1>1. Contents(a) = [i \in 1..arrays[a].length |-> cell(i)]
  BY DEF Contents, growableArrayGet, ByteOf
<1>2. arrays[a].length \in Nat /\ arrays[a].length <= arrays[a].capacity
      /\ arrays[a].capacity \in Nat
  BY ArrayTypes DEF ArraysInv
<1>3. ASSUME NEW i \in 1..arrays[a].length
      PROVE  cell(i) \in Items \cup {Foreign}
  <2>1. i - 1 \in 0..(arrays[a].capacity - 1)
    BY <1>2
  <2>2. <<arrays[a].data.buffer, ByteOf(a, i - 1)>> \in Cells
    BY <2>1, ItemInside
  <2> QED BY <2>2, MemoryType
<1> HIDE DEF cell
<1>4. Contents(a) \in [1..arrays[a].length -> Items \cup {Foreign}]
  BY <1>1, <1>3
<1>5. Contents(a) \in Seq(Items \cup {Foreign}) /\ Len(Contents(a)) = arrays[a].length
  BY <1>2, <1>4
<1> QED BY <1>1, <1>5 DEF cell

(* The block of an array is one of the arena's.                            *)
LEMMA BlockType ==
  ASSUME ArraysInv, NEW a \in Arrays, arrays[a].capacity > 0
  PROVE  /\ BlockOf(a) \in Block
         /\ BlockOf(a).buffer = arrays[a].data.buffer
         /\ BlockOf(a).start = arrays[a].data.start
         /\ BlockOf(a).size = arrays[a].capacity * ItemSize[a]
<1>1. PICK i \in DOMAIN blocks : blocks[i] = BlockOf(a)
  BY DEF ArraysInv, Held
<1>2. blocks \in Seq(Block)
  BY DEF ArraysInv, ArenaInv, ArenaTypeOK
<1>3. BlockOf(a) \in Block
  BY <1>1, <1>2
<1> QED BY <1>3 DEF BlockOf, Hand

-----------------------------------------------------------------------------
(* What the operations do with the contents of the arrays.                 *)

LEMMA PushedInPlace ==
  ASSUME ArraysInv, NEW a \in Arrays, NEW item \in Items, pushInPlace(a, item)
  PROVE  /\ arrays[a].capacity > 0
         /\ memory' \in [Cells -> Items \cup {Foreign}]
         /\ WritesOnly(BlockOf(a))
         /\ Contents(a)' = Append(Contents(a), item)
<1> DEFINE length == arrays[a].length
           size == ItemSize[a]
           b == arrays[a].data.buffer
           start == arrays[a].data.start
           capacity == arrays[a].capacity
<1>1. /\ length \in Nat /\ capacity \in Nat /\ b \in Nat /\ start \in Nat
      /\ size \in Nat \ {0} /\ capacity * size \in Nat
  BY ArrayTypes DEF ArraysInv
<1>2. length < capacity /\ capacity > 0 /\ length \in 0..(capacity - 1)
  BY <1>1 DEF pushInPlace
<1>3. /\ arrays'[a].length = length + 1 /\ arrays'[a].data = arrays[a].data
  BY PushInPlaceRecords DEF ArraysInv
<1>4. /\ ByteOf(a, length) \in Nat /\ start <= ByteOf(a, length)
      /\ ByteOf(a, length) + size <= start + capacity * size
      /\ <<b, ByteOf(a, length)>> \in Cells
  BY <1>2, ItemInside
<1>5. memory' = Written(memory, Region(b, ByteOf(a, length), 1, size), item)
  BY DEF pushInPlace, Store, ByteOf
<1>6. BlockOf(a).buffer = b /\ BlockOf(a).start = start /\ BlockOf(a).size = capacity * size
  BY <1>2, BlockType
<1>7. \A k \in 0..length : ByteOf(a, k) = start + k * size
  BY DEF ByteOf
<1>8. Contents(a)' = [i \in 1..(length + 1) |-> memory'[<<b, ByteOf(a, i - 1)>>]]
  BY <1>3 DEF Contents, growableArrayGet, ByteOf
<1>9. /\ Contents(a) \in Seq(Items \cup {Foreign}) /\ Len(Contents(a)) = length
      /\ Contents(a) = [i \in 1..length |-> memory[<<b, ByteOf(a, i - 1)>>]]
  BY ContentsType
<1>10. ASSUME NEW k \in 0..length
       PROVE  /\ <<b, ByteOf(a, k)>> \in Cells /\ ByteOf(a, k) \in Nat
              /\ k < length => ByteOf(a, k) < ByteOf(a, length)
  <2>1. k \in 0..(capacity - 1)
    BY <1>1, <1>2
  <2>2. k < length => k * size + size <= length * size
    BY <1>1, ItemsApart
  <2>3. k * size \in Nat /\ length * size \in Nat
    BY <1>1
  <2>4. k < length => ByteOf(a, k) < ByteOf(a, length)
    BY <1>1, <1>7, <2>2, <2>3
  <2> QED BY <2>1, <2>4, ItemInside
<1> HIDE DEF length, size, b, start, capacity
<1>11. /\ memory' \in [Cells -> Items \cup {Foreign}]
       /\ \A c \in Cells :
            /\ c[1] = b /\ c[2] \in ByteOf(a, length)..(ByteOf(a, length) + size - 1)
                 => memory'[c] = item
            /\ ~ (c[1] = b /\ c[2] \in ByteOf(a, length)..(ByteOf(a, length) + size - 1))
                 => memory'[c] = memory[c]
  <2>1. /\ memory \in [Cells -> Items \cup {Foreign}] /\ size \in Nat /\ b \in Nat
        /\ ByteOf(a, length) \in Nat /\ item \in Items \cup {Foreign}
    BY <1>1, <1>4, MemoryType
  <2>2. OnlyWritten(memory, memory', b, ByteOf(a, length), size, item)
        /\ memory' \in [Cells -> Items \cup {Foreign}]
    BY <1>5, <2>1, WrittenRegion
  <2> QED BY <2>2 DEF OnlyWritten
<1>12. WritesOnly(BlockOf(a))
  <2>1. \A x \in ByteOf(a, length)..(ByteOf(a, length) + size - 1) :
          x \in start..(start + capacity * size - 1)
    BY <1>1, <1>4
  <2> QED BY <1>6, <1>11, <2>1 DEF WritesOnly
<1>13. memory'[<<b, ByteOf(a, length)>>] = item
  <2>1. ByteOf(a, length) \in ByteOf(a, length)..(ByteOf(a, length) + size - 1)
    BY <1>1, <1>4
  <2> QED BY <1>4, <1>11, <2>1
<1>14. ASSUME NEW k \in 0..(length - 1)
       PROVE  memory'[<<b, ByteOf(a, k)>>] = memory[<<b, ByteOf(a, k)>>]
  <2>1. ByteOf(a, k) \notin ByteOf(a, length)..(ByteOf(a, length) + size - 1)
        /\ <<b, ByteOf(a, k)>> \in Cells
    BY <1>1, <1>4, <1>10
  <2> QED BY <1>11, <2>1
<1>15. Contents(a)' = Append(Contents(a), item)
  <2>1. Contents(a)' \in [1..(length + 1) -> Items \cup {Foreign}]
    BY <1>1, <1>8, <1>10, <1>11
  <2>2. \A i \in 1..length : Contents(a)'[i] = Contents(a)[i]
    BY <1>1, <1>8, <1>9, <1>14
  <2>3. Contents(a)'[length + 1] = item
    BY <1>1, <1>8, <1>13
  <2> QED BY <1>1, <1>9, <2>1, <2>2, <2>3, ContentsAppended
<1> QED BY <1>2, <1>11, <1>12, <1>15 DEF capacity
(* memcpy between two places in memory, the first of them within a buffer. *)
OnlyCopied(mem, new, from, to, bytes) ==
  /\ \A c \in Cells :
       ~ (c[1] = to.buffer /\ c[2] \in to.start..(to.start + bytes - 1)) => new[c] = mem[c]
  /\ \A byte \in 0..(bytes - 1) :
       <<to.buffer, to.start + byte>> \in Cells
         => new[<<to.buffer, to.start + byte>>] = mem[<<from.buffer, from.start + byte>>]

LEMMA Copied ==
  ASSUME NEW mem \in [Cells -> Items \cup {Foreign}], NEW bytes \in Nat,
         NEW from \in [buffer : Nat, start : Nat], NEW to \in [buffer : Nat, start : Nat],
         bytes > 0 => from.buffer \in 1..(MaxBlocks + 1) /\ from.start + bytes <= Capacity,
         NEW new, new = memcpy(mem, from, to, bytes)
  PROVE  new \in [Cells -> Items \cup {Foreign}] /\ OnlyCopied(mem, new, from, to, bytes)
<1> DEFINE inside(c) == c[1] = to.buffer /\ c[2] \in to.start..(to.start + bytes - 1)
           source(c) == <<from.buffer, from.start + (c[2] - to.start)>>
<1>1. new = [c \in Cells |-> IF inside(c) THEN mem[source(c)] ELSE mem[c]]
  BY DEF memcpy
<1>2. from.buffer \in Nat /\ from.start \in Nat /\ to.buffer \in Nat /\ to.start \in Nat
      /\ Capacity \in Nat
  BY ArenaAssumption DEF ArenaAssumption
<1>3. ASSUME NEW c \in Cells, inside(c)
      PROVE  source(c) \in Cells
  <2>1. c[2] \in to.start..(to.start + bytes - 1)
    BY <1>3
  <2> HIDE DEF inside
  <2>2. bytes > 0
    BY <1>2, <2>1
  <2>3. from.start + (c[2] - to.start) \in 0..(Capacity - 1)
    BY <1>2, <2>1, <2>2
  <2> QED BY <2>2, <2>3 DEF Cells
<1>4. new \in [Cells -> Items \cup {Foreign}]
  <2> HIDE DEF inside, source
  <2> QED BY <1>1, <1>3
<1>5. ASSUME NEW byte \in 0..(bytes - 1), <<to.buffer, to.start + byte>> \in Cells
      PROVE  new[<<to.buffer, to.start + byte>>] = mem[<<from.buffer, from.start + byte>>]
  <2> DEFINE c == <<to.buffer, to.start + byte>>
  <2>1. inside(c)
    BY <1>2
  <2>2. source(c) = <<from.buffer, from.start + byte>>
    <3>1. from.start + ((to.start + byte) - to.start) = from.start + byte
      BY <1>2
    <3> QED BY <3>1
  <2> HIDE DEF inside, source
  <2> QED BY <1>1, <1>5, <2>1, <2>2
<1> QED BY <1>1, <1>4, <1>5 DEF OnlyCopied

LEMMA PushedAndGrown ==
  ASSUME ArraysInv, NEW a \in Arrays, NEW item \in Items, pushAndGrow(a, item)
  PROVE  /\ ArenaInv' /\ FewBuffers'
         /\ \A i \in DOMAIN blocks : i \in DOMAIN blocks' /\ blocks'[i] = blocks[i]
         /\ Len(blocks') \in DOMAIN blocks'
         /\ \E block \in Block :
           /\ block = blocks'[Len(blocks')]
           /\ block.size = GROW_CAPACITY(arrays[a].capacity) * ItemSize[a]
           /\ block.align = ItemSize[a]
           /\ \A i \in DOMAIN blocks : Separate(blocks[i], block)
           /\ GROW_CAPACITY(arrays[a].capacity) \in Nat
           /\ arrays[a].length < GROW_CAPACITY(arrays[a].capacity)
           /\ memory' \in [Cells -> Items \cup {Foreign}]
           /\ WritesOnly(block)
           /\ Contents(a)' = Append(Contents(a), item)
<1> DEFINE length == arrays[a].length
           size == ItemSize[a]
           b == arrays[a].data.buffer
           start == arrays[a].data.start
           capacity == arrays[a].capacity
           r == GrowthRequest(a, capacity)
           S == Items \cup {Foreign}
<1>1. /\ length \in Nat /\ capacity \in Nat /\ b \in Nat /\ start \in Nat
      /\ size \in Nat \ {0} /\ capacity * size \in Nat
  BY ArrayTypes DEF ArraysInv
<1>2. length = capacity /\ capacity \in 0..(MaxLength - 1) /\ MaxLength \in Nat
  <2>1. arrays[a].length <= arrays[a].capacity
    BY ArrayTypes DEF ArraysInv
  <2> QED BY <1>1, <2>1, ArraysAssumption DEF pushAndGrow
<1>3. GROW_CAPACITY(capacity) \in Nat /\ length < GROW_CAPACITY(capacity)
  BY <1>1, <1>2, ArraysAssumption DEF GROW_CAPACITY
<1>4. r \in Request /\ Fitting(r) /\ r.size = GROW_CAPACITY(capacity) * size /\ r.align = size
  <2>1. \A x, y \in Nat \ {0} : x * y \in Nat \ {0}
    BY Z3
  <2>2. GROW_CAPACITY(capacity) \in Nat \ {0}
    BY <1>1, <1>3
  <2>3. GROW_CAPACITY(capacity) * size \in Nat \ {0}
    BY <1>1, <2>1, <2>2
  <2>4. Fitting(r)
    BY <1>2, RequestsFit
  <2>5. r = [size |-> GROW_CAPACITY(capacity) * size, align |-> size]
    BY DEF GrowthRequest
  <2> HIDE DEF r, size, capacity
  <2> QED BY <1>1, <2>3, <2>4, <2>5 DEF Request
<1>5. arenaAlloc(r.size, r.align)
  BY DEF pushAndGrow
<1>0. /\ ArenaInv' /\ FewBuffers'
      /\ \A i \in DOMAIN blocks : i \in DOMAIN blocks' /\ blocks'[i] = blocks[i]
      /\ Len(blocks') \in DOMAIN blocks'
  BY <1>4, <1>5, Allocated DEF ArraysInv
<1>6. PICK block \in Block :
        /\ block = blocks'[Len(blocks')]
        /\ block.size = r.size /\ block.align = r.align
        /\ block.buffer \in 1..(MaxBlocks + 1) /\ block.start + block.size <= Capacity
        /\ \A i \in DOMAIN blocks : Separate(blocks[i], block)
  BY <1>4, <1>5, Allocated DEF ArraysInv
<1> DEFINE data == [buffer |-> block.buffer, start |-> block.start]
           moved == memcpy(memory, arrays[a].data, data, length * size)
<1>7. /\ block.buffer \in Nat /\ block.start \in Nat /\ block.size \in Nat
  BY DEF Block
<1>8. arrays'[a].length = length + 1 /\ arrays'[a].data = data
  BY <1>6, <1>7, PushAndGrowRecords DEF ArraysInv
<1>9. memory' = Written(moved, Region(block.buffer, block.start + length * size, 1, size), item)
  BY <1>6 DEF pushAndGrow, Store
<1> DEFINE target(k) == block.start + k * size
<1>10. ASSUME NEW k \in 0..length
       PROVE  /\ target(k) \in Nat /\ k * size \in Nat
              /\ target(k) + size <= block.start + block.size
              /\ <<block.buffer, target(k)>> \in Cells
              /\ k < length => k * size + size <= length * size
  <2>1. k \in 0..(GROW_CAPACITY(capacity) - 1)
    BY <1>1, <1>3
  <2>2. k * size \in Nat /\ k * size + size <= GROW_CAPACITY(capacity) * size
    BY <1>1, <1>3, <2>1, ItemOffset
  <2>3. block.size = GROW_CAPACITY(capacity) * size
    BY <1>4, <1>6
  <2>4. k < length => k * size + size <= length * size
    BY <1>1, ItemsApart
  <2>5. Capacity \in Nat
    BY ArenaAssumption DEF ArenaAssumption
  <2> HIDE DEF size, length, capacity, r
  <2>6. target(k) \in 0..(Capacity - 1) /\ target(k) \in Nat
        /\ target(k) + size <= block.start + block.size
    BY <1>1, <1>6, <1>7, <2>2, <2>3, <2>5
  <2> HIDE DEF target
  <2> QED BY <1>6, <2>2, <2>4, <2>6 DEF Cells
<1>11. /\ moved \in [Cells -> S]
       /\ \A c \in Cells :
            ~ (c[1] = block.buffer /\ c[2] \in block.start..(block.start + length * size - 1))
              => moved[c] = memory[c]
       /\ \A byte \in 0..(length * size - 1) :
            <<block.buffer, block.start + byte>> \in Cells
              => moved[<<block.buffer, block.start + byte>>] = memory[<<b, start + byte>>]
  <2>1. data \in [buffer : Nat, start : Nat] /\ data.buffer = block.buffer
        /\ data.start = block.start
    BY <1>7
  <2>2. arrays[a].data \in [buffer : Nat, start : Nat]
    BY DEF ArraysInv, TypeOK, Array
  <2>3. length * size \in Nat
    BY <1>1, <1>2
  <2>4. length * size > 0 => b \in 1..(MaxBlocks + 1) /\ start + length * size <= Capacity
    <3>1. length * size > 0 => capacity > 0
      BY <1>1, <1>2
    <3> QED BY <1>2, <3>1, BlockInside
  <2>5. memory \in [Cells -> Items \cup {Foreign}]
    BY MemoryType
  <2> HIDE DEF data
  <2>6. /\ moved \in [Cells -> Items \cup {Foreign}]
        /\ OnlyCopied(memory, moved, arrays[a].data, data, length * size)
    BY <2>1, <2>2, <2>3, <2>4, <2>5, Copied
  <2> QED BY <2>1, <2>6 DEF OnlyCopied
<1> HIDE DEF moved, data
<1>12. /\ memory' \in [Cells -> S]
       /\ OnlyWritten(moved, memory', block.buffer, target(length), size, item)
  <2>1. /\ block.buffer \in Nat /\ target(length) \in Nat /\ size \in Nat /\ item \in S
    BY <1>1, <1>7, <1>10
  <2> QED BY <1>9, <1>11, <2>1, WrittenRegion
<1>13. WritesOnly(block)
  <2> SUFFICES ASSUME NEW c \in Cells,
                      ~ (c[1] = block.buffer
                         /\ c[2] \in block.start..(block.start + block.size - 1))
               PROVE  memory'[c] = memory[c]
    BY DEF WritesOnly
  <2>1. length * size \in Nat /\ target(length) + size <= block.start + block.size
        /\ target(length) = block.start + length * size
    <3>1. length \in 0..length
      BY <1>1
    <3> HIDE DEF length, size
    <3>2. length * size \in Nat /\ target(length) + size <= block.start + block.size
      BY <1>10, <3>1
    <3> QED BY <3>2
  <2>2. c[2] \in 0..(Capacity - 1) /\ Capacity \in Nat
    BY ArenaAssumption DEF Cells, ArenaAssumption
  <2> HIDE DEF target, length, size, S
  <2>3. memory'[c] = moved[c]
    BY <1>1, <1>7, <1>12, <2>1, <2>2 DEF OnlyWritten
  <2>4. moved[c] = memory[c]
    BY <1>1, <1>7, <1>11, <2>1, <2>2
  <2> QED BY <2>3, <2>4
<1>14. Contents(a)' = [i \in 1..(length + 1) |-> memory'[<<block.buffer, target(i - 1)>>]]
  BY <1>8 DEF Contents, growableArrayGet, data
<1>15. /\ Contents(a) \in Seq(S) /\ Len(Contents(a)) = length
       /\ Contents(a) = [i \in 1..length |-> memory[<<b, ByteOf(a, i - 1)>>]]
  BY ContentsType
<1>16. memory'[<<block.buffer, target(length)>>] = item
  <2>1. target(length) \in target(length)..(target(length) + size - 1)
        /\ <<block.buffer, target(length)>> \in Cells
    <3>1. target(length) \in Nat /\ <<block.buffer, target(length)>> \in Cells
      BY <1>1, <1>10
    <3> HIDE DEF target
    <3> QED BY <1>1, <3>1
  <2> HIDE DEF target
  <2> QED BY <1>12, <2>1 DEF OnlyWritten
<1>17. ASSUME NEW k \in 0..(length - 1)
       PROVE  memory'[<<block.buffer, target(k)>>] = memory[<<b, ByteOf(a, k)>>]
  <2>1. /\ target(k) \in Nat /\ k * size \in Nat /\ k * size + size <= length * size
        /\ length * size \in Nat /\ <<block.buffer, target(k)>> \in Cells
    BY <1>1, <1>10
  <2>2. target(k) \notin target(length)..(target(length) + size - 1)
    BY <1>1, <1>7, <2>1
  <2>3. memory'[<<block.buffer, target(k)>>] = moved[<<block.buffer, target(k)>>]
    <3> HIDE DEF target
    <3> QED BY <1>12, <2>1, <2>2 DEF OnlyWritten
  <2>4. k * size \in 0..(length * size - 1)
    BY <1>1, <2>1
  <2>5. moved[<<block.buffer, target(k)>>] = memory[<<b, start + k * size>>]
    BY <1>11, <2>1, <2>4
  <2> QED BY <2>3, <2>5 DEF ByteOf
<1>18. Contents(a)' = Append(Contents(a), item)
  <2> HIDE DEF target, length, size
  <2>1. Contents(a)' \in [1..(length + 1) -> S]
    <3>1. \A i \in 1..(length + 1) : i - 1 \in 0..length
      BY <1>1
    <3>2. \A i \in 1..(length + 1) : memory'[<<block.buffer, target(i - 1)>>] \in S
      BY <1>10, <1>12, <3>1
    <3> QED BY <1>14, <3>2
  <2>2. \A i \in 1..length : Contents(a)'[i] = Contents(a)[i]
    BY <1>1, <1>14, <1>15, <1>17
  <2>3. Contents(a)'[length + 1] = item
    BY <1>1, <1>14, <1>16
  <2> QED BY <1>1, <1>15, <2>1, <2>2, <2>3, ContentsAppended
<1> HIDE DEF r
<1> QED BY <1>0, <1>3, <1>4, <1>6, <1>12, <1>13, <1>18

(* Another allocation is written over by its owner only.                   *)
LEMMA AllocatedElsewhere ==
  ASSUME ArraysInv, NEW r \in Requests, allocate(r)
  PROVE  /\ ArenaInv' /\ FewBuffers' /\ UNCHANGED arrays
         /\ \A i \in DOMAIN blocks : i \in DOMAIN blocks' /\ blocks'[i] = blocks[i]
         /\ \E block \in Block :
              /\ \A i \in DOMAIN blocks : Separate(blocks[i], block)
              /\ memory' \in [Cells -> Items \cup {Foreign}]
              /\ WritesOnly(block)
<1>1. r \in Request /\ Fitting(r)
  BY RequestsFit
<1>2. arenaAlloc(r.size, r.align) /\ UNCHANGED arrays
  BY DEF allocate
<1>3. /\ ArenaInv' /\ FewBuffers'
      /\ \A i \in DOMAIN blocks : i \in DOMAIN blocks' /\ blocks'[i] = blocks[i]
  BY <1>1, <1>2, Allocated DEF ArraysInv
<1>4. PICK block \in Block :
        /\ block = blocks'[Len(blocks')]
        /\ \A i \in DOMAIN blocks : Separate(blocks[i], block)
  BY <1>1, <1>2, Allocated DEF ArraysInv
<1>5. memory' = Written(memory, Region(block.buffer, block.start, 1, block.size), Foreign)
  BY <1>4 DEF allocate
<1>6. block.buffer \in Nat /\ block.start \in Nat /\ block.size \in Nat
  BY DEF Block
<1>7. memory' \in [Cells -> Items \cup {Foreign}]
      /\ OnlyWritten(memory, memory', block.buffer, block.start, block.size, Foreign)
  <2>1. memory \in [Cells -> Items \cup {Foreign}] /\ Foreign \in Items \cup {Foreign}
    BY MemoryType
  <2> QED BY <1>5, <1>6, <2>1, WrittenRegion
<1>8. WritesOnly(block)
  BY <1>7 DEF WritesOnly, OnlyWritten
<1> QED BY <1>2, <1>3, <1>4, <1>7, <1>8

-----------------------------------------------------------------------------
(* Every step preserves the invariant, and is a push onto one list or a    *)
(* step that changes none.                                                 *)

LEMMA ArraysInitially ==
  ASSUME Init
  PROVE  ArraysInv /\ L!Init
<1>1. ArenaInv
  BY ArenaAssumption, ArenaInitially DEF Init
<1>2. \A a \in Arrays : arrays[a].capacity = 0 /\ arrays[a].length = 0
  BY DEF Init
<1>3. TypeOK
  <2>1. arrays \in [Arrays -> Array]
    BY DEF Init, Array
  <2>2. memory \in [Cells -> Items \cup {Foreign}]
    BY DEF Init
  <2> QED BY <1>1, <1>2, <2>1, <2>2 DEF ArenaInv, TypeOK
<1>4. FewBuffers
  <2>1. next = <<0>> /\ blocks = <<>>
    BY DEF Init, ArenaInit
  <2> QED BY <2>1, ArenaAssumption DEF FewBuffers, ArenaAssumption
<1>5. Held /\ Apart
  BY <1>2 DEF Held, Apart
<1>6. ASSUME NEW a \in Arrays
      PROVE  Contents(a) = <<>>
  BY <1>2 DEF Contents
<1>7. L!Init
  BY <1>6 DEF L!Init
<1> QED BY <1>1, <1>3, <1>4, <1>5, <1>7 DEF ArraysInv

(* The abstract step of a push.                                            *)
LEMMA PushOfLists ==
  ASSUME NEW a \in Arrays, NEW item \in Items,
         Contents(a)' = Append(Contents(a), item),
         \A b \in Arrays \ {a} : Contents(b)' = Contents(b)
  PROVE  L!Push(a, item)
<1> SUFFICES [x \in Arrays |-> Contents(x)']
               = [[x \in Arrays |-> Contents(x)] EXCEPT ![a] = Append(Contents(a), item)]
  BY DEF L!Push
<1> QED OBVIOUS

LEMMA PushInPlaceStep ==
  ASSUME ArraysInv, NEW a \in Arrays, NEW item \in Items, pushInPlace(a, item)
  PROVE  ArraysInv' /\ L!Push(a, item)
<1>1. UNCHANGED arenaVars
  BY DEF pushInPlace
<1>2. ArenaInv' /\ FewBuffers' /\ blocks' = blocks
  <2>1. ArenaInv'
    BY <1>1, ArenaAssumption, ArenaStep DEF ArraysInv
  <2> QED BY <1>1, <2>1 DEF ArraysInv, FewBuffers, arenaVars
<1>3. /\ arrays' \in [Arrays -> Array]
      /\ arrays'[a].length = arrays[a].length + 1
      /\ arrays'[a].capacity = arrays[a].capacity /\ arrays'[a].data = arrays[a].data
      /\ \A b \in Arrays \ {a} : arrays'[b] = arrays[b]
  BY PushInPlaceRecords DEF ArraysInv
<1>4. /\ arrays[a].capacity > 0
      /\ memory' \in [Cells -> Items \cup {Foreign}]
      /\ WritesOnly(BlockOf(a))
      /\ Contents(a)' = Append(Contents(a), item)
  BY PushedInPlace
<1>5. TypeOK'
  <2>1. arrays[a].length < arrays[a].capacity /\ arrays[a].length \in Nat
        /\ arrays[a].capacity \in Nat
    BY ArrayTypes DEF pushInPlace, ArraysInv
  <2>2. arrays'[a].length <= arrays'[a].capacity
    BY <1>3, <2>1
  <2>3. \A b \in Arrays : arrays'[b].length <= arrays'[b].capacity
    BY <1>3, <2>2 DEF ArraysInv, TypeOK
  <2> QED BY <1>2, <1>3, <1>4, <2>3 DEF TypeOK, ArenaInv
<1>6. \A b \in Arrays : arrays'[b].capacity = arrays[b].capacity /\ BlockOf(b)' = BlockOf(b)
  BY <1>3 DEF BlockOf
<1>7. Held'
  BY <1>2, <1>6 DEF ArraysInv, Held
<1>8. Apart'
  BY <1>6 DEF ArraysInv, Apart
<1>9. ASSUME NEW b \in Arrays \ {a}
      PROVE  Contents(b)' = Contents(b)
  <2>1. BlockOf(a) \in Block
    BY <1>4, BlockType
  <2>2. arrays[b].capacity > 0 => Separate(BlockOf(b), BlockOf(a))
    BY <1>4 DEF ArraysInv, Apart
  <2> QED BY <1>3, <1>4, <2>1, <2>2, ContentsKept
<1> QED BY <1>2, <1>4, <1>5, <1>7, <1>8, <1>9, PushOfLists DEF ArraysInv

LEMMA PushAndGrowStep ==
  ASSUME ArraysInv, NEW a \in Arrays, NEW item \in Items, pushAndGrow(a, item)
  PROVE  ArraysInv' /\ L!Push(a, item)
<1>1. /\ ArenaInv' /\ FewBuffers'
      /\ \A i \in DOMAIN blocks : i \in DOMAIN blocks' /\ blocks'[i] = blocks[i]
      /\ Len(blocks') \in DOMAIN blocks'
  BY PushedAndGrown
<1>2. PICK block \in Block :
        /\ block = blocks'[Len(blocks')]
        /\ block.size = GROW_CAPACITY(arrays[a].capacity) * ItemSize[a]
        /\ block.align = ItemSize[a]
        /\ \A i \in DOMAIN blocks : Separate(blocks[i], block)
        /\ GROW_CAPACITY(arrays[a].capacity) \in Nat
        /\ arrays[a].length < GROW_CAPACITY(arrays[a].capacity)
        /\ memory' \in [Cells -> Items \cup {Foreign}]
        /\ WritesOnly(block)
        /\ Contents(a)' = Append(Contents(a), item)
  BY PushedAndGrown
<1>3. block.buffer \in Nat /\ block.start \in Nat /\ block.size \in Nat
  BY DEF Block
<1>4. /\ arrays' \in [Arrays -> Array]
      /\ arrays'[a].length = arrays[a].length + 1
      /\ arrays'[a].capacity = GROW_CAPACITY(arrays[a].capacity)
      /\ arrays'[a].data = [buffer |-> block.buffer, start |-> block.start]
      /\ \A b \in Arrays \ {a} : arrays'[b] = arrays[b]
  BY <1>2, <1>3, PushAndGrowRecords DEF ArraysInv
<1>5. TypeOK'
  <2>1. arrays[a].length \in Nat
    BY ArrayTypes DEF ArraysInv
  <2>2. arrays'[a].length <= arrays'[a].capacity
    BY <1>2, <1>4, <2>1
  <2>3. \A b \in Arrays : arrays'[b].length <= arrays'[b].capacity
    BY <1>4, <2>2 DEF ArraysInv, TypeOK
  <2> QED BY <1>1, <1>2, <1>4, <2>3 DEF TypeOK, ArenaInv
<1>6. \A b \in Arrays \ {a} :
        arrays'[b].capacity = arrays[b].capacity /\ BlockOf(b)' = BlockOf(b)
  BY <1>4 DEF BlockOf
<1>7. BlockOf(a)' = block
  <2>1. BlockOf(a)' = [buffer |-> block.buffer, start |-> block.start,
                       size |-> block.size, align |-> block.align]
    BY <1>2, <1>4 DEF BlockOf, Hand
  <2>2. block = [buffer |-> block.buffer, start |-> block.start,
                 size |-> block.size, align |-> block.align]
    BY DEF Block
  <2> QED BY <2>1, <2>2
<1>8. Held'
  <2> SUFFICES ASSUME NEW b \in Arrays, arrays'[b].capacity > 0
               PROVE  \E i \in DOMAIN blocks' : blocks'[i] = BlockOf(b)'
    BY DEF Held
  <2>1. CASE b = a
    BY <1>1, <1>2, <1>7, <2>1
  <2>2. CASE b # a
    <3>1. PICK i \in DOMAIN blocks : blocks[i] = BlockOf(b)
      BY <1>6, <2>2 DEF ArraysInv, Held
    <3> QED BY <1>1, <1>6, <2>2, <3>1
  <2> QED BY <2>1, <2>2
<1>9. \A b \in Arrays \ {a} : arrays[b].capacity > 0 => Separate(BlockOf(b), block)
  BY <1>2 DEF ArraysInv, Held
<1>10. Apart'
  <2> SUFFICES ASSUME NEW b \in Arrays, NEW c \in Arrays, b # c,
                      arrays'[b].capacity > 0, arrays'[c].capacity > 0
               PROVE  Separate(BlockOf(b)', BlockOf(c)')
    BY DEF Apart, Separate
  <2>1. CASE b = a
    BY <1>6, <1>7, <1>9, <2>1 DEF Separate
  <2>2. CASE c = a
    BY <1>6, <1>7, <1>9, <2>2
  <2>3. CASE b # a /\ c # a
    BY <1>6, <2>3 DEF ArraysInv, Apart
  <2> QED BY <2>1, <2>2, <2>3
<1>11. ASSUME NEW b \in Arrays \ {a}
       PROVE  Contents(b)' = Contents(b)
  BY <1>2, <1>4, <1>9, ContentsKept
<1> QED BY <1>1, <1>2, <1>5, <1>8, <1>10, <1>11, PushOfLists DEF ArraysInv

LEMMA AllocateStep ==
  ASSUME ArraysInv, NEW r \in Requests, allocate(r)
  PROVE  ArraysInv' /\ \A a \in Arrays : Contents(a)' = Contents(a)
<1>1. /\ ArenaInv' /\ FewBuffers' /\ UNCHANGED arrays
      /\ \A i \in DOMAIN blocks : i \in DOMAIN blocks' /\ blocks'[i] = blocks[i]
  BY AllocatedElsewhere
<1>2. PICK block \in Block :
        /\ \A i \in DOMAIN blocks : Separate(blocks[i], block)
        /\ memory' \in [Cells -> Items \cup {Foreign}]
        /\ WritesOnly(block)
  BY AllocatedElsewhere
<1>3. TypeOK'
  BY <1>1, <1>2 DEF ArraysInv, TypeOK, ArenaInv
<1>4. \A a \in Arrays : BlockOf(a)' = BlockOf(a)
  BY <1>1 DEF BlockOf
<1>5. Held' /\ Apart'
  BY <1>1, <1>4 DEF ArraysInv, Held, Apart
<1>6. ASSUME NEW a \in Arrays
      PROVE  Contents(a)' = Contents(a)
  <2>1. arrays[a].capacity > 0 => Separate(BlockOf(a), block)
    BY <1>2 DEF ArraysInv, Held
  <2> QED BY <1>1, <1>2, <2>1, ContentsKept
<1> QED BY <1>1, <1>3, <1>5, <1>6 DEF ArraysInv

LEMMA ArraysStep ==
  ASSUME ArraysInv, [Next]_vars
  PROVE  ArraysInv' /\ [L!Next]_([a \in Arrays |-> Contents(a)])
<1>1. CASE \E a \in Arrays, item \in Items : pushInPlace(a, item) \/ pushAndGrow(a, item)
  BY <1>1, PushInPlaceStep, PushAndGrowStep DEF L!Next
<1>2. CASE \E r \in Requests : allocate(r)
  BY <1>2, AllocateStep
<1>3. ASSUME ArenaInv', FewBuffers', blocks' = blocks, UNCHANGED <<arrays, memory>>
      PROVE  ArraysInv' /\ \A a \in Arrays : Contents(a)' = Contents(a)
  <2>1. TypeOK'
    BY <1>3 DEF ArraysInv, TypeOK, ArenaInv
  <2>2. Held' /\ Apart'
    BY <1>3 DEF ArraysInv, Held, Apart, BlockOf
  <2>3. \A a \in Arrays : Contents(a)' = Contents(a)
    BY <1>3 DEF Contents, growableArrayGet
  <2> QED BY <1>3, <2>1, <2>2, <2>3 DEF ArraysInv
<1>4. CASE destroy
  <2>1. ArenaInv' /\ FewBuffers' /\ blocks' = blocks /\ UNCHANGED <<arrays, memory>>
    BY <1>4, NotAllocated DEF ArraysInv
  <2> QED BY <1>3, <2>1
<1>5. CASE UNCHANGED vars
  <2>1. UNCHANGED <<arenaVars, arrays, memory>>
    BY <1>5 DEF vars
  <2>2. ArenaInv'
    BY <2>1, ArenaAssumption, ArenaStep DEF ArraysInv
  <2>3. FewBuffers' /\ blocks' = blocks
    BY <2>1 DEF arenaVars, ArraysInv, FewBuffers
  <2> QED BY <1>3, <2>1, <2>2, <2>3
<1> QED BY <1>1, <1>2, <1>4, <1>5 DEF Next

-----------------------------------------------------------------------------
(* What is proved of the growable arrays.                                  *)

LEMMA ArraysInvariant == Spec => []ArraysInv
<1>1. Init => ArraysInv
  BY ArraysInitially
<1>2. ArraysInv /\ [Next]_vars => ArraysInv'
  BY ArraysStep
<1> QED BY <1>1, <1>2, PTL DEF Spec

(* No array is longer than its capacity, and no push, growth or foreign    *)
(* allocation stores anything but items and foreign bytes in the buffers.  *)
THEOREM ArraysTyped == Spec => []TypeOK
<1>1. ArraysInv => TypeOK
  BY DEF ArraysInv
<1> QED BY <1>1, ArraysInvariant, PTL

(* The growth requests keep to what the arena is made for: its blocks stay *)
(* within their buffers, disjoint and aligned, when arrays and all others  *)
(* allocate in any order.                                                  *)
THEOREM ArraysUseTheArenaWell == Spec => [](InBounds /\ Disjoint /\ Aligned)
<1>1. ArraysInv => InBounds /\ Disjoint /\ Aligned
  BY DEF ArraysInv, ArenaInv
<1> QED BY <1>1, ArraysInvariant, PTL

(* growableArrayPush appends to its own list and changes no other, whether *)
(* the array moves or not, whatever shares its buffer.                     *)
THEOREM ArraysImplementLists == Spec => ImplementsLists
<1>1. Init => L!Init
  BY ArraysInitially
<1>2. ArraysInv /\ [Next]_vars => [L!Next]_([a \in Arrays |-> Contents(a)])
  BY ArraysStep
<1> QED BY <1>1, <1>2, ArraysInvariant, PTL DEF Spec, ImplementsLists, L!Spec
=============================================================================
