-------------------------------- MODULE Arena --------------------------------
(***************************************************************************)
(* The arena allocator (utils/memory.c): buffers of one capacity in a      *)
(* linked list, blocks handed out front to back in the last of them, and   *)
(* everything freed at once.  Every pass of the compiler allocates here.   *)
(*                                                                         *)
(* A buffer is numbered in the order of its creation.  malloc aligns the   *)
(* Buffer header to any alignment in use, so the data that follows it has  *)
(* the alignment of HeaderSize.                                            *)
(***************************************************************************)
EXTENDS Integers, Sequences

CONSTANTS
  Capacity,     \* initialSize of arenaInit
  HeaderSize,   \* sizeof(Buffer)
  Word,         \* 2^w of size_t, in which the room left is computed
  MaxBlocks     \* bound: how many blocks are allocated

ASSUME ArenaAssumption ==
  /\ Capacity \in Nat \ {0} /\ HeaderSize \in Nat /\ MaxBlocks \in Nat
  /\ Word \in Nat /\ Capacity < Word

(* -(offset + ptr) & (align - 1), for an align that is a power of two.     *)
PaddingTo(address, align) == (-address) % align
NoPadding(o, align) == 0
Padding(o, align) == PaddingTo(HeaderSize + o, align)

Request == [size : Nat \ {0}, align : Nat \ {0}]

(* The requests the arena is made for: none is larger than a buffer, and   *)
(* rounding up an offset does not lead past the end of a buffer.  (In the  *)
(* code every alignment divides sizeof(Buffer) and the capacity.)          *)
Fitting(r) ==
  /\ r.size <= Capacity
  /\ HeaderSize % r.align = 0
  /\ \A o \in 0..Capacity : o + Padding(o, r.align) <= Capacity

VARIABLES
  buffer,          \* arena->buffer, the one allocated from
  offset,          \* arena->offset
  totalAllocated,  \* arena->totalAllocated
  next,            \* buffer -> buffer->next, 0 for NULL
  live,            \* the buffers malloc returned and free has not taken back
  current,         \* the local of arenaDestroy, 0 while it does not run
  blocks           \* history: the blocks handed out, in order

arenaVars == <<buffer, offset, totalAllocated, next, live, current, blocks>>

Block == [buffer : Nat \ {0}, start : Nat, size : Nat \ {0}, align : Nat \ {0}]

ArenaTypeOK ==
  /\ buffer \in 1..Len(next)
  /\ offset \in 0..Capacity
  /\ totalAllocated \in Nat
  /\ next \in Seq(Nat)
  /\ live \subseteq 1..Len(next)
  /\ current \in 0..Len(next)
  /\ blocks \in Seq(Block)

(* arenaInit creates the first buffer, which is also the head of the list. *)
ArenaInit ==
  /\ buffer = 1
  /\ offset = 0
  /\ totalAllocated = 0
  /\ next = <<0>>
  /\ live = {1}
  /\ current = 0
  /\ blocks = <<>>

Hand(b, start, size, align) ==
  [buffer |-> b, start |-> start, size |-> size, align |-> align]

StartOf(align) == offset + Padding(offset, align)

(* s > capacity - offset compares in size_t, after the padding was added.  *)
FitsBeforePadding(size, align) == size <= (Capacity - offset) % Word
Fits(size, align) == size <= (Capacity - StartOf(align)) % Word

UnlinkedBuffer(fresh) == Append(next, 0)
SelfLinkedBuffer(fresh) == Append([next EXCEPT ![buffer] = fresh], fresh)
LinkedBuffer(fresh) == Append([next EXCEPT ![buffer] = fresh], 0)

OffsetWithoutPadding(size, align) == offset + size
OffsetBehind(size, align) == StartOf(align) + size

allocateHere(size, align) ==
  /\ Fits(size, align)
  /\ offset' = OffsetBehind(size, align)
  /\ blocks' = Append(blocks, Hand(buffer, StartOf(align), size, align))
  /\ UNCHANGED <<buffer, next, live>>

(* The padding of a new buffer is not computed: its first block starts at  *)
(* offset 0.  What is left of the old buffer is given up.                  *)
allocateInNewBuffer(size, align) ==
  LET fresh == Len(next) + 1
  IN  /\ ~ Fits(size, align)
      /\ next' = LinkedBuffer(fresh)
      /\ live' = live \cup {fresh}
      /\ buffer' = fresh
      /\ offset' = size
      /\ blocks' = Append(blocks, Hand(fresh, 0, size, align))

arenaAlloc(size, align) ==
  /\ live # {} /\ current = 0
  /\ Len(blocks) < MaxBlocks
  /\ allocateHere(size, align) \/ allocateInNewBuffer(size, align)
  /\ totalAllocated' = totalAllocated + size
  /\ UNCHANGED current

(* arenaDestroy walks the list from the head, and reads the link of a      *)
(* buffer before it frees it.                                              *)
arenaDestroy ==
  /\ live # {} /\ current = 0
  /\ current' = 1
  /\ UNCHANGED <<buffer, offset, totalAllocated, next, live, blocks>>

freeBuffer ==
  /\ current # 0
  /\ current' = next[current]
  /\ live' = live \ {current}
  /\ UNCHANGED <<buffer, offset, totalAllocated, next, blocks>>

Destroyed == live = {} /\ current = 0 /\ UNCHANGED arenaVars

ArenaNext ==
  \/ \E r \in Request : Fitting(r) /\ arenaAlloc(r.size, r.align)
  \/ arenaDestroy
  \/ freeBuffer
  \/ Destroyed

ArenaSpec == ArenaInit /\ [][ArenaNext]_arenaVars

-----------------------------------------------------------------------------
(* No block reaches beyond the buffer it was cut from.                     *)
InBounds == \A i \in DOMAIN blocks : blocks[i].start + blocks[i].size <= Capacity

(* Two blocks never share a byte, whatever their alignments and however    *)
(* the buffers fill up.                                                    *)
Disjoint ==
  \A i, j \in DOMAIN blocks :
    i < j /\ blocks[i].buffer = blocks[j].buffer =>
      blocks[i].start + blocks[i].size <= blocks[j].start

(* A block has the alignment asked for, at the front of a new buffer too,  *)
(* where arenaAlloc does not pad.                                          *)
Aligned == \A i \in DOMAIN blocks : (HeaderSize + blocks[i].start) % blocks[i].align = 0

(* arenaDestroy reads the links of live buffers only, frees none twice,    *)
(* and when it is through none is left.                                    *)
DestroyFreesAll ==
  [][/\ current' # 0 => current' \in live'
     /\ current # 0 /\ current' = 0 => live' = {}]_arenaVars
==============================================================================
