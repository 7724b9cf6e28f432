--------------------------- MODULE GrowableArrays ---------------------------
(***************************************************************************)
(* Growable arrays (utils/memory.c, growableArrayCreate, -Get, -Push) in   *)
(* the arena they share with all other allocations.  An array that is full *)
(* moves to a block of twice the size and leaves the old one behind.       *)
(*                                                                         *)
(* The memory of the arena is modelled by bytes: "memory" holds, for every *)
(* byte of every buffer, the item it is part of.                           *)
(***************************************************************************)
EXTENDS Arena, SequencesExt

CONSTANTS
  Arrays,      \* the growable arrays that share the arena
  Items,       \* what is pushed
  Requests,    \* what everybody else allocates
  Foreign,     \* what everybody else writes to their blocks
  ItemSize,    \* array -> itemSize
  GrowMin,     \* the 8 of GROW_CAPACITY
  MaxLength    \* bound: how long an array becomes

ASSUME ArraysAssumption ==
  /\ ItemSize \in [Arrays -> Nat \ {0}]
  /\ GrowMin \in Nat \ {0} /\ MaxLength \in Nat
  /\ Foreign \notin Items

CapacityKept(old) == IF old < GrowMin THEN GrowMin ELSE old
GROW_CAPACITY(old) == IF old < GrowMin THEN GrowMin ELSE 2 * old

ItemsUncounted(a, old) == [size |-> GROW_CAPACITY(old), align |-> ItemSize[a]]

(* Where the arrays stay small enough for their blocks to fit into a       *)
(* buffer: MaxLength is that bound.  An item is aligned to its size here.  *)
GrowthRequest(a, old) ==
  [size |-> GROW_CAPACITY(old) * ItemSize[a], align |-> ItemSize[a]]

ASSUME RequestsFit ==
  /\ Requests \subseteq Request
  /\ \A r \in Requests : Fitting(r)
  /\ \A a \in Arrays, old \in 0..(MaxLength - 1) : Fitting(GrowthRequest(a, old))

VARIABLES
  arrays,   \* array -> capacity, length and data, data.buffer 0 for NULL
  memory    \* <<buffer, byte>> -> the item stored there

vars == <<arenaVars, arrays, memory>>

Cells == (1..(MaxBlocks + 1)) \X (0..(Capacity - 1))

Array == [capacity : Nat, length : Nat, data : [buffer : Nat, start : Nat]]

TypeOK ==
  /\ ArenaTypeOK
  /\ arrays \in [Arrays -> Array]
  /\ \A a \in Arrays : arrays[a].length <= arrays[a].capacity
  /\ memory \in [Cells -> Items \cup {Foreign}]

(* growableArrayCreate allocates nothing yet.                              *)
Init ==
  /\ ArenaInit
  /\ arrays = [a \in Arrays |-> [capacity |-> 0, length |-> 0,
                                 data |-> [buffer |-> 0, start |-> 0]]]
  /\ memory = [c \in Cells |-> Foreign]

(* The bytes of "count" items from byte "start" on.                        *)
Region(b, start, count, size) == {<<b, byte>> : byte \in start..(start + count * size - 1)}

(* growableArrayGet, through the first byte of the item; indices from 0.   *)
growableArrayGet(a, index) ==
  LET data == arrays[a].data
  IN  memory[<<data.buffer, data.start + index * ItemSize[a]>>]

Written(mem, cells, item) == [c \in DOMAIN mem |-> IF c \in cells THEN item ELSE mem[c]]

(* memcpy of "bytes" bytes between two blocks.                             *)
memcpy(mem, from, to, bytes) ==
  [c \in DOMAIN mem |->
     IF c[1] = to.buffer /\ c[2] \in to.start..(to.start + bytes - 1)
     THEN mem[<<from.buffer, from.start + (c[2] - to.start)>>]
     ELSE mem[c]]

(* The caller stores the item through the pointer growableArrayPush        *)
(* returns.                                                                *)
Store(mem, a, data, index, item) ==
  Written(mem, Region(data.buffer, data.start + index * ItemSize[a], 1, ItemSize[a]), item)

pushInPlace(a, item) ==
  LET array == arrays[a]
  IN  /\ live # {} /\ current = 0
      /\ array.length < array.capacity
      /\ array.length < MaxLength
      /\ arrays' = [arrays EXCEPT ![a].length = @ + 1]
      /\ memory' = Store(memory, a, array.data, array.length, item)
      /\ UNCHANGED arenaVars

pushAndGrow(a, item) ==
  LET array == arrays[a]
      request == GrowthRequest(a, array.capacity)
      block == blocks'[Len(blocks')]
      data == [buffer |-> block.buffer, start |-> block.start]
      bytes == array.length * ItemSize[a]
  IN  /\ array.length >= array.capacity
      /\ array.length < MaxLength
      /\ arenaAlloc(request.size, request.align)
      /\ arrays' = [arrays EXCEPT ![a] = [capacity |-> GROW_CAPACITY(array.capacity),
                                          length |-> array.length + 1, data |-> data]]
      /\ memory' = Store(memcpy(memory, array.data, data, bytes), a, data,
                         array.length, item)

(* Another allocation, whose owner fills it.                               *)
allocate(r) ==
  /\ arenaAlloc(r.size, r.align)
  /\ LET block == blocks'[Len(blocks')]
     IN  memory' = Written(memory, Region(block.buffer, block.start, 1, block.size), Foreign)
  /\ UNCHANGED arrays

destroy == (arenaDestroy \/ freeBuffer \/ Destroyed) /\ UNCHANGED <<arrays, memory>>

Next ==
  \/ \E a \in Arrays, item \in Items : pushInPlace(a, item) \/ pushAndGrow(a, item)
  \/ \E r \in Requests : allocate(r)
  \/ destroy

Fairness == WF_vars(freeBuffer /\ UNCHANGED <<arrays, memory>>)

Spec == Init /\ [][Next]_vars /\ Fairness

-----------------------------------------------------------------------------
(* Growable arrays implement lists: a push appends its item to its own     *)
(* list, and neither it nor an allocation by somebody else changes an item *)
(* of any list, although arrays move, and share buffers with each other.   *)
Contents(a) == [i \in 1..arrays[a].length |-> growableArrayGet(a, i - 1)]

L == INSTANCE Lists WITH lists <- [a \in Arrays |-> Contents(a)]
ImplementsLists == L!Spec

(* Once begun, arenaDestroy comes to its end.                              *)
DestroyEnds == current # 0 ~> current = 0
=============================================================================
