----------------------------- MODULE ChunkProofs -----------------------------
(***************************************************************************)
(* Proofs about the chunk: for every set of addresses, every smallest      *)
(* capacity and every way realloc moves the blocks, the buffers keep what  *)
(* was written to them and no block is lost.                               *)
(***************************************************************************)
EXTENDS Chunk, SequenceTheorems, TLAPS

Cells == Values \cup {"garbage"}
BufferType == [ptr : Addresses \cup {NULL}, capacity : Nat, length : Nat]

TypeOK ==
  /\ DOMAIN heap \subseteq Addresses
  /\ \A a \in DOMAIN heap : heap[a] \in Seq(Cells)
  /\ heap = [a \in DOMAIN heap |-> heap[a]]
  /\ chunk \in [Buffers -> BufferType]
  /\ pending \in Seq([buffer : Buffers, value : Values])
  /\ phase \in Phases
  /\ written \in [Buffers -> Seq(Values)]

(* A buffer without a block has no room; one with a block has as many      *)
(* cells as its capacity says, and the first of them are what was written. *)
Stores(b) ==
  LET buffer == chunk[b]
  IN  /\ buffer.length = Len(written[b])
      /\ buffer.length <= buffer.capacity
      /\ buffer.ptr = NULL => buffer.capacity = 0
      /\ buffer.ptr # NULL =>
           /\ buffer.ptr \in DOMAIN heap
           /\ Len(heap[buffer.ptr]) = buffer.capacity
           /\ \A i \in 1..buffer.length : heap[buffer.ptr][i] = written[b][i]

Apart == chunk["bytecode"].ptr = chunk["constants"].ptr => chunk["bytecode"].ptr = NULL

ChunkInv ==
  /\ TypeOK
  /\ phase # "freed" => Apart /\ \A b \in Buffers : Stores(b)
  /\ NoBlockLost

-----------------------------------------------------------------------------
(* GROW_CAPACITY makes room for one more.                                  *)
LEMMA CapacityGrows ==
  ASSUME NEW n \in Nat
  PROVE  GROW_CAPACITY(n) \in Nat /\ GROW_CAPACITY(n) > n
BY ChunkAssumption DEF GROW_CAPACITY

(* A sequence whose items are the first of another is a prefix of it.      *)
LEMMA PrefixByItems ==
  ASSUME NEW S, NEW T, NEW u \in Seq(S), NEW v \in Seq(T), Len(u) <= Len(v),
         \A i \in 1..Len(u) : u[i] = v[i]
  PROVE  IsPrefix(u, v)
BY DEF IsPrefix

(* realloc keeps the cells of the old block.                               *)
LEMMA ResizedCells ==
  ASSUME NEW cells \in Seq(Cells), NEW size \in Nat, size >= Len(cells)
  PROVE  /\ Resized(cells, size) \in Seq(Cells)
         /\ Len(Resized(cells, size)) = size
         /\ \A i \in 1..Len(cells) : Resized(cells, size)[i] = cells[i]
BY DEF Resized, Cells

-----------------------------------------------------------------------------
LEMMA ChunkInvInit == Init => ChunkInv
<1> SUFFICES ASSUME Init PROVE ChunkInv
  OBVIOUS
<1> USE DEF Init, Buffers, Buffer, NULL
<1>1. TypeOK
  BY DEF TypeOK, BufferType, Phases
<1>2. \A b \in Buffers : Stores(b)
  BY DEF Stores
<1>3. Apart /\ NoBlockLost
  BY DEF Apart, NoBlockLost
<1> QED BY <1>1, <1>2, <1>3 DEF ChunkInv

(* What the next write needs: a buffer and a value.                        *)
LEMMA PendingWrite ==
  ASSUME TypeOK, pending # <<>>
  PROVE  /\ Head(pending).buffer \in Buffers /\ Head(pending).value \in Values
         /\ Tail(pending) \in Seq([buffer : Buffers, value : Values])
<1>1. Head(pending) \in [buffer : Buffers, value : Values]
  BY HeadTailProperties DEF TypeOK
<1>2. Tail(pending) \in Seq([buffer : Buffers, value : Values])
  BY HeadTailProperties DEF TypeOK
<1> QED BY <1>1, <1>2

(* A write that fits goes behind what the buffer holds.                    *)
LEMMA WriteInPlaceKeeps ==
  ASSUME ChunkInv, writeInPlace
  PROVE  ChunkInv'
<1> DEFINE b == Head(pending).buffer
           v == Head(pending).value
           old == chunk[b]
           end == old.length + 1
<1>1. b \in Buffers /\ v \in Values /\ Tail(pending) \in Seq([buffer : Buffers, value : Values])
  BY PendingWrite DEF ChunkInv, writeInPlace
<1>2. /\ phase = "generating" /\ TypeOK /\ Apart /\ NoBlockLost
      /\ \A c \in Buffers : Stores(c)
      /\ old.length < old.capacity
      /\ heap' = [heap EXCEPT ![old.ptr] = [@ EXCEPT ![end] = v]]
      /\ chunk' = [chunk EXCEPT ![b] = Buffer(old.ptr, old.capacity, end)]
      /\ written' = [written EXCEPT ![b] = Append(@, v)]
      /\ pending' = Tail(pending) /\ phase' = phase
  BY <1>1 DEF ChunkInv, TypeOK, BufferType, writeInPlace, Done, Full, Stored, NoBlockLost
<1>3. /\ old \in BufferType /\ old.length \in Nat /\ old.capacity \in Nat
      /\ written[b] \in Seq(Values) /\ old.length = Len(written[b])
  BY <1>1, <1>2 DEF TypeOK, BufferType, Stores
<1>4. /\ old.ptr # NULL /\ old.ptr \in DOMAIN heap /\ heap[old.ptr] \in Seq(Cells)
      /\ Len(heap[old.ptr]) = old.capacity /\ end \in 1..old.capacity
  BY <1>1, <1>2, <1>3 DEF Stores, TypeOK
<1> DEFINE cells == [heap[old.ptr] EXCEPT ![end] = v]
<1>5. /\ cells \in Seq(Cells) /\ Len(cells) = old.capacity
      /\ cells[end] = v /\ \A i \in 1..old.length : cells[i] = heap[old.ptr][i]
  BY <1>1, <1>3, <1>4, ExceptSeq DEF Cells
<1>6. /\ DOMAIN heap' = DOMAIN heap /\ heap'[old.ptr] = cells
      /\ \A a \in DOMAIN heap : a # old.ptr => heap'[a] = heap[a]
  BY <1>2, <1>4
<1>7. /\ Append(written[b], v) \in Seq(Values) /\ Len(Append(written[b], v)) = end
      /\ Append(written[b], v)[end] = v
      /\ \A i \in 1..old.length : Append(written[b], v)[i] = written[b][i]
  BY <1>1, <1>3, AppendProperties
<1>8. /\ chunk'[b].ptr = old.ptr /\ chunk'[b].capacity = old.capacity
      /\ chunk'[b].length = end /\ chunk'[b] \in BufferType
      /\ \A c \in Buffers : c # b => chunk'[c] = chunk[c]
  BY <1>1, <1>2, <1>3 DEF TypeOK, BufferType, Buffer
<1> HIDE DEF b, v, old, end, cells
<1>9. TypeOK'
  <2>1. \A a \in DOMAIN heap' : heap'[a] \in Seq(Cells)
    BY <1>2, <1>5, <1>6 DEF TypeOK
  <2>2. heap' = [a \in DOMAIN heap' |-> heap'[a]]
    BY <1>2
  <2>3. chunk' \in [Buffers -> BufferType] /\ written' \in [Buffers -> Seq(Values)]
    BY <1>1, <1>2, <1>7, <1>8 DEF TypeOK, old
  <2> QED BY <1>1, <1>2, <1>6, <2>1, <2>2, <2>3 DEF TypeOK
<1>10. \A c \in Buffers : chunk'[c].ptr = chunk[c].ptr
  BY <1>1, <1>8 DEF old
<1>11. Apart' /\ NoBlockLost'
  BY <1>2, <1>6, <1>10 DEF Apart, NoBlockLost, Buffers
<1>12. ASSUME NEW c \in Buffers PROVE Stores(c)'
  <2>1. CASE c = b
    <3>1. written'[b] = Append(written[b], v)
      BY <1>1, <1>2 DEF TypeOK
    <3>2. \A i \in 1..end : cells[i] = Append(written[b], v)[i]
      BY <1>1, <1>2, <1>3, <1>4, <1>5, <1>7 DEF Stores, old, end
    <3> QED BY <2>1, <3>1, <3>2, <1>3, <1>4, <1>5, <1>6, <1>7, <1>8 DEF Stores
  <2>2. CASE c # b
    <3>1. chunk[c].ptr # NULL => chunk[c].ptr # old.ptr
      BY <2>2, <1>1, <1>2 DEF Apart, Buffers, old
    <3>2. written'[c] = written[c] /\ chunk'[c] = chunk[c]
      BY <2>2, <1>1, <1>2, <1>8 DEF TypeOK
    <3> QED BY <3>1, <3>2, <1>2, <1>6 DEF Stores
  <2> QED BY <2>1, <2>2
<1> QED BY <1>9, <1>11, <1>12 DEF ChunkInv

(* A write into a full buffer: the block moves, and its contents with it.  *)
LEMMA WriteAndGrowKeeps ==
  ASSUME ChunkInv, writeAndGrow
  PROVE  ChunkInv'
<1> DEFINE b == Head(pending).buffer
           v == Head(pending).value
           old == chunk[b]
           end == old.length + 1
           size == GROW_CAPACITY(old.capacity)
           before == Resized(CellsAt(old.ptr), size)
           rest == Without(heap, old.ptr)
           after == [before EXCEPT ![end] = v]
<1>1. b \in Buffers /\ v \in Values /\ Tail(pending) \in Seq([buffer : Buffers, value : Values])
  BY PendingWrite DEF ChunkInv, writeAndGrow
<1>2. /\ phase = "generating" /\ TypeOK /\ Apart /\ NoBlockLost
      /\ \A c \in Buffers : Stores(c)
      /\ written' = [written EXCEPT ![b] = Append(@, v)]
      /\ pending' = Tail(pending) /\ phase' = phase
  BY DEF ChunkInv, writeAndGrow, Done
<1>3. PICK ptr \in Addresses \ (DOMAIN heap \ {old.ptr}) :
        LET moved == [a \in DOMAIN rest \cup {ptr} |-> IF a = ptr THEN before ELSE rest[a]]
        IN  /\ heap' = Stored(moved, ptr, end, v)
            /\ chunk' = [chunk EXCEPT ![b] = Buffer(ptr, size, end)]
  BY DEF writeAndGrow, Done
<1>4. /\ old \in BufferType /\ old.length \in Nat /\ old.capacity \in Nat
      /\ written[b] \in Seq(Values) /\ old.length = Len(written[b]) /\ old.length <= old.capacity
  <2> HIDE DEF b
  <2>1. old \in BufferType /\ written[b] \in Seq(Values)
    BY <1>1, <1>2 DEF TypeOK
  <2>2. old.length = Len(written[b]) /\ old.length <= old.capacity
    BY <1>1, <1>2 DEF Stores
  <2>3. old.length \in Nat /\ old.capacity \in Nat
    BY <2>1 DEF BufferType
  <2> QED BY <2>1, <2>2, <2>3
<1>5. size \in Nat /\ size > old.capacity /\ end \in 1..size
  <2>1. size \in Nat /\ size > old.capacity
    BY <1>4, CapacityGrows
  <2> HIDE DEF size, old
  <2> QED BY <2>1, <1>4
<1>6. /\ CellsAt(old.ptr) \in Seq(Cells) /\ Len(CellsAt(old.ptr)) = old.capacity
      /\ \A i \in 1..old.length : CellsAt(old.ptr)[i] = written[b][i]
  BY <1>1, <1>2, <1>4 DEF Stores, TypeOK, CellsAt
<1>7. /\ before \in Seq(Cells) /\ Len(before) = size
      /\ \A i \in 1..old.capacity : before[i] = CellsAt(old.ptr)[i]
  BY <1>5, <1>6, ResizedCells
<1>8. /\ after \in Seq(Cells) /\ Len(after) = size /\ after[end] = v
      /\ \A i \in 1..old.length : after[i] = written[b][i]
  <2>1. after \in Seq(Cells) /\ Len(after) = size
        /\ \A i \in 1..size : after[i] = IF i = end THEN v ELSE before[i]
    BY <1>1, <1>5, <1>7, ExceptSeq DEF Cells
  <2> HIDE DEF b, v, old, end, size, before, after
  <2>2. after[end] = v
    BY <2>1, <1>5
  <2>3. ASSUME NEW i \in 1..old.length PROVE after[i] = written[b][i]
    <3>1. i \in 1..size /\ i \in 1..old.capacity /\ i # end
      BY <1>4, <1>5 DEF end
    <3> QED BY <3>1, <2>1, <1>6, <1>7
  <2> QED BY <2>1, <2>2, <2>3
<1>9. /\ DOMAIN heap' = (DOMAIN heap \ {old.ptr}) \cup {ptr}
      /\ heap' = [a \in DOMAIN heap' |-> heap'[a]]
      /\ heap'[ptr] = after
      /\ \A a \in DOMAIN heap \ {old.ptr} : a # ptr /\ heap'[a] = heap[a]
  BY <1>3 DEF Stored, Without
<1>10. /\ Append(written[b], v) \in Seq(Values) /\ Len(Append(written[b], v)) = end
       /\ Append(written[b], v)[end] = v
       /\ \A i \in 1..old.length : Append(written[b], v)[i] = written[b][i]
  BY <1>1, <1>4, AppendProperties
<1>11. /\ chunk'[b].ptr = ptr /\ chunk'[b].capacity = size
       /\ chunk'[b].length = end /\ chunk'[b] \in BufferType
       /\ \A c \in Buffers : c # b => chunk'[c] = chunk[c]
  BY <1>1, <1>2, <1>3, <1>4, <1>5 DEF TypeOK, BufferType, Buffer
<1>12. ptr # NULL
  BY <1>3, ChunkAssumption
<1>13. \A c \in Buffers : c # b /\ chunk[c].ptr # NULL =>
         chunk[c].ptr \in DOMAIN heap \ {old.ptr}
  BY <1>1, <1>2 DEF Stores, Apart, Buffers
<1>14. /\ TypeOK /\ NoBlockLost /\ phase = "generating" /\ phase' = phase
       /\ \A c \in Buffers : Stores(c)
       /\ chunk' = [chunk EXCEPT ![b] = Buffer(ptr, size, end)]
       /\ ptr \in Addresses
  BY <1>2, <1>3
<1> HIDE DEF b, v, old, end, size, before, rest, after
<1>15. TypeOK'
  <2>1. DOMAIN heap' \subseteq Addresses /\ \A a \in DOMAIN heap' : heap'[a] \in Seq(Cells)
    BY <1>8, <1>9, <1>14 DEF TypeOK
  <2>2. chunk' \in [Buffers -> BufferType]
    BY <1>11, <1>14 DEF TypeOK
  <2>3. written' \in [Buffers -> Seq(Values)]
    BY <1>1, <1>2, <1>10 DEF TypeOK
  <2> QED BY <1>1, <1>2, <1>9, <2>1, <2>2, <2>3 DEF TypeOK
<1>16. Apart' /\ NoBlockLost'
  <2>1. \A c \in Buffers : c # b /\ chunk[c].ptr # NULL => chunk'[c].ptr # ptr
    BY <1>9, <1>11, <1>13
  <2>2. Apart'
    BY <2>1, <1>1, <1>11 DEF Apart, Buffers
  <2>3. DOMAIN heap = {chunk[c].ptr : c \in Buffers} \ {NULL}
    BY <1>14 DEF NoBlockLost
  <2>4. DOMAIN heap' = {chunk'[c].ptr : c \in Buffers} \ {NULL}
    BY <2>3, <1>1, <1>9, <1>11, <1>12, <1>13 DEF Buffers, old
  <2> QED BY <2>2, <2>4, <1>14 DEF NoBlockLost
<1>17. ASSUME NEW c \in Buffers PROVE Stores(c)'
  <2>1. CASE c = b
    <3>1. written'[b] = Append(written[b], v)
      BY <1>1, <1>2 DEF TypeOK
    <3>2. \A i \in 1..end : after[i] = Append(written[b], v)[i]
      BY <1>4, <1>8, <1>10 DEF end
    <3> QED BY <2>1, <3>1, <3>2, <1>5, <1>8, <1>9, <1>10, <1>11, <1>12 DEF Stores
  <2>2. CASE c # b
    <3>1. written'[c] = written[c] /\ chunk'[c] = chunk[c]
      BY <2>2, <1>2, <1>11 DEF TypeOK
    <3> QED BY <2>2, <3>1, <1>9, <1>13, <1>14 DEF Stores
  <2> QED BY <2>1, <2>2
<1> QED BY <1>15, <1>16, <1>17 DEF ChunkInv

(* Patching changes a byte and what counts as written together.            *)
LEMMA PatchKeeps ==
  ASSUME ChunkInv, patchJump
  PROVE  ChunkInv'
<1> DEFINE b == "bytecode"
           ptr == chunk[b].ptr
<1>1. PICK o \in 1..chunk[b].length, v \in Values :
        /\ heap' = [heap EXCEPT ![ptr] = [@ EXCEPT ![o] = v]]
        /\ written' = [written EXCEPT ![b] = [@ EXCEPT ![o] = v]]
  BY DEF patchJump
<1>2. /\ phase = "generating" /\ TypeOK /\ Apart /\ NoBlockLost
      /\ \A c \in Buffers : Stores(c)
      /\ chunk' = chunk /\ pending' = pending /\ phase' = phase
  BY DEF ChunkInv, patchJump
<1>3. b \in Buffers /\ chunk[b].length \in Nat /\ chunk[b].capacity \in Nat
  BY <1>2 DEF TypeOK, BufferType, Buffers
<1>4. /\ ptr # NULL /\ ptr \in DOMAIN heap /\ heap[ptr] \in Seq(Cells)
      /\ Len(heap[ptr]) = chunk[b].capacity /\ chunk[b].length <= chunk[b].capacity
      /\ written[b] \in Seq(Values) /\ Len(written[b]) = chunk[b].length
  BY <1>1, <1>2, <1>3 DEF Stores, TypeOK
<1> DEFINE cells == [heap[ptr] EXCEPT ![o] = v]
           text == [written[b] EXCEPT ![o] = v]
<1>5. /\ cells \in Seq(Cells) /\ Len(cells) = chunk[b].capacity
      /\ \A i \in 1..chunk[b].capacity : cells[i] = IF i = o THEN v ELSE heap[ptr][i]
  BY <1>1, <1>3, <1>4, ExceptSeq DEF Cells
<1>6. /\ text \in Seq(Values) /\ Len(text) = chunk[b].length
      /\ \A i \in 1..chunk[b].length : text[i] = IF i = o THEN v ELSE written[b][i]
  BY <1>1, <1>3, <1>4, ExceptSeq
<1>7. /\ DOMAIN heap' = DOMAIN heap /\ heap' = [a \in DOMAIN heap' |-> heap'[a]]
      /\ heap'[ptr] = cells /\ \A a \in DOMAIN heap : a # ptr => heap'[a] = heap[a]
  BY <1>1, <1>4
<1>8. written'[b] = text /\ \A c \in Buffers : c # b => written'[c] = written[c]
  BY <1>1, <1>2, <1>3 DEF TypeOK
<1>9. written' \in [Buffers -> Seq(Values)]
  BY <1>1, <1>2, <1>3, <1>6 DEF TypeOK
<1> HIDE DEF ptr, cells, text
<1>10. TypeOK'
  BY <1>2, <1>5, <1>7, <1>9 DEF TypeOK
<1>11. Apart' /\ NoBlockLost'
  BY <1>2, <1>7 DEF Apart, NoBlockLost
<1>12. ASSUME NEW c \in Buffers PROVE Stores(c)'
  <2>1. CASE c = b
    <3>1. \A i \in 1..chunk[b].length : heap[ptr][i] = written[b][i]
      BY <1>2, <1>3, <1>4 DEF Stores, ptr
    <3>2. \A i \in 1..chunk[b].length : cells[i] = text[i]
      BY <3>1, <1>3, <1>4, <1>5, <1>6
    <3> QED BY <2>1, <3>2, <1>2, <1>4, <1>5, <1>6, <1>7, <1>8 DEF Stores, ptr
  <2>2. CASE c # b
    <3>1. chunk[c].ptr # NULL => chunk[c].ptr # ptr
      BY <2>2, <1>2, <1>4 DEF Apart, Buffers, ptr
    <3> QED BY <2>2, <3>1, <1>2, <1>7, <1>8 DEF Stores
  <2> QED BY <2>1, <2>2
<1> QED BY <1>10, <1>11, <1>12 DEF ChunkInv

(* freeChunk leaves no block.                                              *)
LEMMA FreeLeavesNothing ==
  ASSUME ChunkInv, freeChunk
  PROVE  ChunkInv'
<1>1. TypeOK /\ DOMAIN heap = {chunk[b].ptr : b \in Buffers} \ {NULL}
  BY DEF ChunkInv, NoBlockLost, freeChunk
<1>2. NULL \notin DOMAIN heap
  BY <1>1
<1>3. DOMAIN heap' = {}
  BY <1>1, <1>2 DEF freeChunk, Without, Buffers
<1>4. heap' = [a \in DOMAIN heap' |-> heap'[a]]
  BY DEF freeChunk, Without
<1>5. TypeOK' /\ phase' = "freed"
  BY <1>1, <1>3, <1>4 DEF TypeOK, Phases, freeChunk
<1> QED BY <1>3, <1>5 DEF ChunkInv, NoBlockLost

LEMMA ChunkInvStep == ChunkInv /\ [Next]_vars => ChunkInv'
<1> SUFFICES ASSUME ChunkInv, [Next]_vars PROVE ChunkInv'
  OBVIOUS
<1>1. ASSUME UNCHANGED <<heap, chunk, written>>, phase # "freed", phase' # "freed",
             pending' \in Seq([buffer : Buffers, value : Values]), phase' \in Phases
      PROVE  ChunkInv'
  <2>1. TypeOK'
    BY <1>1 DEF ChunkInv, TypeOK
  <2>2. Apart' /\ \A b \in Buffers : Stores(b)'
    BY <1>1 DEF ChunkInv, Apart, Stores
  <2>3. NoBlockLost'
    BY <1>1 DEF ChunkInv, NoBlockLost
  <2> QED BY <2>1, <2>2, <2>3 DEF ChunkInv
<1>2. CASE emit
  <2>1. pending' \in Seq([buffer : Buffers, value : Values])
    <3>1. \A v \in Values : /\ Write("bytecode", v) \in [buffer : Buffers, value : Values]
                            /\ Write("constants", v) \in [buffer : Buffers, value : Values]
      BY DEF Write, Buffers
    <3>2. PICK v \in Values :
            pending' \in {<<Write("bytecode", v)>>,
                         <<Write("constants", v), Write("bytecode", v), Write("bytecode", v)>>}
      BY <1>2 DEF emit
    <3>3. \A x, y, z \in [buffer : Buffers, value : Values] :
            /\ <<x>> \in Seq([buffer : Buffers, value : Values])
            /\ <<x, y, z>> \in Seq([buffer : Buffers, value : Values])
      OBVIOUS
    <3>4. CASE pending' = <<Write("bytecode", v)>>
      <4> DEFINE x == Write("bytecode", v)
      <4>1. x \in [buffer : Buffers, value : Values]
        BY <3>1, <3>2
      <4>2. pending' = <<x>>
        BY <3>4
      <4> HIDE DEF x
      <4> QED BY <3>3, <4>1, <4>2
    <3>5. CASE pending' = <<Write("constants", v), Write("bytecode", v), Write("bytecode", v)>>
      <4> DEFINE x == Write("constants", v)
                 y == Write("bytecode", v)
      <4>1. x \in [buffer : Buffers, value : Values] /\ y \in [buffer : Buffers, value : Values]
        BY <3>1, <3>2
      <4>2. pending' = <<x, y, y>>
        BY <3>5
      <4> HIDE DEF x, y
      <4> QED BY <3>3, <4>1, <4>2
    <3> QED BY <3>2, <3>4, <3>5
  <2> QED BY <2>1, <1>1, <1>2 DEF emit, Phases
<1>3. CASE patchJump
  BY <1>3, PatchKeeps
<1>4. CASE writeInPlace
  BY <1>4, WriteInPlaceKeeps
<1>5. CASE writeAndGrow
  BY <1>5, WriteAndGrowKeeps
<1>6. CASE writeWithoutMemory
  BY <1>1, <1>6 DEF writeWithoutMemory, Phases, ChunkInv, TypeOK
<1>7. CASE return
  BY <1>1, <1>7 DEF return, Phases, ChunkInv, TypeOK
<1>8. CASE reject
  BY <1>1, <1>8 DEF reject, Phases, ChunkInv, TypeOK
<1>9. CASE freeChunk
  BY <1>9, FreeLeavesNothing
<1>10. CASE UNCHANGED vars
  <2>1. TypeOK' /\ NoBlockLost'
    BY <1>10 DEF vars, ChunkInv, TypeOK, NoBlockLost
  <2>2. phase' # "freed" => Apart' /\ \A b \in Buffers : Stores(b)'
    BY <1>10 DEF vars, ChunkInv, Apart, Stores
  <2> QED BY <2>1, <2>2 DEF ChunkInv
<1> QED
  BY <1>2, <1>3, <1>4, <1>5, <1>6, <1>7, <1>8, <1>9, <1>10 DEF Next, Finished

LEMMA Inductive == Spec => []ChunkInv
BY ChunkInvInit, ChunkInvStep, PTL DEF Spec

-----------------------------------------------------------------------------
(* The type invariant of the chunk and its heap.                           *)
THEOREM ChunkTypeCorrect == Spec => []TypeOK
<1>1. ChunkInv => TypeOK
  BY DEF ChunkInv
<1> QED BY <1>1, Inductive, PTL

(* Wherever realloc puts the blocks, and whenever the generator patches a  *)
(* byte, each buffer holds what was written to it.                         *)
THEOREM WrittenIsKept == Spec => []ContentsKept
<1>1. ChunkInv => ContentsKept
  <2> SUFFICES ASSUME ChunkInv, phase # "freed" PROVE ContentsKept
    BY DEF ContentsKept
  <2>1. ASSUME NEW b \in Buffers PROVE IsPrefix(written[b], CellsAt(chunk[b].ptr))
    <3>1. /\ written[b] \in Seq(Values) /\ Stores(b)
          /\ chunk[b].length \in Nat /\ chunk[b].capacity \in Nat
      BY DEF ChunkInv, TypeOK, BufferType
    <3>2. CellsAt(chunk[b].ptr) \in Seq(Cells)
      BY <3>1 DEF CellsAt, Stores, ChunkInv, TypeOK
    <3>3. Len(written[b]) <= Len(CellsAt(chunk[b].ptr))
      BY <3>1 DEF CellsAt, Stores
    <3>4. \A i \in 1..Len(written[b]) : written[b][i] = CellsAt(chunk[b].ptr)[i]
      BY <3>1 DEF CellsAt, Stores
    <3> QED BY <3>1, <3>2, <3>3, <3>4, PrefixByItems
  <2> QED BY <2>1 DEF ContentsKept, ChunkInv, Apart
<1> QED BY <1>1, Inductive, PTL

(* The heap has the blocks the chunk points to and no other, until         *)
(* freeChunk, and none afterwards.                                         *)
THEOREM NothingLeaks == Spec => []NoBlockLost
<1>1. ChunkInv => NoBlockLost
  BY DEF ChunkInv
<1> QED BY <1>1, Inductive, PTL
==============================================================================
