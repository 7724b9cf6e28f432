-------------------------------- MODULE Chunk --------------------------------
(***************************************************************************)
(* The chunk and the heap behind it (vm/chunk.c, vm/value.c, reallocate in *)
(* utils/memory.c): two buffers, bytecode and constants, that grow by      *)
(* realloc while the generator writes to them, are returned by value, and  *)
(* are freed by buildMain when the program was accepted.                   *)
(***************************************************************************)
EXTENDS Integers, Sequences, FiniteSets, SequencesExt

CONSTANTS
  Addresses,   \* where realloc can put a block
  Values,      \* the bytes and constants written
  GrowMin,     \* the 8 of GROW_CAPACITY
  MaxLength    \* bound: how long the bytecode becomes

NULL == "NULL"

ASSUME ChunkAssumption ==
  GrowMin \in Nat \ {0} /\ MaxLength \in Nat /\ NULL \notin Addresses

Buffers == {"bytecode", "constants"}

VARIABLES
  heap,      \* the blocks that are allocated: address -> its cells
  chunk,     \* buffer -> ptr, capacity, length
  pending,   \* the writes the generator's current call still has to do
  phase,
  written    \* history: buffer -> what was written to it

vars == <<heap, chunk, pending, phase, written>>

Phases == {"generating", "returned", "freed", "rejected", "crashed"}

Buffer(ptr, capacity, length) ==
  [ptr |-> ptr, capacity |-> capacity, length |-> length]

(* initChunk.                                                              *)
Init ==
  /\ heap = [a \in {} |-> <<>>]
  /\ chunk = [b \in Buffers |-> Buffer(NULL, 0, 0)]
  /\ pending = <<>>
  /\ phase = "generating"
  /\ written = [b \in Buffers |-> <<>>]

Write(b, v) == [buffer |-> b, value |-> v]

(* The calls of the generator: a byte, or a constant and its instruction.  *)
emit ==
  /\ phase = "generating" /\ pending = <<>>
  /\ Len(written["bytecode"]) < MaxLength
  /\ \E v \in Values :
       pending' \in {<<Write("bytecode", v)>>,
                     <<Write("constants", v), Write("bytecode", v), Write("bytecode", v)>>}
  /\ UNCHANGED <<heap, chunk, phase, written>>

patchJump ==
  /\ phase = "generating" /\ pending = <<>>
  /\ \E o \in 1..chunk["bytecode"].length, v \in Values :
       /\ heap' = [heap EXCEPT ![chunk["bytecode"].ptr][o] = v]
       /\ written' = [written EXCEPT !["bytecode"][o] = v]
  /\ UNCHANGED <<chunk, pending, phase>>

-----------------------------------------------------------------------------
GROW_CAPACITY(old) == IF old < GrowMin THEN GrowMin ELSE 2 * old

FullTooLate(buffer) == buffer.length > buffer.capacity
Full(buffer) == buffer.length >= buffer.capacity

Without(h, ptr) == [a \in DOMAIN h \ {ptr} |-> h[a]]

(* realloc keeps what the block held; the rest is whatever is there.       *)
Resized(cells, size) ==
  [i \in 1..size |-> IF i <= Len(cells) THEN cells[i] ELSE "garbage"]

CellsAt(ptr) == IF ptr = NULL THEN <<>> ELSE heap[ptr]

Stored(h, ptr, i, v) == [h EXCEPT ![ptr][i] = v]

Done(b, ptr, capacity) ==
  /\ chunk' = [chunk EXCEPT ![b] = Buffer(ptr, capacity, chunk[b].length + 1)]
  /\ written' = [written EXCEPT ![b] = Append(@, Head(pending).value)]
  /\ pending' = Tail(pending)
  /\ UNCHANGED phase

(* One call of writeChunk or writeValueBuffer, the buffer growing first    *)
(* when it is full.  The block stays where it is or moves; when there is   *)
(* no memory its pointer is overwritten by NULL, which is written to.      *)
writeInPlace ==
  /\ phase = "generating" /\ pending # <<>>
  /\ LET b == Head(pending).buffer
         old == chunk[b]
     IN  /\ ~ Full(old)
         /\ heap' = Stored(heap, old.ptr, old.length + 1, Head(pending).value)
         /\ Done(b, old.ptr, old.capacity)

writeAndGrow ==
  /\ phase = "generating" /\ pending # <<>>
  /\ LET b == Head(pending).buffer
         old == chunk[b]
         size == GROW_CAPACITY(old.capacity)
     IN  /\ Full(old)
         /\ \E ptr \in Addresses \ (DOMAIN heap \ {old.ptr}) :
              LET cells == Resized(CellsAt(old.ptr), size)
                  rest == Without(heap, old.ptr)
                  moved == [a \in DOMAIN rest \cup {ptr} |-> IF a = ptr THEN cells ELSE rest[a]]
              IN  /\ heap' = Stored(moved, ptr, old.length + 1, Head(pending).value)
                  /\ Done(b, ptr, size)

writeWithoutMemory ==
  /\ phase = "generating" /\ pending # <<>>
  /\ Full(chunk[Head(pending).buffer])
  /\ phase' = "crashed"
  /\ UNCHANGED <<heap, chunk, pending, written>>

-----------------------------------------------------------------------------
(* generateBytecode returns its local chunk by value.                      *)
return ==
  /\ phase = "generating" /\ pending = <<>>
  /\ written["bytecode"] # <<>>
  /\ phase' = "returned"
  /\ UNCHANGED <<heap, chunk, pending, written>>

(* The end of buildMain: with an error reported it returns at once.        *)
reject ==
  /\ phase = "returned"
  /\ phase' = "rejected"
  /\ UNCHANGED <<heap, chunk, pending, written>>

BytecodeOnly ==
  /\ phase = "returned"
  /\ heap' = Without(heap, chunk["bytecode"].ptr)
  /\ phase' = "freed"
  /\ UNCHANGED <<chunk, pending, written>>

freeChunk ==
  /\ phase = "returned"
  /\ heap' = Without(Without(heap, chunk["bytecode"].ptr), chunk["constants"].ptr)
  /\ phase' = "freed"
  /\ UNCHANGED <<chunk, pending, written>>

Finished == phase \in {"freed", "rejected", "crashed"} /\ UNCHANGED vars

Next ==
  \/ emit \/ patchJump \/ writeInPlace \/ writeAndGrow \/ writeWithoutMemory
  \/ return \/ reject \/ freeChunk
  \/ Finished

Spec == Init /\ [][Next]_vars

-----------------------------------------------------------------------------
(* Whatever realloc does, and whenever a byte is patched, each buffer      *)
(* holds what was written to it, in a block of its own, up to the end of   *)
(* the program or until it is freed.                                       *)
ContentsKept ==
  phase # "freed" =>
    /\ \A b \in Buffers : IsPrefix(written[b], CellsAt(chunk[b].ptr))
    /\ chunk["bytecode"].ptr = chunk["constants"].ptr => chunk["bytecode"].ptr = NULL

(* No block is lost: what is allocated is what the chunk points to, and    *)
(* after freeChunk nothing.  Only a program that the generator rejects     *)
(* leaves its two buffers behind.                                          *)
NoBlockLost ==
  DOMAIN heap =
    IF phase = "freed" THEN {} ELSE {chunk[b].ptr : b \in Buffers} \ {NULL}
==============================================================================
