------------------------------- MODULE MCChunk -------------------------------
(***************************************************************************)
(* Model checking of the chunk's buffers.  Addresses are interchangeable.  *)
(***************************************************************************)
EXTENDS Chunk, TLC

AddressSymmetry == Permutations(Addresses)
==============================================================================
