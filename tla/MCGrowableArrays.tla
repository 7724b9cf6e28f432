-------------------------- MODULE MCGrowableArrays --------------------------
(***************************************************************************)
(* Two arrays, of bytes and of words of two bytes, beside blocks of other  *)
(* sizes and alignments, in buffers of 16 bytes.                           *)
(***************************************************************************)
EXTENDS GrowableArrays

CONSTANTS s, t, i, j, foreign

MCArrays == {s, t}
MCItems == {i, j}
MCItemSize == (s :> 1) @@ (t :> 2)
MCRequests == {[size |-> 1, align |-> 1], [size |-> 6, align |-> 4],
               [size |-> 8, align |-> 8], [size |-> 2, align |-> 2],
               [size |-> 16, align |-> 1]}
=============================================================================
