-------------------------- MODULE MCWritableStream --------------------------
(***************************************************************************)
(* A writable stream for TLC: an empty chunk, a chunk below the high water *)
(* mark of 2 and one at it; and a stream with the high water mark 0.       *)
(***************************************************************************)
EXTENDS WritableStream

CONSTANTS empty, small, large

MCChunk == {empty, small, large}
MCSize == [c \in MCChunk |-> CASE c = empty -> 0 [] c = small -> 1 [] c = large -> 2]
MCHighWaterMarks == {0, 2}

=============================================================================
