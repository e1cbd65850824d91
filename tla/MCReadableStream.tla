-------------------------- MODULE MCReadableStream --------------------------
(***************************************************************************)
(* A readable stream for TLC: two bytes, an empty chunk, chunks of one byte*)
(* and a chunk of two.                                                     *)
(***************************************************************************)
EXTENDS ReadableStream

CONSTANTS a, b

MCByte == {a, b}
MCChunk == {<<>>, <<a>>, <<a, b>>}

=============================================================================
