----------------------------- MODULE OrderedSink -----------------------------
(***************************************************************************)
(* What a writable stream promises its user (docs/api/IoT.js-API-Stream.md)*)
(* without its buffer, flags and ticks: chunks are flushed in the order in *)
(* which they were accepted, none is accepted after 'finish', and 'finish' *)
(* is emitted only when all accepted data has been flushed.                *)
(***************************************************************************)
EXTENDS Integers, Sequences

CONSTANT Chunk

VARIABLES
    accepted,   \* chunks taken from the user
    flushed,    \* chunks that reached the underlying system
    finished    \* 'finish' was emitted

vars == <<accepted, flushed, finished>>

Init == accepted = <<>> /\ flushed = <<>> /\ finished = FALSE

\* write(chunk) or end(chunk).
Accept(c) ==
    /\ ~finished
    /\ accepted' = Append(accepted, c)
    /\ UNCHANGED <<flushed, finished>>

\* The next chunk is flushed; 'finish' may have waited for just that.
Flush ==
    /\ ~finished
    /\ Len(flushed) < Len(accepted)
    /\ flushed' = Append(flushed, accepted[Len(flushed) + 1])
    /\ finished' \in {FALSE, flushed' = accepted}
    /\ UNCHANGED accepted

\* 'finish' on its own.
Finish ==
    /\ ~finished
    /\ flushed = accepted
    /\ finished' = TRUE
    /\ UNCHANGED <<accepted, flushed>>

Next == (\E c \in Chunk : Accept(c)) \/ Flush \/ Finish

Spec == Init /\ [][Next]_vars

=============================================================================
