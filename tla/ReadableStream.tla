--------------------------- MODULE ReadableStream ---------------------------
(***************************************************************************)
(* The readable side of a stream (src/js/stream_readable.js): the concrete *)
(* stream push()es chunks, which reach the user as 'data' events in        *)
(* flowing mode and through read() in paused mode.                         *)
(*                                                                         *)
(* readBuffer() always takes everything, so state.buffer is modelled by    *)
(* the concatenation of its chunks.  A listener of 'data' may call any     *)
(* operation again before emitData() goes on to its test for the end: depth*)
(* counts the emitData() calls suspended in their listeners.  The other    *)
(* events are emitted in tail position.                                    *)
(***************************************************************************)
EXTENDS Integers, Sequences

CONSTANTS
    Byte,        \* the values of a byte
    Chunk,       \* the chunks that may be pushed: sequences of bytes
    MaxPushes,   \* bound: chunks pushed in a behaviour
    MaxDepth,    \* bound: emitData() calls nested in listeners
    MaxErrors    \* bound: refused push() calls

ASSUME ConstantsAssumption ==
    /\ Chunk \subseteq Seq(Byte)
    /\ MaxPushes \in Nat
    /\ MaxDepth \in Nat
    /\ MaxErrors \in Nat

VARIABLES
    buffer,         \* the bytes of state.buffer
    length,         \* state.length
    flowing,        \* state.flowing
    ended,          \* state.ended: the concrete stream met EOF
    endEmitted,     \* state.endEmitted
    depth,          \* emitData() calls suspended in a 'data' listener
    pushes,         \* number of chunks pushed
    refused,        \* number of push() calls answered by 'error'
    pushed,         \* history: the bytes accepted by push()
    got,            \* history: the bytes handed to the user
    unwound         \* history: an exception unwound a suspended emitData()

readVars == <<buffer, length, flowing, ended, endEmitted, depth, pushes, refused,
              pushed, got, unwound>>

ReadInit ==
    /\ buffer = <<>>
    /\ length = 0
    /\ flowing = FALSE
    /\ ended = FALSE
    /\ endEmitted = FALSE
    /\ depth = 0
    /\ pushes = 0
    /\ refused = 0
    /\ pushed = <<>>
    /\ got = <<>>
    /\ unwound = FALSE

-----------------------------------------------------------------------------
(***************************************************************************)
(* The helpers fix the new values of the variables named in their comments.*)
(***************************************************************************)

\* readBuffer() of everything: buffer, length.
ReadBuffer ==
    /\ buffer' = <<>>
    /\ length' = 0

\* emitEnd(), called where ended holds once e says so: endEmitted.
EmitEndIf(e) == endEmitted' = (endEmitted \/ e)

\* emitData() of data up to its listeners, with stale bytes still buffered: buffer,
\* length, depth, got.  Its assertion takes whatever is buffered, and throws if that
\* was anything (BytesInOrder says that it never is).
EmitData(stale, data) ==
    /\ ReadBuffer
    /\ depth' = IF stale = 0 THEN depth + 1 ELSE 0
    /\ got' = IF stale = 0 THEN got \o data ELSE got

-----------------------------------------------------------------------------
(***************************************************************************)
(* The concrete stream.                                                    *)
(***************************************************************************)

\* The condition under which push() stores its chunk.
MustBuffer == ~flowing

\* push(chunk) before EOF.  A chunk that is stored is announced by 'readable'.
Push(chunk) ==
    /\ ~ended
    /\ pushes < MaxPushes
    /\ pushes' = pushes + 1
    /\ pushed' = pushed \o chunk
    /\ \/ /\ MustBuffer
          /\ buffer' = buffer \o chunk
          /\ length' = length + Len(chunk)
          /\ UNCHANGED <<depth, got>>
       \/ /\ ~MustBuffer
          /\ depth < MaxDepth
          /\ EmitData(length, chunk)
    /\ UNCHANGED <<flowing, ended, endEmitted, refused, unwound>>

\* Mutant of PushEof: 'end' does not wait for the buffered data.
PushEofAtOnce ==
    /\ ended' = TRUE
    /\ EmitEndIf(TRUE)
    /\ UNCHANGED <<buffer, length, flowing, depth, pushes, refused, pushed, got, unwound>>

\* push(null): onEof().
PushEof ==
    /\ ended' = TRUE
    /\ EmitEndIf(length = 0)
    /\ UNCHANGED <<buffer, length, flowing, depth, pushes, refused, pushed, got, unwound>>

\* push() after EOF, or of something that is neither a string nor a Buffer.
PushRefused ==
    /\ refused < MaxErrors
    /\ refused' = refused + 1
    /\ UNCHANGED <<buffer, length, flowing, ended, endEmitted, depth, pushes, pushed, got,
                   unwound>>

(***************************************************************************)
(* The user.                                                               *)
(***************************************************************************)

\* Mutant of Resume: the mode changes but the buffer stays.
ResumeOnly ==
    /\ ~flowing
    /\ flowing' = TRUE
    /\ UNCHANGED <<buffer, length, ended, endEmitted, depth, pushes, refused, pushed, got,
                   unwound>>

\* resume(), which on('data') calls too.
Resume ==
    /\ ~flowing
    /\ flowing' = TRUE
    /\ \/ /\ length > 0
          /\ depth < MaxDepth
          /\ EmitData(0, buffer)
       \/ /\ length = 0
          /\ UNCHANGED <<buffer, length, depth, got>>
    /\ UNCHANGED <<ended, endEmitted, pushes, refused, pushed, unwound>>

\* pause().
Pause ==
    /\ flowing
    /\ flowing' = FALSE
    /\ UNCHANGED <<buffer, length, ended, endEmitted, depth, pushes, refused, pushed, got,
                   unwound>>

\* Mutant of ReadAll: the buffer is handed out and kept.
ReadAllAgain ==
    /\ got' = got \o buffer
    /\ EmitEndIf(ended /\ length = 0)
    /\ UNCHANGED <<buffer, length, flowing, ended, depth, pushes, refused, pushed, unwound>>

\* read() of at least what there is, nothing included.
ReadAll ==
    /\ ReadBuffer
    /\ got' = got \o buffer
    /\ EmitEndIf(ended)
    /\ UNCHANGED <<flowing, ended, depth, pushes, refused, pushed, unwound>>

\* read(n) of a part of the buffer throws 'not implemented', and the exception unwinds
\* the listeners it was called from.  (read(0) of a non-empty buffer returns null.)
ReadPart ==
    /\ length > 1
    /\ depth > 0
    /\ depth' = 0
    /\ unwound' = TRUE
    /\ UNCHANGED <<buffer, length, flowing, ended, endEmitted, pushes, refused, pushed, got>>

\* The 'data' listeners return to emitData().
DataReturn ==
    /\ depth > 0
    /\ depth' = depth - 1
    /\ EmitEndIf(ended /\ length = 0)
    /\ UNCHANGED <<buffer, length, flowing, ended, pushes, refused, pushed, got, unwound>>

\* A listener throws.
Unwind ==
    /\ depth > 0
    /\ depth' = 0
    /\ unwound' = TRUE
    /\ UNCHANGED <<buffer, length, flowing, ended, endEmitted, pushes, refused, pushed, got>>

Source == (\E chunk \in Chunk : Push(chunk)) \/ PushEof \/ PushRefused

User == Resume \/ Pause \/ ReadAll \/ ReadPart \/ DataReturn \/ Unwind

ReadNext == Source \/ User

ReadSpec == ReadInit /\ [][ReadNext]_readVars

\* Listeners return, and a user who paused the stream resumes it sooner or later.
ReadFairSpec == ReadSpec /\ WF_readVars(DataReturn) /\ WF_readVars(Resume)

-----------------------------------------------------------------------------
(***************************************************************************)
(* Properties.                                                             *)
(***************************************************************************)

\* Types of the state; state.length is the size of what is buffered.
TypeOK ==
    /\ buffer \in Seq(Byte)
    /\ length \in Nat
    /\ flowing \in BOOLEAN
    /\ ended \in BOOLEAN
    /\ endEmitted \in BOOLEAN
    /\ depth \in Nat
    /\ pushes \in Nat
    /\ refused \in Nat
    /\ pushed \in Seq(Byte)
    /\ got \in Seq(Byte)
    /\ unwound \in BOOLEAN
    /\ length = Len(buffer)

\* Every byte pushed reaches the user once and in order, whichever way it was read and
\* however the modes changed, or is still buffered.  In particular the assertion of
\* emitData(), which throws away what is buffered, finds nothing.
BytesInOrder == pushed = got \o buffer

\* A flowing stream buffers nothing, so that data cannot overtake data.
FlowingIsDrained == flowing => buffer = <<>>

\* 'end' is emitted after EOF and after the last byte; nothing can follow it.
EndAfterData == endEmitted => ended /\ got = pushed

\* Once EOF is met and everything was read, 'end' has been emitted, unless a listener
\* threw on the way to it or emitData() has still to get there.
EndNotForgotten == ended /\ buffer = <<>> => endEmitted \/ depth > 0 \/ unwound

\* EOF leads to 'end' once the user resumes the stream, unless a listener throws.
EofLeadsToEnd == ended ~> (endEmitted \/ unwound)

=============================================================================
