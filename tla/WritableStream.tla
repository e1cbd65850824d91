--------------------------- MODULE WritableStream ---------------------------
(***************************************************************************)
(* The writable side of a stream (src/js/stream_writable.js): a queue of   *)
(* chunks in front of an underlying system that takes one chunk at a time. *)
(*                                                                         *)
(* JavaScript runs on one thread, so a call is atomic except where it      *)
(* calls out: _write() of the concrete stream may call onwrite() before it *)
(* returns, and the 'drain' and 'finish' listeners run by that call may    *)
(* call write() and end() again.  The suspended writeOrBuffer() calls are  *)
(* the variable stack; every other call-out is in tail position, so what a *)
(* listener does there is simply the next action.                          *)
(***************************************************************************)
EXTENDS Integers, Sequences

CONSTANTS
    Chunk,           \* the chunks a user may write
    Size,            \* Size[c] is c.length, zero included
    HighWaterMarks,  \* the values of options.highWaterMark, zero and below included
    MaxWrites,       \* bound: chunks accepted in a behaviour
    MaxRejected      \* bound: writes refused with 'write after end'

ASSUME ConstantsAssumption ==
    /\ Size \in [Chunk -> Nat]
    /\ HighWaterMarks \subseteq Int
    /\ MaxWrites \in Nat
    /\ MaxRejected \in Nat

VARIABLES
    buffer,          \* state.buffer, the queued WriteReqs
    length,          \* state.length
    highWaterMark,   \* state.highWaterMark, which nothing changes
    ready,           \* state.ready
    writing,         \* state.writing
    writingLength,   \* state.writingLength
    needDrain,       \* state.needDrain
    ending,          \* state.ending
    ended,           \* state.ended
    stack,           \* suspended calls of writeOrBuffer, the innermost first:
                     \*   "write" from write(), "end" from end(chunk)
    finishTicks,     \* emitFinish calls in the nextTick queue
    inflight,        \* chunks handed to _write() whose onwrite() is to come
    accepted,        \* history: chunks writeOrBuffer() took, in order
    totals,          \* history: totals[i + 1] is the bytes of the first i of them
    flushed,         \* history: chunks the underlying system completed
    late,            \* history: a chunk was accepted after end()
    finishes,        \* history: 'finish' events emitted
    unwound,         \* history: an exception unwound a suspended call
    nested,          \* history: an onwrite() came before the _write() that led to it returned
    rejected         \* history: writes refused with 'write after end'

state == <<buffer, length, highWaterMark, ready, writing, writingLength, needDrain, ending,
           ended>>
history == <<accepted, totals, flushed, late, finishes, unwound, nested, rejected>>
vars == <<state, stack, finishTicks, inflight, history>>

Frame == {"write", "end"}

Init ==
    /\ buffer = <<>>
    /\ length = 0
    /\ highWaterMark \in HighWaterMarks
    /\ ready = FALSE
    /\ writing = FALSE
    /\ writingLength = 0
    /\ needDrain = FALSE
    /\ ending = FALSE
    /\ ended = FALSE
    /\ stack = <<>>
    /\ finishTicks = 0
    /\ inflight = <<>>
    /\ accepted = <<>>
    /\ totals = <<0>>
    /\ flushed = <<>>
    /\ late = FALSE
    /\ finishes = 0
    /\ unwound = FALSE
    /\ nested = FALSE
    /\ rejected = 0

-----------------------------------------------------------------------------
(***************************************************************************)
(* The helpers.  Each one fixes the new values of the variables named in   *)
(* its comment and leaves the others to its caller.                        *)
(***************************************************************************)

\* doWrite() called while the writing flag is w: writing, writingLength, inflight.
\* Called during a write it only returns an Error, which no caller looks at.
DoWrite(w, c) ==
    \/ /\ w
       /\ UNCHANGED <<writing, writingLength, inflight>>
    \/ /\ ~w
       /\ writing' = TRUE
       /\ writingLength' = Size[c]
       /\ inflight' = <<c>>

\* emitDrain(): needDrain.
EmitDrain == needDrain' = FALSE

\* emitFinish(): ended, finishes.
EmitFinish ==
    /\ ended' = TRUE
    /\ finishes' = IF ended THEN finishes ELSE finishes + 1

\* Mutant of OnEmptyBuffer: the 'drain' branch is missing.
OnEmptyBufferNoDrain ==
    /\ UNCHANGED needDrain
    /\ \/ ending /\ EmitFinish
       \/ ~ending /\ UNCHANGED <<ended, finishes>>

\* onEmptyBuffer(): needDrain, ended, finishes.
OnEmptyBuffer ==
    \/ /\ ending
       /\ EmitFinish
       /\ UNCHANGED needDrain
    \/ /\ ~ending
       /\ EmitDrain
       /\ UNCHANGED <<ended, finishes>>

\* writeBuffered() called while the writing flag is w:
\* buffer, writing, writingLength, inflight, needDrain, ended, finishes.
WriteBuffered(w) ==
    \/ /\ w
       /\ UNCHANGED <<buffer, writing, writingLength, inflight, needDrain, ended, finishes>>
    \/ /\ ~w
       /\ buffer = <<>>
       /\ writing' = FALSE
       /\ writingLength' = 0
       /\ inflight' = <<>>
       /\ OnEmptyBuffer
       /\ UNCHANGED buffer
    \/ /\ ~w
       /\ buffer # <<>>
       /\ buffer' = Tail(buffer)
       /\ DoWrite(w, Head(buffer))
       /\ UNCHANGED <<needDrain, ended, finishes>>

\* Mutant of CheckHighWaterMark: one byte too late.
CheckAboveHighWaterMark(n) == needDrain' = (needDrain \/ n > highWaterMark)

\* The end of writeOrBuffer(), with n bytes pending: needDrain.
CheckHighWaterMark(n) == needDrain' = (needDrain \/ n >= highWaterMark)

\* Mutant of EndWritable: 'finish' does not wait for the queue.
EndWritableWithQueue(w, b) ==
    /\ ending' = TRUE
    /\ finishTicks' = IF ~ending /\ ~w THEN finishTicks + 1 ELSE finishTicks

\* The end of end(): endWritable() unless the stream is already ending;
\* w and b are writing and buffer at that point: ending, finishTicks.
EndWritable(w, b) ==
    /\ ending' = TRUE
    /\ finishTicks' = IF ~ending /\ ~w /\ b = <<>> THEN finishTicks + 1 ELSE finishTicks

\* What follows writeOrBuffer() in the call f: ending, finishTicks.
AfterWriteOrBuffer(f, w, b) ==
    \/ /\ f = "write"
       /\ UNCHANGED <<ending, finishTicks>>
    \/ /\ f = "end"
       /\ EndWritable(w, b)

\* Mutant of MustBuffer: the write under way is not looked at.
MustBufferUnlessIdle == ~ready \/ buffer # <<>>

\* The condition under which writeOrBuffer() queues.
MustBuffer == ~ready \/ writing \/ buffer # <<>>

\* writeOrBuffer() for chunk c on behalf of call f: everything but ready, ended
\* and the other histories.  A chunk that goes straight to _write() suspends the call.
WriteOrBuffer(c, f) ==
    /\ length' = length + Size[c]
    /\ accepted' = Append(accepted, c)
    /\ totals' = Append(totals, totals[Len(totals)] + Size[c])
    /\ late' = (late \/ ending)
    /\ \/ /\ MustBuffer
          /\ buffer' = Append(buffer, c)
          /\ CheckHighWaterMark(length')
          /\ AfterWriteOrBuffer(f, writing, buffer')
          /\ UNCHANGED <<writing, writingLength, inflight, stack>>
       \/ /\ ~MustBuffer
          /\ DoWrite(writing, c)
          /\ stack' = <<f>> \o stack
          /\ UNCHANGED <<buffer, needDrain, ending, finishTicks>>

-----------------------------------------------------------------------------
(***************************************************************************)
(* The operations of the user.                                             *)
(***************************************************************************)

\* write(chunk) on a stream that has not emitted 'finish'.
Write(c) ==
    /\ ~ended
    /\ Len(accepted) < MaxWrites
    /\ WriteOrBuffer(c, "write")
    /\ UNCHANGED <<highWaterMark, ready, ended, flushed, finishes, unwound, nested, rejected>>

\* write(chunk) once 'finish' was emitted: writeAfterEnd() emits 'error'.
WriteAfterEnd ==
    /\ ended
    /\ rejected < MaxRejected
    /\ rejected' = rejected + 1
    /\ UNCHANGED <<state, stack, finishTicks, inflight, accepted, totals, flushed, late,
                   finishes, unwound, nested>>

\* end(chunk) on a stream that has not emitted 'finish'.
EndWithChunk(c) ==
    /\ ~ended
    /\ Len(accepted) < MaxWrites
    /\ WriteOrBuffer(c, "end")
    /\ UNCHANGED <<highWaterMark, ready, ended, flushed, finishes, unwound, nested, rejected>>

\* end() without a chunk.  On an ending stream it does nothing.
End ==
    /\ ~ending
    /\ EndWritable(writing, buffer)
    /\ UNCHANGED <<buffer, length, highWaterMark, ready, writing, writingLength, needDrain,
                   ended, stack, inflight, history>>

(***************************************************************************)
(* The concrete stream and the event loop.                                 *)
(***************************************************************************)

\* _readyToWrite(), which a concrete stream may call again.
ReadyToWrite ==
    /\ ready' = TRUE
    /\ WriteBuffered(writing)
    /\ UNCHANGED <<length, highWaterMark, ending, stack, finishTicks, accepted, totals,
                   flushed, late, unwound, nested, rejected>>

\* state.length once the chunk being written is through.
LengthAfterWrite == length - writingLength

\* onwrite(), once for each call of _write(), from inside it or later.
OnWrite ==
    /\ inflight # <<>>
    /\ length' = LengthAfterWrite
    /\ flushed' = flushed \o inflight
    /\ WriteBuffered(FALSE)
    /\ nested' = (nested \/ stack # <<>>)
    /\ UNCHANGED <<highWaterMark, ready, ending, stack, finishTicks, accepted, totals, late,
                   unwound, rejected>>

\* _write() returns to the suspended writeOrBuffer(), which runs to its end.
WriteReturn ==
    /\ stack # <<>>
    /\ stack' = Tail(stack)
    /\ CheckHighWaterMark(length)
    /\ AfterWriteOrBuffer(Head(stack), writing, buffer)
    /\ UNCHANGED <<buffer, length, highWaterMark, ready, writing, writingLength, ended,
                   inflight, history>>

\* A listener throws below suspended calls: the exception unwinds all of them.
Unwind ==
    /\ stack # <<>>
    /\ stack' = <<>>
    /\ unwound' = TRUE
    /\ UNCHANGED <<state, finishTicks, inflight, accepted, totals, flushed, late, finishes,
                   nested, rejected>>

\* The nextTick queue runs emitFinish(), which nothing can interrupt mid-call.
FinishTick ==
    /\ stack = <<>>
    /\ finishTicks > 0
    /\ finishTicks' = finishTicks - 1
    /\ EmitFinish
    /\ UNCHANGED <<buffer, length, highWaterMark, ready, writing, writingLength, needDrain,
                   ending, stack, inflight, accepted, totals, flushed, late, unwound, nested,
                   rejected>>

User ==
    \/ \E c \in Chunk : Write(c) \/ EndWithChunk(c)
    \/ WriteAfterEnd
    \/ End

System == ReadyToWrite \/ OnWrite \/ WriteReturn \/ Unwind \/ FinishTick

Next == User \/ System

\* The underlying system becomes ready, answers each write, and the event loop
\* runs its queue; nothing obliges the user to do anything.
Fairness ==
    /\ WF_vars(~ready /\ ReadyToWrite)
    /\ WF_vars(OnWrite)
    /\ WF_vars(WriteReturn)
    /\ WF_vars(FinishTick)

Spec == Init /\ [][Next]_vars
FairSpec == Spec /\ Fairness

-----------------------------------------------------------------------------
(***************************************************************************)
(* Properties.                                                             *)
(***************************************************************************)

\* Types of the state.  finish is scheduled at most once and emitted at most once.
TypeOK ==
    /\ buffer \in Seq(Chunk)
    /\ length \in Nat
    /\ highWaterMark \in Int
    /\ ready \in BOOLEAN
    /\ writing \in BOOLEAN
    /\ writingLength \in Nat
    /\ needDrain \in BOOLEAN
    /\ ending \in BOOLEAN
    /\ ended \in BOOLEAN
    /\ stack \in Seq(Frame)
    /\ finishTicks \in {0, 1}
    /\ inflight \in Seq(Chunk)
    /\ accepted \in Seq(Chunk)
    /\ totals \in Seq(Nat)
    /\ flushed \in Seq(Chunk)
    /\ late \in BOOLEAN
    /\ finishes \in {0, 1}
    /\ unwound \in BOOLEAN
    /\ nested \in BOOLEAN
    /\ rejected \in Nat

\* Every chunk write() or end() accepted is flushed, being written or queued, and
\* reaches the underlying system in the order of the calls: doWrite() is never
\* reached during a write, where it would drop its chunk.
NothingLost == accepted = flushed \o inflight \o buffer

\* state.length is the bytes queued plus the bytes being written, and writingLength
\* the latter, at every call-out too.
LengthIsPending ==
    /\ length = totals[Len(accepted) + 1] - totals[Len(flushed) + 1]
    /\ writingLength = totals[Len(flushed) + Len(inflight) + 1] - totals[Len(flushed) + 1]

\* A ready stream with queued chunks always has a write under way, whose onwrite()
\* continues the queue: no wake-up is lost.
NoStall == ready /\ buffer # <<>> => writing

\* A high water mark of zero or less is reached with nothing pending too: the check at the
\* end of writeOrBuffer() then tells the user to wait although the chunk has been written.
ForgottenAtZero == highWaterMark <= 0 /\ nested

\* A user who was told to wait for 'drain' is not forgotten: while the flag is up there is a
\* completion (or readiness) to come that can emit the event.  With a mark of zero or less
\* that holds as long as no _write() has answered before it returned.
DrainToCome == needDrain /\ ~ending => writing \/ ~ready \/ ForgottenAtZero

\* Outside a suspended call, a stream with chunks pending that has reached its high water
\* mark, whatever that is, has told its user to wait (stream_writable.js:187), unless an
\* exception skipped the check at the end of writeOrBuffer().
Backpressure ==
    length >= highWaterMark /\ (writing \/ buffer # <<>>) /\ stack = <<>>
        => needDrain \/ unwound

\* 'finish' means flushed, provided no chunk was accepted after end(): nothing is
\* queued or being written when the event is emitted, nor ever after.
FinishUnlessLate == ended /\ ~late => flushed = accepted

\* The documented meaning of 'finish': end() was called and all pending data has
\* been flushed.
FinishMeansFlushed == ended => ending /\ flushed = accepted

\* The stream as an ordered sink.  A 'finish' that follows a write after end() is
\* not counted: the documentation does not allow that write, and the code accepts it.
Sink == INSTANCE OrderedSink WITH finished <- ended /\ ~late

\* The stream is an ordered sink: first in, first out, nothing accepted after 'finish',
\* and 'finish', unless some write came after end(), once everything is flushed.
ImplementsSink == Sink!Spec

\* end() is followed by 'finish', whatever the user and the listeners do meanwhile.
EndLeadsToFinish == ending ~> ended

\* Whoever waits for 'drain' gets it, unless the stream is ended meanwhile or the mark is
\* zero or less and some _write() answered before it returned.
DrainIsEmitted == needDrain ~> (~needDrain \/ ending \/ ForgottenAtZero)

\* The documented meaning of 'drain' (docs/api/IoT.js-API-Stream.md:290-292): whoever was
\* refused gets it.  Not so with highWaterMark 0.
RefusedLeadsToDrain == needDrain ~> (~needDrain \/ ending)

\* What was accepted is flushed, 'finish' or not.
EverythingFlushed == []<>(buffer = <<>> /\ inflight = <<>>)

\* Nobody waits for ever: end() is followed by 'finish' (stream_writable.js:236), a user who
\* was refused gets 'drain' (:251), and what waits in the buffer is written (:194).
NobodyWaitsForever == EndLeadsToFinish /\ DrainIsEmitted /\ EverythingFlushed

=============================================================================
