---------------------------- MODULE NetworkProofs ----------------------------
(***************************************************************************)
(* Proofs about the HTTPS request of Https and the datagram socket of      *)
(* Dgram.                                                                  *)
(*                                                                         *)
(* The HTTPS request: its memory is let go exactly once, the chunks reach  *)
(* libcurl in their order and are acknowledged once, and undefined         *)
(* behaviour has a cause in the program, for any number of chunks and of   *)
(* sockets of libcurl.  The datagram socket: what is sent before the       *)
(* socket is bound waits in the queue of the socket, and nothing else      *)
(* does, for any number of sends, binds and arrivals.                      *)
(*                                                                         *)
(* The functions of the code are operators from request to request, or     *)
(* from socket to socket, so there is one lemma for each of them that says *)
(* which fields it leaves alone and what it does to the others; the steps  *)
(* of the system then follow from these lemmas.                            *)
(***************************************************************************)
EXTENDS Https, Dgram, FiniteSetTheorems, SequenceTheorems, TLAPS

Fields ==
  {"mode", "stream_ended", "is_stream_writable", "request_done", "data_to_read", "copied",
   "chunk", "to_destroy", "async", "hnd", "closing_handles", "released", "timeout", "cleaned",
   "curl", "uploaded", "ctx", "buffer", "writing", "ready", "ending", "ended", "finishing",
   "tick", "incoming", "aborted", "closes", "errors", "acks", "fault"}

Shape(q) == DOMAIN q = Fields

\* The handles that uv has not closed yet.
Unclosed(q) == {x \in Handles : q.hnd[x] \in {"open", "closing"}}

\* closing_handles is exact; the timers are open until the clean-up, which closes all.
HandlePart(q) ==
  /\ q.hnd \in [Handles -> {"none", "open", "closing", "closed"}]
  /\ q.closing_handles = Cardinality(Unclosed(q))
  /\ q.released = IF Unclosed(q) = {} THEN 1 ELSE 0
  /\ ~q.cleaned => \A x \in Timers : q.hnd[x] = "open"
  /\ q.cleaned => \A x \in Handles : q.hnd[x] # "open"

\* The clean-up closes the JavaScript request once, with an error if there was no response;
\* 'close' is kept back while a response that was cut is unread.
ClosePart(q) ==
  /\ q.errors \in Nat
  /\ q.closes \in [emitted : Nat, due : Nat]
  /\ q.closes.emitted + q.closes.due = IF q.cleaned THEN 1 ELSE 0
  /\ q.closes.due > 0 => CutUnread(q)
  /\ q.cleaned /\ ~q.incoming.started => q.errors > 0

\* libcurl is gone exactly when the request was cleaned up, and is not entered again once
\* the transfer is over.
CurlPart(q) ==
  /\ q.cleaned <=> q.curl = "gone"
  /\ q.request_done => q.curl \in {"done", "gone"} /\ q.ctx = "loop"
  /\ q.cleaned => ~q.async

\* The chunk that C keeps and those in the stream's buffer are consecutive, up to the last
\* of the w that were written.
BufferPart(q, w) ==
  /\ q.chunk \in Nat
  /\ q.buffer \in Seq(Nat)
  /\ q.chunk + Len(q.buffer) = w
  /\ \A i \in 1 .. Len(q.buffer) : q.buffer[i] = q.chunk + i

\* As long as the transfer goes on and the request is not cleaned up, C keeps a chunk while
\* the stream waits for its callback; n chunks are with libcurl.
ChunkPart(q, n) ==
  /\ q.acks \in [Chunks -> Nat]
  /\ q.cleaned /\ ~q.request_done => \A k \in Chunks : q.acks[k] <= 2
  /\ ~q.cleaned /\ ~q.request_done =>
        /\ q.writing \in {0, q.chunk}
        /\ q.data_to_read => q.writing # 0
        /\ q.async => q.writing # 0 /\ ~q.data_to_read
        /\ q.copied => q.data_to_read
        /\ n = IF q.data_to_read /\ ~q.copied THEN q.chunk - 1 ELSE q.chunk
        /\ \A k \in Chunks : /\ q.acks[k] <= 1
                             /\ q.acks[k] > 0 => k <= q.chunk
                             /\ q.acks[k] > 0 /\ k = q.chunk => q.writing = 0

\* A request without a body has no chunk for libcurl and its stream is never made ready.
GetPart(q) ==
  /\ q.mode \in {"get", "send"}
  /\ q.mode = "get" =>
        /\ q.stream_ended
        /\ ~q.is_stream_writable /\ ~q.ready /\ ~q.request_done /\ ~q.to_destroy /\ ~q.async

\* All that holds of a request whatever the program does, between any two calls.
Sound(q, w, n) ==
  /\ Shape(q)
  /\ HandlePart(q)
  /\ ClosePart(q)
  /\ CurlPart(q)
  /\ BufferPart(q, w)
  /\ ChunkPart(q, n)
  /\ GetPart(q)

\* As long as the program does nothing of use: the stream ends with an empty buffer, and
\* a request with a body is cleaned up only after that.
CleanPart(q) ==
  /\ q.fault = "none"
  /\ q.mode = "send" => (q.stream_ended <=> q.ended) /\ (q.cleaned => q.ended)
  /\ q.ended => q.ending /\ q.buffer = <<>>
  /\ q.tick => q.ending /\ ~q.ended /\ q.buffer = <<>>

WirePart == wire \in Seq(Nat) /\ \A n \in 1 .. Len(wire) : wire[n] = n

IInv ==
  /\ written \in Nat
  /\ WirePart
  /\ Sound(r, written, Len(wire))
  /\ ~r.finishing
  /\ use = {} => CleanPart(r)

-----------------------------------------------------------------------------
(***************************************************************************)
(* What the functions of the code do to a request.                         *)
(***************************************************************************)

\* What only the clean-up, libcurl and the program's calls change.
Frame(q) == <<q.mode, q.request_done, q.is_stream_writable, q.ready, q.hnd,
              q.closing_handles, q.released, q.cleaned, q.closes>>
Outer(q) == <<Frame(q), q.ctx, q.ending, q.tick, q.incoming, q.errors>>

\* The chunk that C keeps, the stream, and how far the stream is.
Body(q) == <<q.chunk, q.buffer, q.writing, q.data_to_read, q.copied, q.to_destroy, q.async,
             q.acks>>
Flags(q) == <<q.ended, q.finishing, q.stream_ended>>

\* libcurl stays as it was or goes on.
Resumes(p, q) == p.curl = q.curl \/ (p.curl = "run" /\ q.curl = "paused")

LEMMA FaultEffect ==
    ASSUME NEW q, Shape(q), NEW f, f # "none"
    PROVE  /\ Shape(Fault(q, f)) /\ Outer(Fault(q, f)) = Outer(q)
           /\ Body(Fault(q, f)) = Body(q) /\ Flags(Fault(q, f)) = Flags(q)
           /\ Fault(q, f).curl = q.curl
  BY DEF Fault, Shape, Fields, Outer, Frame, Body, Flags

LEMMA ContinueEffect ==
    ASSUME NEW q, Shape(q)
    PROVE  /\ Shape(Continue(q)) /\ Outer(Continue(q)) = Outer(q)
           /\ Body(Continue(q)) = Body(q) /\ Flags(Continue(q)) = Flags(q)
           /\ Resumes(Continue(q), q)
           /\ q.curl # "gone" => Continue(q).fault = q.fault
  BY DEF Continue, Fault, Shape, Fields, Outer, Frame, Body, Flags, Resumes

LEMMA DataToWriteEffect ==
    ASSUME NEW q, Shape(q), NEW k
    PROVE  LET p == DataToWrite(q, k)
           IN  /\ Shape(p) /\ Outer(p) = Outer(q)
               /\ p.chunk = k /\ p.data_to_read /\ p.to_destroy
               /\ p.async = IF q.request_done THEN q.hnd["async"] = "open" ELSE q.async
               /\ <<p.buffer, p.writing, p.copied, p.acks>>
                    = <<q.buffer, q.writing, q.copied, q.acks>>
               /\ Flags(p) = Flags(q) /\ Resumes(p, q)
               /\ q.request_done \/ q.curl # "gone" => p.fault = q.fault
<1> DEFINE d == [q EXCEPT !.chunk = k, !.data_to_read = TRUE, !.to_destroy = TRUE]
<1>1. /\ Shape(d) /\ Outer(d) = Outer(q) /\ d.chunk = k /\ d.data_to_read /\ d.to_destroy
      /\ d.async = q.async
      /\ <<d.buffer, d.writing, d.copied, d.acks>> = <<q.buffer, q.writing, q.copied, q.acks>>
      /\ Flags(d) = Flags(q)
      /\ d.curl = q.curl /\ d.fault = q.fault
  BY DEF Shape, Fields, Outer, Frame, Flags
<1>2. DataToWrite(q, k) = IF q.request_done THEN [d EXCEPT !.async = (q.hnd["async"] = "open")]
                          ELSE IF q.is_stream_writable THEN Continue(d) ELSE d
  BY DEF DataToWrite
<1> HIDE DEF d
<1>3. CASE q.request_done
  <2> DEFINE e == [d EXCEPT !.async = (q.hnd["async"] = "open")]
  <2>1. /\ Shape(e) /\ Outer(e) = Outer(d) /\ e.async = (q.hnd["async"] = "open")
        /\ <<e.chunk, e.data_to_read, e.to_destroy>> = <<d.chunk, d.data_to_read, d.to_destroy>>
        /\ <<e.buffer, e.writing, e.copied, e.acks>> = <<d.buffer, d.writing, d.copied, d.acks>>
        /\ Flags(e) = Flags(d)
        /\ <<e.curl, e.fault>> = <<d.curl, d.fault>>
    BY <1>1 DEF Shape, Fields, Outer, Frame, Flags
  <2>2. DataToWrite(q, k) = e
    BY <1>2, <1>3
  <2> HIDE DEF e
  <2> QED
    BY <1>1, <1>3, <2>1, <2>2 DEF Resumes
<1>4. CASE ~q.request_done /\ q.is_stream_writable
  BY <1>1, <1>2, <1>4, ContinueEffect DEF Body, Resumes
<1>5. CASE ~q.request_done /\ ~q.is_stream_writable
  BY <1>1, <1>2, <1>5 DEF Resumes
<1> QED
  BY <1>3, <1>4, <1>5

LEMMA EmitFinishEffect ==
    ASSUME NEW q, Shape(q)
    PROVE  LET p == EmitFinish(q)
           IN  /\ Shape(p) /\ Outer(p) = Outer(q) /\ Body(p) = Body(q)
               /\ <<p.curl, p.fault, p.stream_ended>> = <<q.curl, q.fault, q.stream_ended>>
               /\ p.ended
               /\ IF q.ended THEN p = q ELSE p.finishing
  BY DEF EmitFinish, Shape, Fields, Outer, Frame, Body

\* writeBuffered() has nothing to write; the stream may come to its end.
Rests(p, q) ==
  /\ Body(p) = Body(q)
  /\ <<p.curl, p.fault>> = <<q.curl, q.fault>>
  /\ \/ <<p.ended, p.finishing>> = <<q.ended, q.finishing>>
     \/ q.writing = 0 /\ q.buffer = <<>> /\ q.ending /\ ~q.ended /\ p.ended /\ p.finishing

\* writeBuffered() gives the next chunk to C.
Advances(p, q) ==
  /\ q.writing = 0 /\ q.buffer # <<>>
  /\ p.buffer = Tail(q.buffer)
  /\ p.chunk = Head(q.buffer) /\ p.writing = Head(q.buffer)
  /\ p.data_to_read
  /\ p.async = IF q.request_done THEN q.hnd["async"] = "open" ELSE q.async
  /\ <<p.copied, p.acks, p.ended, p.finishing>> = <<q.copied, q.acks, q.ended, q.finishing>>
  /\ Resumes(p, q)
  /\ q.request_done \/ q.curl # "gone" => p.fault = q.fault

LEMMA WriteBufferedEffect ==
    ASSUME NEW q, Shape(q)
    PROVE  LET p == WriteBuffered(q)
           IN  /\ Shape(p) /\ Outer(p) = Outer(q) /\ p.stream_ended = q.stream_ended
               /\ Rests(p, q) \/ Advances(p, q)
<1>1. CASE q.writing # 0 \/ (q.buffer = <<>> /\ ~q.ending)
  BY <1>1 DEF WriteBuffered, Rests
<1>2. CASE q.writing = 0 /\ q.buffer = <<>> /\ q.ending
  <2>1. WriteBuffered(q) = EmitFinish(q)
    BY <1>2 DEF WriteBuffered
  <2>2. q.ended => EmitFinish(q) = q
    BY DEF EmitFinish
  <2>3. CASE q.ended
    BY <2>1, <2>2, <2>3 DEF Rests
  <2>4. CASE ~q.ended
    <3> DEFINE p == EmitFinish(q)
    <3>1. /\ Shape(p) /\ Outer(p) = Outer(q) /\ Body(p) = Body(q)
          /\ <<p.curl, p.fault, p.stream_ended>> = <<q.curl, q.fault, q.stream_ended>>
          /\ p.ended /\ p.finishing
      BY <2>4, EmitFinishEffect
    <3> HIDE DEF p
    <3>2. Rests(p, q)
      BY <1>2, <2>4, <3>1 DEF Rests
    <3> QED
      BY <2>1, <3>1, <3>2 DEF p
  <2> QED
    BY <2>3, <2>4
<1>3. CASE q.writing = 0 /\ q.buffer # <<>>
  <2> DEFINE d == [q EXCEPT !.buffer = Tail(@), !.writing = Head(q.buffer)]
  <2>1. WriteBuffered(q) = DataToWrite(d, Head(q.buffer))
    BY <1>3 DEF WriteBuffered
  <2>2. /\ Shape(d) /\ Outer(d) = Outer(q) /\ Flags(d) = Flags(q)
        /\ d.buffer = Tail(q.buffer) /\ d.writing = Head(q.buffer)
        /\ <<d.copied, d.acks, d.async, d.curl, d.fault>>
             = <<q.copied, q.acks, q.async, q.curl, q.fault>>
    BY DEF Shape, Fields, Outer, Frame, Flags
  <2> HIDE DEF d
  <2>3. LET p == DataToWrite(d, Head(q.buffer))
        IN  /\ Shape(p) /\ Outer(p) = Outer(d)
            /\ p.chunk = Head(q.buffer) /\ p.data_to_read /\ p.to_destroy
            /\ p.async = IF d.request_done THEN d.hnd["async"] = "open" ELSE d.async
            /\ <<p.buffer, p.writing, p.copied, p.acks>>
                 = <<d.buffer, d.writing, d.copied, d.acks>>
            /\ Flags(p) = Flags(d) /\ Resumes(p, d)
            /\ d.request_done \/ d.curl # "gone" => p.fault = d.fault
    BY <2>2, DataToWriteEffect
  <2>4. d.request_done = q.request_done /\ d.hnd = q.hnd
    BY <2>2 DEF Outer, Frame
  <2> QED
    BY <1>3, <2>1, <2>2, <2>3, <2>4 DEF Advances, Flags, Resumes
<1> QED
  BY <1>1, <1>2, <1>3

\* The chunk's callback is called.
Acked(q) == [q EXCEPT !.acks[q.chunk] = @ + 1, !.writing = 0]

LEMMA AckedEffect ==
    ASSUME NEW q, Shape(q)
    PROVE  /\ CallReadOnwrite(q) = WriteBuffered(Acked(q))
           /\ Shape(Acked(q)) /\ Outer(Acked(q)) = Outer(q) /\ Flags(Acked(q)) = Flags(q)
           /\ Acked(q).writing = 0
           /\ Acked(q).acks = [q.acks EXCEPT ![q.chunk] = @ + 1]
           /\ <<Acked(q).chunk, Acked(q).buffer, Acked(q).data_to_read, Acked(q).copied,
                Acked(q).to_destroy, Acked(q).async, Acked(q).curl, Acked(q).fault>>
                = <<q.chunk, q.buffer, q.data_to_read, q.copied, q.to_destroy, q.async,
                    q.curl, q.fault>>
  BY DEF Acked, CallReadOnwrite, Shape, Fields, Outer, Frame, Flags

-----------------------------------------------------------------------------
(***************************************************************************)
(* What the functions of the code keep, whatever the program does.         *)
(***************************************************************************)

LEMMA Framed ==
    ASSUME NEW p, NEW q, NEW w, NEW n, Sound(q, w, n), Shape(p),
           Frame(p) = Frame(q), Body(p) = Body(q), ClosePart(p), CurlPart(p),
           q.mode = "get" => p.stream_ended
    PROVE  Sound(p, w, n)
<1>1. HandlePart(p)
  BY DEF Sound, HandlePart, Unclosed, Frame
<1>2. BufferPart(p, w)
  BY DEF Sound, BufferPart, Body
<1>3. ChunkPart(p, n)
  BY DEF Sound, ChunkPart, Body, Frame
<1>4. GetPart(p)
  BY DEF Sound, GetPart, Body, Frame
<1> QED
  BY <1>1, <1>2, <1>3, <1>4 DEF Sound

LEMMA OuterFramed ==
    ASSUME NEW p, NEW q, NEW w, NEW n, Sound(q, w, n), Shape(p),
           Outer(p) = Outer(q), Body(p) = Body(q), Resumes(p, q),
           q.mode = "get" => p.stream_ended
    PROVE  Sound(p, w, n)
<1>1. ClosePart(p)
  BY DEF Sound, ClosePart, CutUnread, Outer, Frame
<1>2. CurlPart(p)
  BY DEF Sound, CurlPart, Outer, Frame, Body, Resumes
<1>3. Frame(p) = Frame(q)
  BY DEF Outer
<1> QED
  BY <1>1, <1>2, <1>3, Framed

\* The next chunk is handed to C.
LEMMA AdvanceSound ==
    ASSUME NEW p, NEW q, NEW w, NEW n, Sound(q, w, n), Shape(p), q.mode = "send",
           Outer(p) = Outer(q), Advances(p, q)
    PROVE  Sound(p, w, n)
<1>1. ClosePart(p) /\ HandlePart(p)
  <2>1. ClosePart(p)
    BY DEF Sound, ClosePart, CutUnread, Outer, Frame
  <2>2. HandlePart(p)
    BY DEF Sound, HandlePart, Unclosed, Outer, Frame
  <2> QED
    BY <2>1, <2>2
<1>2. CurlPart(p)
  <2>1. "async" \in Handles
    BY DEF Handles, Timers
  <2> QED
    BY <2>1 DEF Sound, CurlPart, HandlePart, Outer, Frame, Resumes, Advances
<1>3. /\ q.buffer \in Seq(Nat) /\ q.buffer # <<>> /\ q.chunk \in Nat
      /\ \A i \in 1 .. Len(q.buffer) : q.buffer[i] = q.chunk + i
      /\ q.chunk + Len(q.buffer) = w
  BY DEF Sound, BufferPart, Advances
<1>4. p.chunk = q.chunk + 1 /\ p.writing = q.chunk + 1
  BY <1>3 DEF Advances
<1>5. BufferPart(p, w)
  <2>1. /\ p.buffer \in Seq(Nat) /\ Len(p.buffer) = Len(q.buffer) - 1
        /\ \A i \in 1 .. Len(p.buffer) : p.buffer[i] = q.buffer[i + 1]
    BY <1>3 DEF Advances
  <2>2. Len(q.buffer) \in Nat /\ Len(p.buffer) \in Nat
    BY <1>3, <2>1
  <2>3. ASSUME NEW i \in 1 .. Len(p.buffer) PROVE p.buffer[i] = p.chunk + i
    <3>1. i + 1 \in 1 .. Len(q.buffer) /\ i \in Int
      BY <2>1, <2>2
    <3>2. q.buffer[i + 1] = q.chunk + (i + 1)
      BY <1>3, <3>1
    <3>3. p.buffer[i] = q.buffer[i + 1]
      BY <2>1
    <3>4. q.chunk \in Nat
      BY <1>3
    <3> QED
      BY <1>4, <3>1, <3>2, <3>3, <3>4
  <2>4. q.chunk \in Nat /\ q.chunk + Len(q.buffer) = w /\ Len(p.buffer) = Len(q.buffer) - 1
    BY <1>3, <2>1
  <2>5. p.chunk \in Nat /\ p.chunk + Len(p.buffer) = w
    BY <1>4, <2>2, <2>4
  <2>6. p.buffer \in Seq(Nat)
    BY <2>1
  <2> QED
    BY <2>3, <2>5, <2>6 DEF BufferPart
<1>6. ChunkPart(p, n)
  <2>1. q.request_done = p.request_done /\ q.cleaned = p.cleaned /\ p.acks = q.acks
    BY DEF Outer, Frame, Advances
  <2>2. CASE q.request_done \/ q.cleaned
    BY <2>1, <2>2 DEF Sound, ChunkPart
  <2>3. CASE ~q.request_done /\ ~q.cleaned
    <3>1. q.writing = 0 /\ ~q.data_to_read /\ ~q.async /\ ~q.copied /\ n = q.chunk
      BY <2>3 DEF Sound, ChunkPart, Advances
    <3>2. ~p.async /\ p.data_to_read /\ ~p.copied
      BY <3>1, <2>3 DEF Advances
    <3>3. ASSUME NEW k \in Chunks
          PROVE  q.acks[k] <= 1 /\ (q.acks[k] > 0 => k <= q.chunk)
      BY <2>3 DEF Sound, ChunkPart
    <3>4. \A k \in Chunks : k \in Nat
      BY DEF Chunks
    <3> QED
      BY <1>3, <1>4, <2>1, <2>3, <3>1, <3>2, <3>3, <3>4 DEF Sound, ChunkPart
  <2> QED
    BY <2>2, <2>3
<1>7. GetPart(p)
  BY DEF Sound, GetPart, Outer, Frame
<1> QED
  BY <1>1, <1>2, <1>5, <1>6, <1>7 DEF Sound

LEMMA WriteBufferedSound ==
    ASSUME NEW q, NEW w, NEW n, Sound(q, w, n), q.mode = "send"
    PROVE  Sound(WriteBuffered(q), w, n)
<1> DEFINE p == WriteBuffered(q)
<1>1. Shape(p) /\ Outer(p) = Outer(q) /\ p.stream_ended = q.stream_ended
      /\ (Rests(p, q) \/ Advances(p, q))
  BY WriteBufferedEffect DEF Sound
<1> HIDE DEF p
<1>2. CASE Rests(p, q)
  BY <1>1, <1>2, OuterFramed DEF Rests, Resumes, p
<1>3. CASE Advances(p, q)
  BY <1>1, <1>3, AdvanceSound DEF p
<1> QED
  BY <1>1, <1>2, <1>3

\* A counter that is increased.
LEMMA OneMore ==
    ASSUME NEW S, NEW a \in [S -> Nat], NEW c
    PROVE  /\ [a EXCEPT ![c] = @ + 1] \in [S -> Nat]
           /\ \A k \in S : [a EXCEPT ![c] = @ + 1][k] = IF k = c THEN a[k] + 1 ELSE a[k]
<1>1. CASE c \in S
  BY <1>1
<1>2. CASE c \notin S
  BY <1>2
<1> QED
  BY <1>1, <1>2

\* The callback of the chunk that C keeps is called: its first call, while the transfer
\* goes on, or the one of the clean-up.
LEMMA AckedSound ==
    ASSUME NEW q, NEW w, NEW n, Sound(q, w, n), q.mode = "send",
           ~q.cleaned /\ ~q.request_done =>
              q.writing = q.chunk /\ q.writing # 0 /\ ~q.data_to_read /\ ~q.async,
           q.cleaned /\ ~q.request_done => \A k \in Chunks : q.acks[k] <= 1
    PROVE  Sound(Acked(q), w, n)
<1> DEFINE p == Acked(q)
<1>1. /\ Shape(p) /\ Outer(p) = Outer(q) /\ Flags(p) = Flags(q) /\ p.writing = 0
      /\ p.acks = [q.acks EXCEPT ![q.chunk] = @ + 1]
      /\ <<p.chunk, p.buffer, p.data_to_read, p.copied, p.to_destroy, p.async, p.curl>>
           = <<q.chunk, q.buffer, q.data_to_read, q.copied, q.to_destroy, q.async, q.curl>>
  BY AckedEffect DEF Sound
<1> HIDE DEF p
<1>2. ClosePart(p) /\ HandlePart(p) /\ CurlPart(p)
  <2>1. ClosePart(p)
    BY <1>1 DEF Sound, ClosePart, CutUnread, Outer, Frame
  <2>2. HandlePart(p)
    BY <1>1 DEF Sound, HandlePart, Unclosed, Outer, Frame
  <2>3. CurlPart(p)
    BY <1>1 DEF Sound, CurlPart, Outer, Frame
  <2> QED
    BY <2>1, <2>2, <2>3
<1>3. BufferPart(p, w)
  BY <1>1 DEF Sound, BufferPart
<1>4. GetPart(p)
  BY <1>1 DEF Sound, GetPart, Outer, Frame
<1>5. ChunkPart(p, n)
  <2>1. /\ p.request_done = q.request_done /\ p.cleaned = q.cleaned
        /\ q.acks \in [Chunks -> Nat] /\ q.chunk \in Nat
    BY <1>1 DEF Outer, Frame, Sound, ChunkPart, BufferPart
  <2>2. /\ p.acks \in [Chunks -> Nat]
        /\ \A k \in Chunks : p.acks[k] = IF k = q.chunk THEN q.acks[k] + 1 ELSE q.acks[k]
    <3>1. PICK a, c : a = q.acks /\ c = q.chunk
      OBVIOUS
    <3>2. a \in [Chunks -> Nat] /\ p.acks = [a EXCEPT ![c] = @ + 1]
      BY <1>1, <2>1, <3>1
    <3>3. /\ [a EXCEPT ![c] = @ + 1] \in [Chunks -> Nat]
          /\ \A k \in Chunks : [a EXCEPT ![c] = @ + 1][k] = IF k = c THEN a[k] + 1 ELSE a[k]
      BY <3>2, OneMore
    <3> QED
      BY <3>1, <3>2, <3>3
  <2>3. CASE q.cleaned /\ ~q.request_done
    BY <2>1, <2>2, <2>3 DEF ChunkPart
  <2>4. CASE q.request_done
    BY <2>1, <2>2, <2>4 DEF ChunkPart
  <2>5. CASE ~q.cleaned /\ ~q.request_done
    <3>1. /\ q.copied => q.data_to_read
          /\ n = IF q.data_to_read /\ ~q.copied THEN q.chunk - 1 ELSE q.chunk
          /\ \A k \in Chunks : /\ q.acks[k] <= 1
                               /\ q.acks[k] > 0 => k <= q.chunk
                               /\ q.acks[k] > 0 /\ k = q.chunk => q.writing = 0
      BY <2>5 DEF Sound, ChunkPart
    <3>2. ASSUME NEW k \in Chunks
          PROVE  p.acks[k] <= 1 /\ (p.acks[k] > 0 => k <= q.chunk)
      <4>0. k \in Nat
        BY DEF Chunks
      <4>1. k \in Nat /\ q.acks[k] \in Nat
        BY <2>1, <4>0
      <4>2. k = q.chunk => q.acks[k] = 0
        BY <2>5, <3>1, <4>1
      <4> QED
        BY <2>1, <2>2, <3>1, <4>1, <4>2
    <3> QED
      BY <1>1, <2>1, <2>2, <2>5, <3>1, <3>2 DEF ChunkPart
  <2> QED
    BY <2>3, <2>4, <2>5
<1> QED
  BY <1>1, <1>2, <1>3, <1>4, <1>5 DEF Sound, p

\* iotjs_https_cleanup(), up to the callback of the chunk.
Closed(q) == [OnClosed(CloseHandles(q, Handles)) EXCEPT !.cleaned = TRUE, !.curl = "gone"]

\* 'close' is emitted, or kept back.
Kept(q) == IF CutUnread(q) THEN [q.closes EXCEPT !.due = @ + 1]
           ELSE [q.closes EXCEPT !.emitted = @ + 1]

LEMMA ClosedEffect ==
    ASSUME NEW q, Shape(q)
    PROVE  LET c == Closed(q)
           IN  /\ Shape(c) /\ Flags(c) = Flags(q)
               /\ <<c.mode, c.request_done, c.is_stream_writable, c.ready, c.ctx, c.ending, c.tick>>
                    = <<q.mode, q.request_done, q.is_stream_writable, q.ready, q.ctx, q.ending, q.tick>>
               /\ <<c.closing_handles, c.released, c.incoming>>
                    = <<q.closing_handles, q.released, q.incoming>>
               /\ <<c.chunk, c.buffer, c.writing, c.data_to_read, c.copied, c.to_destroy, c.acks>>
                    = <<q.chunk, q.buffer, q.writing, q.data_to_read, q.copied, q.to_destroy, q.acks>>
               /\ c.hnd = [x \in Handles |-> IF q.hnd[x] = "open" THEN "closing" ELSE q.hnd[x]]
               /\ c.async = FALSE /\ c.cleaned /\ c.curl = "gone" /\ c.fault = q.fault
               /\ c.closes = Kept(q)
               /\ c.errors = IF q.incoming.started THEN q.errors ELSE q.errors + 1
<1> DEFINE h == CloseHandles(q, Handles)
           o == OnClosed(h)
<1>1. "async" \in Handles /\ "socket_timeout" \in Handles
  BY DEF Handles, Timers
<1>2. /\ Shape(h) /\ Flags(h) = Flags(q)
      /\ <<h.mode, h.request_done, h.is_stream_writable, h.ready, h.ctx, h.ending, h.tick>>
           = <<q.mode, q.request_done, q.is_stream_writable, q.ready, q.ctx, q.ending, q.tick>>
      /\ <<h.closing_handles, h.released, h.incoming>>
           = <<q.closing_handles, q.released, q.incoming>>
      /\ <<h.chunk, h.buffer, h.writing, h.data_to_read, h.copied, h.to_destroy, h.acks>>
           = <<q.chunk, q.buffer, q.writing, q.data_to_read, q.copied, q.to_destroy, q.acks>>
      /\ h.hnd = [x \in Handles |-> IF q.hnd[x] = "open" THEN "closing" ELSE q.hnd[x]]
      /\ h.async = FALSE /\ h.fault = q.fault /\ h.closes = q.closes /\ h.errors = q.errors
  BY <1>1 DEF CloseHandles, Shape, Fields, Flags
<1> HIDE DEF h
<1>3. /\ Shape(o) /\ Flags(o) = Flags(h)
      /\ <<o.mode, o.request_done, o.is_stream_writable, o.ready, o.ctx, o.ending, o.tick>>
           = <<h.mode, h.request_done, h.is_stream_writable, h.ready, h.ctx, h.ending, h.tick>>
      /\ <<o.closing_handles, o.released, o.incoming>>
           = <<h.closing_handles, h.released, h.incoming>>
      /\ <<o.chunk, o.buffer, o.writing, o.data_to_read, o.copied, o.to_destroy, o.acks>>
           = <<h.chunk, h.buffer, h.writing, h.data_to_read, h.copied, h.to_destroy, h.acks>>
      /\ <<o.hnd, o.async, o.fault>> = <<h.hnd, h.async, h.fault>>
      /\ o.closes = Kept(h)
      /\ o.errors = IF h.incoming.started THEN h.errors ELSE h.errors + 1
  <2>1. CASE CutUnread(h)
    BY <1>2, <2>1 DEF OnClosed, Kept, CutUnread, Shape, Fields, Flags
  <2>2. CASE ~CutUnread(h)
    BY <1>2, <2>2 DEF OnClosed, Kept, Shape, Fields, Flags
  <2> QED
    BY <2>1, <2>2
<1> HIDE DEF o
<1> DEFINE c == [o EXCEPT !.cleaned = TRUE, !.curl = "gone"]
<1>4. /\ Shape(c) /\ Flags(c) = Flags(o)
      /\ <<c.mode, c.request_done, c.is_stream_writable, c.ready, c.ctx, c.ending, c.tick>>
           = <<o.mode, o.request_done, o.is_stream_writable, o.ready, o.ctx, o.ending, o.tick>>
      /\ <<c.closing_handles, c.released, c.incoming>>
           = <<o.closing_handles, o.released, o.incoming>>
      /\ <<c.chunk, c.buffer, c.writing, c.data_to_read, c.copied, c.to_destroy, c.acks>>
           = <<o.chunk, o.buffer, o.writing, o.data_to_read, o.copied, o.to_destroy, o.acks>>
      /\ <<c.hnd, c.async, c.fault>> = <<o.hnd, o.async, o.fault>>
      /\ <<c.closes, c.errors>> = <<o.closes, o.errors>>
      /\ c.cleaned /\ c.curl = "gone"
  BY <1>3 DEF Shape, Fields, Flags
<1>5. Closed(q) = c
  BY DEF Closed, h, o
<1> HIDE DEF c
<1>6. Kept(h) = Kept(q)
  BY <1>2 DEF Kept, CutUnread
<1> QED
  BY <1>2, <1>3, <1>4, <1>5, <1>6

LEMMA ClosedSound ==
    ASSUME NEW q, NEW w, NEW n, Sound(q, w, n), ~q.cleaned
    PROVE  /\ Sound(Closed(q), w, n)
           /\ ~q.request_done => \A k \in Chunks : Closed(q).acks[k] <= 1
<1> DEFINE c == Closed(q)
<1>1. /\ Shape(c)
      /\ <<c.mode, c.request_done, c.is_stream_writable, c.ready, c.ctx>>
           = <<q.mode, q.request_done, q.is_stream_writable, q.ready, q.ctx>>
      /\ <<c.closing_handles, c.released, c.incoming>>
           = <<q.closing_handles, q.released, q.incoming>>
      /\ <<c.chunk, c.buffer, c.to_destroy, c.acks, c.stream_ended>>
           = <<q.chunk, q.buffer, q.to_destroy, q.acks, q.stream_ended>>
      /\ c.hnd = [x \in Handles |-> IF q.hnd[x] = "open" THEN "closing" ELSE q.hnd[x]]
      /\ c.async = FALSE /\ c.cleaned /\ c.curl = "gone"
      /\ c.closes = Kept(q)
      /\ c.errors = IF q.incoming.started THEN q.errors ELSE q.errors + 1
  BY ClosedEffect DEF Sound, Flags
<1> HIDE DEF c
<1>2. HandlePart(c)
  <2>1. /\ c.hnd \in [Handles -> {"none", "open", "closing", "closed"}]
        /\ \A x \in Handles : c.hnd[x] # "open"
    BY <1>1 DEF Sound, HandlePart
  <2>2. Unclosed(c) = Unclosed(q)
    BY <1>1 DEF Unclosed
  <2> QED
    BY <1>1, <2>1, <2>2 DEF Sound, HandlePart
<1>3. ClosePart(c)
  <2>1. /\ q.errors \in Nat /\ q.closes \in [emitted : Nat, due : Nat]
        /\ q.closes.emitted = 0 /\ q.closes.due = 0
    BY DEF Sound, ClosePart, CutUnread
  <2>2. /\ c.closes \in [emitted : Nat, due : Nat]
        /\ c.closes.emitted + c.closes.due = 1
        /\ c.closes.due > 0 => CutUnread(q)
    BY <1>1, <2>1 DEF Kept
  <2>3. CutUnread(q) => CutUnread(c)
    BY <1>1 DEF CutUnread
  <2>4. c.errors \in Nat /\ (~c.incoming.started => c.errors > 0)
    BY <1>1, <2>1
  <2> QED
    BY <1>1, <2>2, <2>3, <2>4 DEF ClosePart, CutUnread
<1>4. CurlPart(c)
  BY <1>1 DEF Sound, CurlPart
<1>5. BufferPart(c, w)
  BY <1>1 DEF Sound, BufferPart
<1>6. GetPart(c)
  BY <1>1 DEF Sound, GetPart
<1>7. ~q.request_done => \A k \in Chunks : c.acks[k] <= 1
  BY <1>1 DEF Sound, ChunkPart
<1>8. ChunkPart(c, n)
  BY <1>1, <1>7 DEF Sound, ChunkPart
<1> QED
  BY <1>1, <1>2, <1>3, <1>4, <1>5, <1>6, <1>7, <1>8 DEF Sound, c

LEMMA FinishCleanedOuter ==
    ASSUME NEW q, Shape(q)
    PROVE  Outer(FinishCleaned(q)) = Outer(q)
<1> DEFINE e == [q EXCEPT !.finishing = FALSE, !.stream_ended = TRUE]
<1>1. Shape(e) /\ Outer(e) = Outer(q)
  BY DEF Shape, Fields, Outer, Frame
<1> HIDE DEF e
<1>2. Outer(Fault(e, "twice")) = Outer(q) /\ Outer(Continue(e)) = Outer(q)
  BY <1>1, FaultEffect, ContinueEffect
<1> QED
  BY <1>1, <1>2 DEF FinishCleaned, e

LEMMA FinishCleanedSound ==
    ASSUME NEW q, NEW w, NEW n, Sound(q, w, n)
    PROVE  Sound(FinishCleaned(q), w, n) /\ ~FinishCleaned(q).finishing
<1> DEFINE e == [q EXCEPT !.finishing = FALSE, !.stream_ended = TRUE]
<1>1. /\ Shape(e) /\ Outer(e) = Outer(q) /\ Body(e) = Body(q) /\ e.curl = q.curl
      /\ e.finishing = FALSE /\ e.stream_ended = TRUE
  BY DEF Sound, Shape, Fields, Outer, Frame, Body
<1>2. FinishCleaned(q) = IF ~q.finishing THEN q
                         ELSE IF q.request_done THEN Fault(e, "twice")
                         ELSE IF q.is_stream_writable THEN Continue(e) ELSE e
  BY DEF FinishCleaned
<1> HIDE DEF e
<1>3. Sound(e, w, n)
  BY <1>1, OuterFramed DEF Resumes
<1>4. Sound(Fault(e, "twice"), w, n) /\ Fault(e, "twice").finishing = FALSE
  <2>1. /\ Shape(Fault(e, "twice")) /\ Outer(Fault(e, "twice")) = Outer(e)
        /\ Body(Fault(e, "twice")) = Body(e) /\ Flags(Fault(e, "twice")) = Flags(e)
        /\ Fault(e, "twice").curl = e.curl
    BY <1>1, FaultEffect
  <2>2. Fault(e, "twice").finishing = FALSE /\ Fault(e, "twice").stream_ended = TRUE
    BY <1>1, <2>1 DEF Flags
  <2>3. Resumes(Fault(e, "twice"), e)
    BY <2>1 DEF Resumes
  <2> QED
    BY <1>3, <2>1, <2>2, <2>3, OuterFramed
<1>5. Sound(Continue(e), w, n) /\ Continue(e).finishing = FALSE
  <2>1. /\ Shape(Continue(e)) /\ Outer(Continue(e)) = Outer(e)
        /\ Body(Continue(e)) = Body(e) /\ Flags(Continue(e)) = Flags(e)
        /\ Resumes(Continue(e), e)
    BY <1>1, ContinueEffect
  <2>2. Continue(e).finishing = FALSE /\ Continue(e).stream_ended = TRUE
    BY <1>1, <2>1 DEF Flags
  <2> QED
    BY <1>3, <2>1, <2>2, OuterFramed
<1> QED
  BY <1>1, <1>2, <1>3, <1>4, <1>5

\* The clean-up as a whole, also when it is refused.
LEMMA CleanupSound ==
    ASSUME NEW q, NEW w, NEW n, Sound(q, w, n), ~q.finishing
    PROVE  Sound(Cleanup(q), w, n) /\ ~Cleanup(q).finishing
<1> DEFINE c == Closed(q)
           b == WriteBuffered(Acked(c))
           a == FinishCleaned(b)
<1>1. Cleanup(q) = IF q.cleaned THEN Fault(q, "twice")
                   ELSE IF q.ctx # "loop" THEN Fault(q, "reentrant")
                   ELSE IF c.to_destroy
                   THEN [a EXCEPT !.to_destroy = FALSE, !.data_to_read = FALSE]
                   ELSE c
  BY DEF Cleanup, Closed, Acked, CallReadOnwrite
<1>2. ASSUME NEW f, f # "none"
      PROVE  Sound(Fault(q, f), w, n) /\ ~Fault(q, f).finishing
  <2>1. /\ Shape(Fault(q, f)) /\ Outer(Fault(q, f)) = Outer(q)
        /\ Body(Fault(q, f)) = Body(q) /\ Flags(Fault(q, f)) = Flags(q)
        /\ Fault(q, f).curl = q.curl
    BY <1>2, FaultEffect DEF Sound
  <2>2. Fault(q, f).finishing = q.finishing /\ Fault(q, f).stream_ended = q.stream_ended
    BY <2>1 DEF Flags
  <2>3. Resumes(Fault(q, f), q)
    BY <2>1 DEF Resumes
  <2>4. q.mode = "get" => Fault(q, f).stream_ended
    BY <2>2 DEF Sound, GetPart
  <2> QED
    BY <2>1, <2>2, <2>3, <2>4, OuterFramed
<1>3. CASE ~q.cleaned
  <2>1. /\ Sound(c, w, n) /\ c.cleaned /\ c.request_done = q.request_done
        /\ ~q.request_done => \A k \in Chunks : c.acks[k] <= 1
        /\ c.finishing = q.finishing
    BY <1>3, ClosedSound, ClosedEffect DEF Sound, Flags
  <2> HIDE DEF c
  <2>2. ASSUME c.to_destroy
        PROVE  /\ Sound([a EXCEPT !.to_destroy = FALSE, !.data_to_read = FALSE], w, n)
               /\ ~[a EXCEPT !.to_destroy = FALSE, !.data_to_read = FALSE].finishing
    <3>1. c.mode = "send"
      BY <2>1, <2>2 DEF Sound, GetPart
    <3>2. Sound(Acked(c), w, n)
      BY <2>1, <3>1, AckedSound
    <3>3. Outer(Acked(c)) = Outer(c)
      BY <2>1, AckedEffect DEF Sound
    <3>4. Acked(c).mode = "send" /\ Acked(c).cleaned
      BY <2>1, <3>1, <3>3 DEF Outer, Frame
    <3>5. Sound(b, w, n)
      BY <3>2, <3>4, WriteBufferedSound
    <3>6. b.cleaned /\ b.mode = "send"
      <4>1. Outer(b) = Outer(Acked(c))
        BY <3>2, WriteBufferedEffect DEF Sound
      <4> QED
        BY <3>4, <4>1 DEF Outer, Frame
    <3> HIDE DEF b
    <3>7. Sound(a, w, n) /\ ~a.finishing
      BY <3>5, FinishCleanedSound
    <3>8. a.cleaned /\ a.mode = "send"
      BY <3>5, <3>6, FinishCleanedOuter DEF Sound, Outer, Frame
    <3> HIDE DEF a
    <3> DEFINE p == [a EXCEPT !.to_destroy = FALSE, !.data_to_read = FALSE]
    <3>9. /\ Shape(p) /\ Outer(p) = Outer(a) /\ p.stream_ended = a.stream_ended
          /\ <<p.chunk, p.buffer, p.acks, p.async, p.curl, p.finishing>>
               = <<a.chunk, a.buffer, a.acks, a.async, a.curl, a.finishing>>
      BY <3>7 DEF Sound, Shape, Fields, Outer, Frame
    <3> HIDE DEF p
    <3>10. HandlePart(p) /\ ClosePart(p) /\ CurlPart(p)
      <4>1. ClosePart(p)
        BY <3>7, <3>9 DEF Sound, ClosePart, CutUnread, Outer, Frame
      <4>2. HandlePart(p)
        BY <3>7, <3>9 DEF Sound, HandlePart, Unclosed, Outer, Frame
      <4>3. CurlPart(p)
        BY <3>7, <3>9 DEF Sound, CurlPart, Outer, Frame
      <4> QED
        BY <4>1, <4>2, <4>3
    <3>11. BufferPart(p, w)
      BY <3>7, <3>9 DEF Sound, BufferPart
    <3>12. ChunkPart(p, n) /\ GetPart(p)
      BY <3>7, <3>8, <3>9 DEF Sound, ChunkPart, GetPart, Outer, Frame
    <3>13. Sound(p, w, n) /\ ~p.finishing
      BY <3>7, <3>9, <3>10, <3>11, <3>12 DEF Sound
    <3> QED
      BY <3>13 DEF p
  <2> QED
    BY <1>1, <1>2, <1>3, <2>1, <2>2
<1>4. CASE q.cleaned
  BY <1>1, <1>2, <1>4
<1> QED
  BY <1>3, <1>4

\* 'finish' of the stream: onFinish() of the request.
LEMMA SettledSound ==
    ASSUME NEW q, NEW w, NEW n, Sound(q, w, n)
    PROVE  Sound(Settled(q), w, n) /\ ~Settled(q).finishing
<1> DEFINE e == [[q EXCEPT !.finishing = FALSE] EXCEPT !.stream_ended = TRUE]
<1>1. /\ Shape(e) /\ Outer(e) = Outer(q) /\ Body(e) = Body(q) /\ e.curl = q.curl
      /\ e.finishing = FALSE /\ e.stream_ended = TRUE
  BY DEF Sound, Shape, Fields, Outer, Frame, Body
<1>2. [q EXCEPT !.finishing = FALSE].request_done = q.request_done
      /\ [q EXCEPT !.finishing = FALSE].is_stream_writable = q.is_stream_writable
  BY DEF Sound, Shape, Fields
<1>3. Settled(q) = IF ~q.finishing THEN q
                   ELSE IF q.request_done THEN Cleanup(e)
                   ELSE IF q.is_stream_writable THEN Continue(e) ELSE e
  BY <1>2 DEF Settled, FinishRequest
<1> HIDE DEF e
<1>4. Sound(e, w, n)
  BY <1>1, OuterFramed DEF Resumes
<1>5. Sound(Cleanup(e), w, n) /\ ~Cleanup(e).finishing
  BY <1>1, <1>4, CleanupSound
<1>6. Sound(Continue(e), w, n) /\ Continue(e).finishing = FALSE
  <2>1. /\ Shape(Continue(e)) /\ Outer(Continue(e)) = Outer(e)
        /\ Body(Continue(e)) = Body(e) /\ Flags(Continue(e)) = Flags(e)
        /\ Resumes(Continue(e), e)
    BY <1>1, ContinueEffect
  <2>2. Continue(e).finishing = FALSE /\ Continue(e).stream_ended = TRUE
    BY <1>1, <2>1 DEF Flags
  <2> QED
    BY <1>4, <2>1, <2>2, OuterFramed
<1> QED
  BY <1>1, <1>3, <1>4, <1>5, <1>6

\* The transfer is over.
LEMMA CheckDoneSound ==
    ASSUME NEW q, NEW w, NEW n, Sound(q, w, n), ~q.finishing, ~q.cleaned, q.ctx = "loop"
    PROVE  Sound(CheckDone(q), w, n) /\ ~CheckDone(q).finishing
<1>1. CASE q.stream_ended
  BY <1>1, CleanupSound DEF CheckDone
<1>2. CASE ~q.stream_ended
  <2> DEFINE p == [q EXCEPT !.request_done = TRUE, !.curl = "done", !.async = @ \/ q.to_destroy]
  <2>1. /\ Shape(p) /\ p.request_done /\ p.curl = "done" /\ p.finishing = q.finishing
        /\ <<p.mode, p.hnd, p.closing_handles, p.released, p.cleaned, p.closes, p.ctx, p.incoming,
             p.errors>> = <<q.mode, q.hnd, q.closing_handles, q.released, q.cleaned, q.closes,
                            q.ctx, q.incoming, q.errors>>
        /\ <<p.chunk, p.buffer, p.acks>> = <<q.chunk, q.buffer, q.acks>>
    BY DEF Sound, Shape, Fields
  <2>2. CheckDone(q) = p
    BY <1>2 DEF CheckDone
  <2> HIDE DEF p
  <2>3. HandlePart(p) /\ ClosePart(p)
    BY <2>1 DEF Sound, HandlePart, Unclosed, ClosePart, CutUnread
  <2>4. CurlPart(p)
    BY <2>1 DEF Sound, CurlPart
  <2>5. BufferPart(p, w)
    BY <2>1 DEF Sound, BufferPart
  <2>6. ChunkPart(p, n)
    BY <2>1 DEF Sound, ChunkPart
  <2>7. GetPart(p)
    BY <1>2, <2>1 DEF Sound, GetPart
  <2> QED
    BY <2>1, <2>2, <2>3, <2>4, <2>5, <2>6, <2>7 DEF Sound
<1> QED
  BY <1>1, <1>2

-----------------------------------------------------------------------------
(***************************************************************************)
(* What they keep as long as the program does nothing of use.              *)
(***************************************************************************)

\* The clean-up of a request whose stream has finished, or that has no chunk.
LEMMA CleanupClean ==
    ASSUME NEW q, Shape(q), ~q.cleaned, q.ctx = "loop", ~q.finishing,
           q.to_destroy => q.ended /\ q.ending /\ q.buffer = <<>>
    PROVE  LET p == Cleanup(q)
           IN  /\ p.fault = q.fault /\ Flags(p) = Flags(q) /\ p.buffer = q.buffer
               /\ <<p.mode, p.ending, p.tick>> = <<q.mode, q.ending, q.tick>>
<1> DEFINE c == Closed(q)
           m == Acked(c)
<1>1. /\ Shape(c) /\ c.fault = q.fault /\ Flags(c) = Flags(q)
      /\ c.to_destroy = q.to_destroy /\ c.buffer = q.buffer
      /\ <<c.mode, c.ending, c.tick>> = <<q.mode, q.ending, q.tick>>
  BY ClosedEffect
<1>2. Cleanup(q) = IF c.to_destroy
                   THEN [FinishCleaned(WriteBuffered(m)) EXCEPT !.to_destroy = FALSE,
                                                                !.data_to_read = FALSE]
                   ELSE c
  BY DEF Cleanup, Closed, Acked, CallReadOnwrite
<1> HIDE DEF c
<1>3. CASE ~c.to_destroy
  BY <1>1, <1>2, <1>3
<1>4. CASE c.to_destroy
  <2>1. q.ended /\ q.ending /\ q.buffer = <<>>
    BY <1>1, <1>4
  <2>2. /\ Shape(m) /\ Outer(m) = Outer(c) /\ Flags(m) = Flags(c) /\ m.writing = 0
        /\ m.buffer = c.buffer /\ m.fault = c.fault
    BY <1>1, AckedEffect
  <2> HIDE DEF m
  <2>3. <<m.mode, m.ending, m.tick>> = <<q.mode, q.ending, q.tick>>
    BY <1>1, <2>2 DEF Outer, Frame
  <2>4. m.ended = q.ended /\ m.finishing = q.finishing
    BY <1>1, <2>2 DEF Flags
  <2>5. WriteBuffered(m) = m
    BY <1>1, <2>1, <2>2, <2>3, <2>4 DEF WriteBuffered, EmitFinish
  <2>6. FinishCleaned(m) = m
    BY <2>4 DEF FinishCleaned
  <2> DEFINE p == [m EXCEPT !.to_destroy = FALSE, !.data_to_read = FALSE]
  <2>7. p.fault = m.fault /\ Flags(p) = Flags(m) /\ p.buffer = m.buffer
        /\ <<p.mode, p.ending, p.tick>> = <<m.mode, m.ending, m.tick>>
    BY <2>2 DEF Shape, Fields, Flags
  <2>8. Cleanup(q) = p
    BY <1>2, <1>4, <2>5, <2>6
  <2> HIDE DEF p
  <2> QED
    BY <1>1, <2>2, <2>3, <2>7, <2>8
<1> QED
  BY <1>3, <1>4

\* A request before Settled: 'finish' may have to be handled.
Settling(q) ==
  /\ q.fault = "none"
  /\ q.finishing => q.ended /\ (q.mode = "send" => ~q.cleaned)
  /\ q.mode = "send" => /\ q.finishing \/ (q.stream_ended <=> q.ended)
                        /\ q.cleaned => q.ended
  /\ q.ended => q.ending /\ q.buffer = <<>>
  /\ q.tick => q.ending /\ ~q.ended /\ q.buffer = <<>>

LEMMA SettledClean ==
    ASSUME NEW q, NEW w, NEW n, Sound(q, w, n), Settling(q)
    PROVE  CleanPart(Settled(q))
<1> DEFINE e == [[q EXCEPT !.finishing = FALSE] EXCEPT !.stream_ended = TRUE]
<1>1. /\ Shape(e) /\ Outer(e) = Outer(q) /\ Body(e) = Body(q) /\ e.curl = q.curl
      /\ e.finishing = FALSE /\ e.stream_ended = TRUE /\ e.fault = q.fault /\ e.ended = q.ended
  BY DEF Sound, Shape, Fields, Outer, Frame, Body
<1>2. [q EXCEPT !.finishing = FALSE].request_done = q.request_done
      /\ [q EXCEPT !.finishing = FALSE].is_stream_writable = q.is_stream_writable
  BY DEF Sound, Shape, Fields
<1>3. Settled(q) = IF ~q.finishing THEN q
                   ELSE IF q.request_done THEN Cleanup(e)
                   ELSE IF q.is_stream_writable THEN Continue(e) ELSE e
  BY <1>2 DEF Settled, FinishRequest
<1> HIDE DEF e
<1>4. CASE ~q.finishing
  BY <1>3, <1>4 DEF Settling, CleanPart
<1>5. CASE q.finishing
  <2>1. /\ e.fault = "none" /\ e.ended /\ e.stream_ended = TRUE /\ e.ending /\ e.buffer = <<>>
        /\ ~e.tick /\ e.mode = q.mode /\ e.cleaned = q.cleaned /\ e.ctx = q.ctx
    BY <1>1, <1>5 DEF Settling, Outer, Frame, Body
  <2>2. ASSUME NEW p, p.fault = "none", p.ended = e.ended, p.stream_ended = e.stream_ended,
               p.ending = e.ending, p.buffer = e.buffer, p.tick = e.tick
        PROVE  CleanPart(p)
    BY <2>1, <2>2 DEF CleanPart
  <2>3. CASE q.request_done
    <3>1. q.mode = "send" /\ q.ctx = "loop"
      BY <2>3 DEF Sound, GetPart, CurlPart
    <3>2. ~q.cleaned
      BY <1>5, <3>1 DEF Settling
    <3>3. LET p == Cleanup(e)
          IN  /\ p.fault = e.fault /\ Flags(p) = Flags(e) /\ p.buffer = e.buffer
              /\ <<p.mode, p.ending, p.tick>> = <<e.mode, e.ending, e.tick>>
      BY <1>1, <2>1, <3>1, <3>2, CleanupClean
    <3> QED
      BY <1>3, <1>5, <2>1, <2>2, <2>3, <3>3 DEF Flags
  <2>4. CASE ~q.request_done /\ q.is_stream_writable
    <3>1. q.mode = "send"
      BY <2>4 DEF Sound, GetPart
    <3>2. q.curl # "gone"
      BY <1>5, <3>1 DEF Settling, Sound, CurlPart
    <3>3. /\ Outer(Continue(e)) = Outer(e)
          /\ Body(Continue(e)) = Body(e) /\ Flags(Continue(e)) = Flags(e)
          /\ Continue(e).fault = e.fault
      BY <1>1, <3>2, ContinueEffect
    <3> QED
      BY <1>3, <1>5, <2>1, <2>2, <2>4, <3>3 DEF Flags, Outer, Body
  <2>5. CASE ~q.request_done /\ ~q.is_stream_writable
    BY <1>3, <1>5, <2>1, <2>2, <2>5
  <2> QED
    BY <2>3, <2>4, <2>5
<1> QED
  BY <1>4, <1>5

LEMMA WriteBufferedClean ==
    ASSUME NEW q, NEW w, NEW n, Sound(q, w, n), CleanPart(q), ~q.finishing, ~q.cleaned,
           q.mode = "send", ~q.tick
    PROVE  Settling(WriteBuffered(q))
<1> DEFINE p == WriteBuffered(q)
<1>1. Shape(p) /\ Outer(p) = Outer(q) /\ p.stream_ended = q.stream_ended
      /\ (Rests(p, q) \/ Advances(p, q))
  BY WriteBufferedEffect DEF Sound
<1> HIDE DEF p
<1>2. p.mode = q.mode /\ p.cleaned = q.cleaned /\ p.ending = q.ending /\ p.tick = q.tick
  BY <1>1 DEF Outer, Frame
<1>3. CASE Rests(p, q)
  <2>1. p.buffer = q.buffer /\ p.fault = q.fault
    BY <1>3 DEF Rests, Body
  <2>2. \/ p.ended = q.ended /\ p.finishing = q.finishing
        \/ q.writing = 0 /\ q.buffer = <<>> /\ q.ending /\ ~q.ended /\ p.ended /\ p.finishing
    BY <1>3 DEF Rests
  <2> QED
    BY <1>1, <1>2, <2>1, <2>2 DEF Settling, CleanPart, p
<1>4. CASE Advances(p, q)
  <2>1. q.curl # "gone" /\ ~q.ended
    BY <1>4 DEF Sound, CurlPart, CleanPart, Advances
  <2>2. p.fault = q.fault /\ p.ended = q.ended /\ p.finishing = q.finishing
    BY <1>4, <2>1 DEF Advances
  <2> QED
    BY <1>1, <1>2, <2>1, <2>2 DEF Settling, CleanPart, p
<1> QED
  BY <1>1, <1>3, <1>4

-----------------------------------------------------------------------------
(***************************************************************************)
(* The steps of the system.                                                *)
(***************************************************************************)

\* A step after which the request is sound, and that writes nothing to libcurl.
LEMMA SoundStep ==
    ASSUME IInv, Sound(r', written', Len(wire)), ~r'.finishing, written' \in Nat, wire' = wire,
           use' = {} => CleanPart(r')
    PROVE  IInv'
  BY DEF IInv, WirePart

\* A step that leaves the chunks, the handles and the stream's flags alone.
LEMMA PlainStep ==
    ASSUME IInv, Shape(r'), Frame(r') = Frame(r), Body(r') = Body(r), Flags(r') = Flags(r),
           ClosePart(r'), CurlPart(r'), UNCHANGED <<written, wire>>,
           use' = {} => CleanPart(r')
    PROVE  IInv'
<1>1. r'.finishing = r.finishing /\ r'.stream_ended = r.stream_ended
  BY DEF Flags
<1>2. r.mode = "get" => r'.stream_ended
  BY <1>1 DEF IInv, Sound, GetPart
<1>3. Sound(r, written, Len(wire))
  BY DEF IInv
<1>4. Sound(r', written, Len(wire))
  BY <1>2, <1>3, Framed
<1> QED
  BY <1>1, <1>4, SoundStep DEF IInv

LEMMA EndStep ==
    ASSUME IInv, End
    PROVE  IInv'
<1>1. Shape(r) /\ ~r.ending /\ UNCHANGED <<written, wire, use>>
      /\ r' = [r EXCEPT !.ending = TRUE, !.tick = (r.writing = 0 /\ r.buffer = <<>>)]
  BY DEF End, IInv, Sound
<1>2. /\ Shape(r') /\ Frame(r') = Frame(r) /\ Body(r') = Body(r) /\ Flags(r') = Flags(r)
      /\ <<r'.ctx, r'.incoming, r'.errors, r'.curl, r'.fault>>
           = <<r.ctx, r.incoming, r.errors, r.curl, r.fault>>
      /\ r'.ending = TRUE /\ r'.tick = (r.writing = 0 /\ r.buffer = <<>>)
  BY <1>1 DEF Shape, Fields, Frame, Body, Flags
<1>3. ClosePart(r')
  BY <1>2 DEF IInv, Sound, ClosePart, CutUnread, Frame
<1>4. CurlPart(r')
  BY <1>2 DEF IInv, Sound, CurlPart, Frame, Body
<1>5. use = {} => CleanPart(r')
  BY <1>1, <1>2 DEF IInv, CleanPart, Frame, Body, Flags
<1> QED
  BY <1>1, <1>2, <1>3, <1>4, <1>5, PlainStep

LEMMA TimeoutStep ==
    ASSUME IInv, NEW to, r' = [r EXCEPT !.timeout = to], UNCHANGED <<written, wire, use>>
    PROVE  IInv'
<1>1. Shape(r)
  BY DEF IInv, Sound
<1>2. /\ Shape(r') /\ Frame(r') = Frame(r) /\ Body(r') = Body(r) /\ Flags(r') = Flags(r)
      /\ <<r'.ctx, r'.incoming, r'.errors, r'.curl, r'.fault, r'.ending, r'.tick>>
           = <<r.ctx, r.incoming, r.errors, r.curl, r.fault, r.ending, r.tick>>
  BY <1>1 DEF Shape, Fields, Frame, Body, Flags
<1>3. ClosePart(r')
  BY <1>2 DEF IInv, Sound, ClosePart, CutUnread, Frame
<1>4. CurlPart(r')
  BY <1>2 DEF IInv, Sound, CurlPart, Frame, Body
<1>5. use = {} => CleanPart(r')
  BY <1>2 DEF IInv, CleanPart, Frame, Body, Flags
<1> QED
  BY <1>2, <1>3, <1>4, <1>5, PlainStep

\* libcurl is entered, calls the program, or returns with more to do.
LEMMA CurlStep ==
    ASSUME IInv, CurlRuns \/ CurlWrite \/ CurlWaits
    PROVE  IInv'
<1>1. Shape(r) /\ r.curl \in {"run", "paused"} /\ UNCHANGED <<written, wire, use>>
  BY DEF CurlRuns, CurlWrite, CurlWaits, InCurl, IInv, Sound
<1>2. ~r.request_done /\ ~r.cleaned
  BY <1>1 DEF IInv, Sound, CurlPart
<1>3. /\ Shape(r') /\ Frame(r') = Frame(r) /\ Body(r') = Body(r) /\ Flags(r') = Flags(r)
      /\ <<r'.fault, r'.ending, r'.tick>> = <<r.fault, r.ending, r.tick>>
      /\ r'.curl \in {"run", "paused", "failed"}
      /\ r'.errors = r.errors \/ r'.errors = r.errors + 1
  <2>1. CASE r' = [r EXCEPT !.ctx = "curl"] \/ r' = [r EXCEPT !.ctx = "loop"]
    BY <1>1, <2>1 DEF Shape, Fields, Frame, Body, Flags
  <2>2. ASSUME NEW m, r' = [r EXCEPT !.ctx = "js", !.incoming = m]
        PROVE  /\ Shape(r') /\ Frame(r') = Frame(r) /\ Body(r') = Body(r) /\ Flags(r') = Flags(r)
               /\ <<r'.fault, r'.ending, r'.tick>> = <<r.fault, r.ending, r.tick>>
               /\ r'.curl \in {"run", "paused", "failed"}
               /\ r'.errors = r.errors \/ r'.errors = r.errors + 1
    BY <1>1, <2>2 DEF Shape, Fields, Frame, Body, Flags
  <2>3. CASE r' = [r EXCEPT !.ctx = "js", !.errors = @ + 1, !.curl = "failed"]
    BY <1>1, <2>3 DEF Shape, Fields, Frame, Body, Flags
  <2> QED
    BY <2>1, <2>2, <2>3 DEF CurlRuns, CurlWrite, CurlWaits
<1>4. r'.cleaned = r.cleaned /\ r'.request_done = r.request_done /\ r'.closes = r.closes
  BY <1>3 DEF Frame
<1>5. ClosePart(r')
  <2>1. /\ r.errors \in Nat /\ r.closes \in [emitted : Nat, due : Nat]
        /\ r.closes.emitted + r.closes.due = 0
    BY <1>2 DEF IInv, Sound, ClosePart, CutUnread
  <2>2. r.closes.due = 0 /\ r.closes.emitted = 0
    BY <2>1
  <2> QED
    BY <1>2, <1>3, <1>4, <2>1, <2>2 DEF ClosePart, CutUnread
<1>6. CurlPart(r')
  BY <1>2, <1>3, <1>4 DEF CurlPart
<1>7. use = {} => CleanPart(r')
  BY <1>3 DEF IInv, CleanPart, Frame, Body, Flags
<1> QED
  BY <1>1, <1>3, <1>5, <1>6, <1>7, PlainStep

\* The program reads the rest of a response, which lets a 'close' go that was kept back.
LEMMA ReadRestStep ==
    ASSUME IInv, ReadRest
    PROVE  IInv'
<1>1. /\ Sound(r, written, Len(wire)) /\ Shape(r) /\ UNCHANGED <<written, wire, use>>
      /\ r' = [r EXCEPT !.incoming.unread = FALSE,
                        !.closes = [emitted |-> @.emitted + @.due, due |-> 0]]
  BY DEF ReadRest, IInv, Sound
<1>2. /\ Shape(r') /\ Body(r') = Body(r) /\ Flags(r') = Flags(r)
      /\ <<r'.mode, r'.request_done, r'.is_stream_writable, r'.ready, r'.cleaned, r'.hnd,
           r'.closing_handles, r'.released>>
           = <<r.mode, r.request_done, r.is_stream_writable, r.ready, r.cleaned, r.hnd,
               r.closing_handles, r.released>>
      /\ <<r'.ctx, r'.ending, r'.tick, r'.errors, r'.curl, r'.fault>>
           = <<r.ctx, r.ending, r.tick, r.errors, r.curl, r.fault>>
      /\ r'.incoming = [r.incoming EXCEPT !.unread = FALSE]
      /\ r'.closes = [emitted |-> r.closes.emitted + r.closes.due, due |-> 0]
  BY <1>1 DEF Shape, Fields, Body, Flags
<1>3. ClosePart(r')
  <2>1. /\ r.errors \in Nat /\ r.closes \in [emitted : Nat, due : Nat]
        /\ r.closes.emitted + r.closes.due = IF r.cleaned THEN 1 ELSE 0
        /\ r.cleaned /\ ~r.incoming.started => r.errors > 0
    BY <1>1 DEF Sound, ClosePart, CutUnread
  <2>2. /\ r'.closes \in [emitted : Nat, due : Nat] /\ r'.closes.due = 0
        /\ r'.closes.emitted + r'.closes.due = IF r.cleaned THEN 1 ELSE 0
    BY <1>2, <2>1
  <2>3. r'.incoming.started = r.incoming.started
    BY <1>2
  <2> QED
    BY <1>2, <2>1, <2>2, <2>3 DEF ClosePart, CutUnread
<1>4. HandlePart(r') /\ CurlPart(r')
  BY <1>1, <1>2 DEF Sound, HandlePart, Unclosed, CurlPart, Body
<1>5. BufferPart(r', written) /\ GetPart(r')
  BY <1>1, <1>2 DEF Sound, BufferPart, GetPart, Body, Flags
<1>6. ChunkPart(r', Len(wire))
  BY <1>1, <1>2 DEF Sound, ChunkPart, Body
<1>7. Sound(r', written, Len(wire))
  BY <1>2, <1>3, <1>4, <1>5, <1>6 DEF Sound
<1>8. ~r'.finishing
  BY <1>2 DEF IInv, Flags
<1>9. use = {} => CleanPart(r')
  BY <1>2 DEF IInv, CleanPart, Body, Flags
<1> QED
  BY <1>1, <1>7, <1>8, <1>9, SoundStep DEF IInv

\* The tick of end().
LEMMA FinishTickStep ==
    ASSUME IInv, FinishTick
    PROVE  IInv'
<1> DEFINE t == [r EXCEPT !.tick = FALSE]
           f == EmitFinish(t)
<1>1. Sound(r, written, Len(wire)) /\ Shape(r) /\ r.tick /\ ~r.finishing
      /\ UNCHANGED <<written, wire, use>> /\ r' = Settled(f)
  BY DEF FinishTick, IInv, Sound
<1>2. /\ Shape(t) /\ Frame(t) = Frame(r) /\ Body(t) = Body(r) /\ Flags(t) = Flags(r)
      /\ <<t.ctx, t.incoming, t.errors, t.curl, t.fault, t.ending>>
           = <<r.ctx, r.incoming, r.errors, r.curl, r.fault, r.ending>>
      /\ t.tick = FALSE
  BY <1>1 DEF Shape, Fields, Frame, Body, Flags
<1> HIDE DEF t
<1>3. /\ Shape(f) /\ Outer(f) = Outer(t) /\ Body(f) = Body(t)
      /\ <<f.curl, f.fault, f.stream_ended>> = <<t.curl, t.fault, t.stream_ended>>
      /\ f.ended
      /\ IF t.ended THEN f = t ELSE f.finishing
  BY <1>2, EmitFinishEffect
<1> HIDE DEF f
<1>4. Frame(f) = Frame(r) /\ Body(f) = Body(r)
      /\ <<f.ctx, f.incoming, f.errors, f.curl, f.fault, f.ending, f.stream_ended>>
           = <<r.ctx, r.incoming, r.errors, r.curl, r.fault, r.ending, r.stream_ended>>
      /\ f.tick = FALSE
  BY <1>2, <1>3 DEF Outer, Flags
<1>5. ClosePart(f) /\ CurlPart(f)
  BY <1>1, <1>4 DEF Sound, ClosePart, CutUnread, CurlPart, Frame, Body
<1>6. r.mode = "get" => f.stream_ended
  BY <1>1, <1>4 DEF Sound, GetPart
<1>7. Sound(f, written, Len(wire))
  BY <1>1, <1>3, <1>4, <1>5, <1>6, Framed
<1>8. Sound(r', written, Len(wire)) /\ ~r'.finishing
  BY <1>1, <1>7, SettledSound
<1>9. ASSUME use = {}
      PROVE  CleanPart(r')
  <2>1. CleanPart(r)
    BY <1>9 DEF IInv
  <2>2. t.ended = r.ended /\ ~r.ended
    BY <1>1, <1>2, <2>1 DEF CleanPart, Flags
  <2>3. f.mode = r.mode /\ f.cleaned = r.cleaned /\ f.buffer = r.buffer
    BY <1>4 DEF Frame, Body
  <2>4. Settling(f)
    BY <1>1, <1>3, <1>4, <2>1, <2>2, <2>3 DEF Settling, CleanPart
  <2> QED
    BY <1>1, <1>7, <2>4, SettledClean
<1> QED
  BY <1>1, <1>8, <1>9, SoundStep DEF IInv

\* The callback of the chunk is called in a turn of its own.
LEMMA ReadOnwriteStep ==
    ASSUME IInv, UvReadOnwrite
    PROVE  IInv'
<1> DEFINE t == [r EXCEPT !.async = FALSE]
           m == Acked(t)
           b == WriteBuffered(m)
<1>1. /\ Sound(r, written, Len(wire)) /\ Shape(r) /\ r.async /\ ~r.finishing /\ ~r.tick
      /\ UNCHANGED <<written, wire, use>>
  BY DEF UvReadOnwrite, Turn, Returned, IInv, Sound
<1>2. /\ Shape(t) /\ Outer(t) = Outer(r) /\ Flags(t) = Flags(r)
      /\ <<t.chunk, t.buffer, t.writing, t.data_to_read, t.copied, t.to_destroy, t.acks, t.curl, t.fault>>
           = <<r.chunk, r.buffer, r.writing, r.data_to_read, r.copied, r.to_destroy, r.acks, r.curl, r.fault>>
      /\ t.async = FALSE
  BY <1>1 DEF Shape, Fields, Outer, Frame, Flags
<1>3. /\ t.mode = r.mode /\ t.cleaned = r.cleaned /\ t.request_done = r.request_done
      /\ t.tick = r.tick /\ t.ending = r.ending /\ t.ended = r.ended
      /\ t.finishing = r.finishing /\ t.stream_ended = r.stream_ended
  BY <1>2 DEF Outer, Frame, Flags
<1>4. r' = Settled(b)
  BY <1>2, AckedEffect DEF UvReadOnwrite
<1> HIDE DEF t
<1>5. r.mode = "send" /\ ~r.cleaned
  BY <1>1 DEF Sound, GetPart, CurlPart
<1>6. ~r.request_done => r.writing = r.chunk /\ r.writing # 0 /\ ~r.data_to_read
  BY <1>1, <1>5 DEF Sound, ChunkPart
<1>7. Sound(t, written, Len(wire))
  <2>0. /\ t.hnd = r.hnd /\ t.closing_handles = r.closing_handles /\ t.released = r.released
        /\ t.cleaned = r.cleaned /\ t.closes = r.closes /\ t.incoming = r.incoming
        /\ t.errors = r.errors
    BY ONLY <1>2 DEF Outer, Frame
  <2>1. HandlePart(t) /\ ClosePart(t)
    <3>1. HandlePart(t)
      <4>1. HandlePart(r) /\ Unclosed(t) = Unclosed(r)
        BY <1>1, <2>0 DEF Sound, Unclosed
      <4> QED
        BY ONLY <2>0, <4>1 DEF HandlePart
    <3>2. ClosePart(t)
      <4>1. ClosePart(r)
        BY <1>1 DEF Sound
      <4> QED
        BY ONLY <2>0, <4>1 DEF ClosePart, CutUnread
    <3> QED
      BY <3>1, <3>2
  <2>2. CurlPart(t)
    BY <1>1, <1>2 DEF Sound, CurlPart, Outer, Frame
  <2>3. BufferPart(t, written)
    BY <1>1, <1>2 DEF Sound, BufferPart
  <2>4. ChunkPart(t, Len(wire))
    BY <1>1, <1>2, <1>3 DEF Sound, ChunkPart
  <2>5. GetPart(t)
    BY <1>1, <1>2 DEF Sound, GetPart, Outer, Frame
  <2> QED
    BY <1>2, <2>1, <2>2, <2>3, <2>4, <2>5 DEF Sound
<1>8. Sound(m, written, Len(wire))
  BY <1>2, <1>3, <1>5, <1>6, <1>7, AckedSound
<1>9. /\ Outer(m) = Outer(t) /\ Flags(m) = Flags(t) /\ m.buffer = t.buffer /\ m.fault = t.fault
  BY <1>2, AckedEffect
<1> HIDE DEF m
<1>10. /\ m.mode = "send" /\ ~m.cleaned /\ ~m.tick /\ ~m.finishing
       /\ <<m.ending, m.ended, m.stream_ended, m.buffer, m.fault>>
            = <<r.ending, r.ended, r.stream_ended, r.buffer, r.fault>>
  BY <1>1, <1>2, <1>3, <1>5, <1>9 DEF Outer, Frame, Flags
<1>11. Sound(b, written, Len(wire))
  BY <1>8, <1>10, WriteBufferedSound
<1>12. use = {} => Settling(b)
  <2> SUFFICES ASSUME use = {} PROVE Settling(b)
    OBVIOUS
  <2>1. CleanPart(r)
    BY DEF IInv
  <2>2. CleanPart(m)
    BY <1>5, <1>10, <2>1 DEF CleanPart
  <2> QED
    BY <1>8, <1>10, <2>2, WriteBufferedClean
<1> HIDE DEF b
<1>13. Sound(r', written, Len(wire)) /\ ~r'.finishing
  BY <1>4, <1>11, SettledSound
<1>14. use = {} => CleanPart(r')
  BY <1>4, <1>11, <1>12, SettledClean
<1> QED
  BY <1>1, <1>13, <1>14, SoundStep DEF IInv

\* libcurl returns with the transfer over.
LEMMA CurlDoneStep ==
    ASSUME IInv, CurlDone
    PROVE  IInv'
<1> DEFINE t == [r EXCEPT !.ctx = "loop"]
<1>1. /\ Sound(r, written, Len(wire)) /\ Shape(r) /\ ~r.finishing /\ ~r.tick
      /\ r.curl \in {"run", "paused", "failed"}
      /\ UNCHANGED <<written, wire, use>> /\ r' = CheckDone(t)
  BY DEF CurlDone, Returned, IInv, Sound
<1>2. /\ Shape(t) /\ Frame(t) = Frame(r) /\ Body(t) = Body(r) /\ Flags(t) = Flags(r)
      /\ <<t.incoming, t.errors, t.curl, t.fault, t.ending, t.tick>>
           = <<r.incoming, r.errors, r.curl, r.fault, r.ending, r.tick>>
      /\ t.ctx = "loop"
  BY <1>1 DEF Shape, Fields, Frame, Body, Flags
<1> HIDE DEF t
<1>3. /\ t.mode = r.mode /\ t.cleaned = r.cleaned /\ t.buffer = r.buffer
      /\ t.to_destroy = r.to_destroy
      /\ t.ended = r.ended /\ t.finishing = r.finishing /\ t.stream_ended = r.stream_ended
  BY <1>2 DEF Frame, Body, Flags
<1>4. ~r.cleaned
  BY <1>1 DEF Sound, CurlPart
<1>5. ClosePart(t) /\ CurlPart(t)
  BY <1>1, <1>2 DEF Sound, ClosePart, CutUnread, CurlPart, Frame, Body
<1>6. Sound(t, written, Len(wire))
  <2>1. r.mode = "get" => t.stream_ended
    BY <1>1, <1>3 DEF Sound, GetPart
  <2> QED
    BY <1>1, <1>2, <1>5, <2>1, Framed
<1>7. Sound(r', written, Len(wire)) /\ ~r'.finishing
  BY <1>1, <1>2, <1>3, <1>4, <1>6, CheckDoneSound
<1>8. ASSUME use = {}
      PROVE  CleanPart(r')
  <2>1. CleanPart(t)
    BY <1>2, <1>3, <1>8 DEF IInv, CleanPart
  <2>2. CASE t.stream_ended
    <3>1. t.to_destroy => t.ended /\ t.ending /\ t.buffer = <<>>
      BY <1>6, <2>1, <2>2 DEF Sound, GetPart, CleanPart
    <3>2. t.mode = "send" => t.ended
      BY <2>1, <2>2 DEF CleanPart
    <3>3. LET p == Cleanup(t)
          IN  /\ p.fault = t.fault /\ Flags(p) = Flags(t) /\ p.buffer = t.buffer
              /\ <<p.mode, p.ending, p.tick>> = <<t.mode, t.ending, t.tick>>
      BY <1>1, <1>2, <1>3, <1>4, <3>1, CleanupClean
    <3>4. r' = Cleanup(t)
      BY <1>1, <2>2 DEF CheckDone
    <3> QED
      BY <2>1, <3>2, <3>3, <3>4 DEF CleanPart, Flags
  <2>3. CASE ~t.stream_ended
    <3> DEFINE p == [t EXCEPT !.request_done = TRUE, !.curl = "done", !.async = @ \/ t.to_destroy]
    <3>1. <<p.fault, p.mode, p.stream_ended, p.ended, p.cleaned, p.ending, p.buffer, p.tick>>
            = <<t.fault, t.mode, t.stream_ended, t.ended, t.cleaned, t.ending, t.buffer, t.tick>>
      BY <1>2 DEF Shape, Fields
    <3>2. r' = p
      BY <1>1, <2>3 DEF CheckDone
    <3> HIDE DEF p
    <3> QED
      BY <2>1, <3>1, <3>2 DEF CleanPart
  <2> QED
    BY <2>2, <2>3
<1> QED
  BY <1>1, <1>7, <1>8, SoundStep DEF IInv

\* abort().
LEMMA AbortStep ==
    ASSUME IInv, AbortRequest, r.fault = "none"
    PROVE  IInv'
<1> DEFINE c == Cleanup(r)
<1>1. /\ Sound(r, written, Len(wire)) /\ Shape(r) /\ ~r.finishing
      /\ UNCHANGED <<written, wire>> /\ r' = [c EXCEPT !.aborted = TRUE, !.timeout = "unset"]
  BY DEF AbortRequest, IInv, Sound
<1>2. Sound(c, written, Len(wire)) /\ ~c.finishing
  BY <1>1, CleanupSound
<1>3. ASSUME use' = {}
      PROVE  CleanPart(c)
  <2>1. use = {} /\ ~r.cleaned /\ r.ctx = "loop" /\ (r.mode = "send" => r.ended)
    BY <1>3 DEF AbortRequest
  <2>2. CleanPart(r)
    BY <2>1 DEF IInv
  <2>3. r.to_destroy => r.ended /\ r.ending /\ r.buffer = <<>>
    BY <1>1, <2>1, <2>2 DEF Sound, GetPart, CleanPart
  <2>4. /\ c.fault = r.fault /\ Flags(c) = Flags(r) /\ c.buffer = r.buffer
        /\ <<c.mode, c.ending, c.tick>> = <<r.mode, r.ending, r.tick>>
    BY <1>1, <2>1, <2>3, CleanupClean
  <2> HIDE DEF c
  <2> QED
    BY <2>1, <2>2, <2>4 DEF CleanPart, Flags
<1> HIDE DEF c
<1>4. /\ Shape(r') /\ Outer(r') = Outer(c) /\ Body(r') = Body(c) /\ Flags(r') = Flags(c)
      /\ r'.curl = c.curl /\ r'.fault = c.fault
  BY <1>1, <1>2 DEF Sound, Shape, Fields, Outer, Frame, Body, Flags
<1>5. c.mode = "get" => r'.stream_ended
  BY <1>2, <1>4 DEF Sound, GetPart, Flags
<1>6. Sound(r', written, Len(wire))
  BY <1>2, <1>4, <1>5, OuterFramed DEF Resumes
<1>7. ~r'.finishing
  BY <1>2, <1>4 DEF Flags
<1>8. use' = {} => CleanPart(r')
  BY <1>3, <1>4 DEF CleanPart, Outer, Frame, Body, Flags
<1> QED
  BY <1>1, <1>6, <1>7, <1>8, SoundStep DEF IInv

LEMMA AppendNext ==
    ASSUME NEW b \in Seq(Nat), NEW c \in Nat, NEW m \in Nat, c + Len(b) = m,
           \A i \in 1 .. Len(b) : b[i] = c + i
    PROVE  /\ Append(b, m + 1) \in Seq(Nat) /\ Len(Append(b, m + 1)) = Len(b) + 1
           /\ \A i \in 1 .. Len(b) + 1 : Append(b, m + 1)[i] = c + i
<1>1. Append(b, m + 1) \in Seq(Nat) /\ Len(Append(b, m + 1)) = Len(b) + 1 /\ Len(b) \in Nat
  OBVIOUS
<1>2. ASSUME NEW i \in 1 .. Len(b) + 1
      PROVE  Append(b, m + 1)[i] = c + i
  <2>1. CASE i = Len(b) + 1
    BY <1>1, <2>1
  <2>2. CASE i # Len(b) + 1
    <3>1. i \in 1 .. Len(b)
      BY <1>1, <2>2
    <3>2. Append(b, m + 1)[i] = b[i]
      BY <3>1
    <3> QED
      BY <3>1, <3>2
  <2> QED
    BY <2>1, <2>2
<1> QED
  BY <1>1, <1>2

\* write(): the chunk is appended to the buffer, and handed to C if nothing is before it.
LEMMA WriteStep ==
    ASSUME IInv, Write
    PROVE  IInv'
<1> DEFINE k == written + 1
           a == [r EXCEPT !.buffer = Append(@, k)]
<1>1. /\ Sound(r, written, Len(wire)) /\ Shape(r) /\ ~r.finishing /\ ~r.ended /\ r.fault = "none"
      /\ written \in Nat /\ written' = k /\ wire' = wire
  BY DEF Write, InJs, Alive, IInv, Sound
<1>2. /\ Shape(a) /\ Outer(a) = Outer(r) /\ Flags(a) = Flags(r)
      /\ a.buffer = Append(r.buffer, k)
      /\ <<a.chunk, a.writing, a.data_to_read, a.copied, a.to_destroy, a.async, a.acks, a.curl, a.fault>>
           = <<r.chunk, r.writing, r.data_to_read, r.copied, r.to_destroy, r.async, r.acks, r.curl, r.fault>>
  BY <1>1 DEF Shape, Fields, Outer, Frame, Flags
<1>3. \/ r' = a
      \/ /\ r.ready /\ r.writing = 0 /\ r.buffer = <<>>
         /\ r' = DataToWrite([r EXCEPT !.writing = k], k)
  BY DEF Write
<1>4. use' = {} => use = {} /\ ~r.ending
  BY DEF Write
<1> HIDE DEF a
<1>5. /\ a.mode = r.mode /\ a.cleaned = r.cleaned /\ a.request_done = r.request_done
      /\ a.hnd = r.hnd /\ a.ending = r.ending /\ a.tick = r.tick
      /\ a.ended = r.ended /\ a.finishing = r.finishing /\ a.stream_ended = r.stream_ended
  BY <1>2 DEF Outer, Frame, Flags
<1>6. Sound(a, k, Len(wire))
  <2>1. HandlePart(a) /\ ClosePart(a)
    BY <1>1, <1>2 DEF Sound, HandlePart, Unclosed, ClosePart, CutUnread, Outer, Frame
  <2>2. CurlPart(a)
    BY <1>1, <1>2 DEF Sound, CurlPart, Outer, Frame
  <2>3. BufferPart(a, k)
    <3>1. /\ r.chunk \in Nat /\ r.buffer \in Seq(Nat) /\ r.chunk + Len(r.buffer) = written
          /\ \A i \in 1 .. Len(r.buffer) : r.buffer[i] = r.chunk + i
      BY <1>1 DEF Sound, BufferPart
    <3>2. /\ Append(r.buffer, k) \in Seq(Nat) /\ Len(Append(r.buffer, k)) = Len(r.buffer) + 1
          /\ \A i \in 1 .. Len(r.buffer) + 1 : Append(r.buffer, k)[i] = r.chunk + i
      BY <1>1, <3>1, AppendNext
    <3>3. Len(r.buffer) \in Nat
      BY <3>1
    <3>4. a.buffer = Append(r.buffer, k) /\ a.chunk = r.chunk
      BY <1>2
    <3>5. Len(a.buffer) = Len(r.buffer) + 1 /\ a.buffer \in Seq(Nat)
      BY <3>2, <3>4
    <3>6. r.chunk \in Nat /\ r.chunk + Len(r.buffer) = written
      BY <3>1
    <3>7. r.chunk + (Len(r.buffer) + 1) = k
      BY <3>3, <3>6
    <3>8. \A i \in 1 .. Len(a.buffer) : a.buffer[i] = a.chunk + i
      BY <3>2, <3>4, <3>5
    <3> QED
      BY <3>4, <3>5, <3>6, <3>7, <3>8 DEF BufferPart
  <2>4. ChunkPart(a, Len(wire))
    BY <1>1, <1>2, <1>5 DEF Sound, ChunkPart
  <2>5. GetPart(a)
    BY <1>1, <1>2, <1>5 DEF Sound, GetPart, Outer, Frame
  <2> QED
    BY <1>2, <2>1, <2>2, <2>3, <2>4, <2>5 DEF Sound
<1>7. CASE r' = a
  <2>1. use' = {} => CleanPart(a)
    BY <1>1, <1>2, <1>4, <1>5 DEF IInv, CleanPart
  <2>2. Sound(r', written', Len(wire)) /\ ~r'.finishing /\ written' \in Nat
    BY <1>1, <1>5, <1>6, <1>7
  <2> QED
    BY <1>1, <1>7, <2>1, <2>2, SoundStep
<1>8. CASE /\ r.ready /\ r.writing = 0 /\ r.buffer = <<>>
           /\ r' = DataToWrite([r EXCEPT !.writing = k], k)
  <2> DEFINE d == [r EXCEPT !.writing = k]
             p == DataToWrite(d, k)
  <2>1. /\ Shape(d) /\ Outer(d) = Outer(r) /\ Flags(d) = Flags(r) /\ d.writing = k
        /\ <<d.buffer, d.copied, d.async, d.acks, d.curl, d.fault>>
             = <<r.buffer, r.copied, r.async, r.acks, r.curl, r.fault>>
    BY <1>1 DEF Shape, Fields, Outer, Frame, Flags
  <2>2. d.request_done = r.request_done /\ d.hnd = r.hnd
    BY <2>1 DEF Outer, Frame
  <2> HIDE DEF d
  <2>3. /\ Shape(p) /\ Outer(p) = Outer(d)
        /\ p.chunk = k /\ p.data_to_read /\ p.to_destroy
        /\ p.async = IF d.request_done THEN d.hnd["async"] = "open" ELSE d.async
        /\ <<p.buffer, p.writing, p.copied, p.acks>> = <<d.buffer, d.writing, d.copied, d.acks>>
        /\ Flags(p) = Flags(d) /\ Resumes(p, d)
        /\ d.request_done \/ d.curl # "gone" => p.fault = d.fault
    BY <2>1, DataToWriteEffect
  <2>4. r' = p
    BY <1>8 DEF d
  <2> HIDE DEF p
  <2>5. r.mode = "send"
    BY <1>1, <1>8 DEF Sound, GetPart
  <2>6. Advances(p, a)
    <3>1. a.buffer # <<>> /\ Head(a.buffer) = k /\ Tail(a.buffer) = <<>>
      BY <1>1, <1>2, <1>8
    <3>2. p.ended = a.ended /\ p.finishing = a.finishing
      BY <1>2, <2>1, <2>3 DEF Flags
    <3>3. Resumes(p, a)
      BY <1>2, <2>1, <2>3 DEF Resumes
    <3> QED
      BY <1>2, <1>5, <1>8, <2>1, <2>2, <2>3, <3>1, <3>2, <3>3 DEF Advances
  <2>7. Outer(p) = Outer(a)
    BY <1>2, <2>1, <2>3
  <2>8. Sound(p, k, Len(wire))
    BY <1>5, <1>6, <2>3, <2>5, <2>6, <2>7, AdvanceSound
  <2>9. ~p.finishing
    BY <1>1, <2>1, <2>3 DEF Flags
  <2>10. ASSUME use' = {}
         PROVE  CleanPart(p)
    <3>1. CleanPart(r) /\ ~r.ending
      BY <1>4, <2>10 DEF IInv
    <3>2. ~r.cleaned /\ r.curl # "gone"
      BY <1>1, <2>5, <3>1 DEF CleanPart, Sound, CurlPart
    <3>3. <<p.mode, p.ending, p.tick, p.cleaned>> = <<r.mode, r.ending, r.tick, r.cleaned>>
      BY <2>1, <2>3 DEF Outer, Frame
    <3>4. p.ended = r.ended /\ p.stream_ended = r.stream_ended
      BY <2>1, <2>3 DEF Flags
    <3>5. p.fault = r.fault
      BY <2>1, <2>3, <3>2
    <3> QED
      BY <1>1, <3>1, <3>2, <3>3, <3>4, <3>5 DEF CleanPart
  <2> QED
    BY <1>1, <2>4, <2>8, <2>9, <2>10, SoundStep
<1> QED
  BY <1>3, <1>7, <1>8

\* The first call of the read callback makes the stream ready.
Asked(q) ==
  IF q.is_stream_writable THEN q
  ELSE Settled(WriteBuffered([q EXCEPT !.is_stream_writable = TRUE, !.ready = TRUE]))

LEMMA SettledEffect ==
    ASSUME NEW q, Shape(q), ~q.request_done
    PROVE  Outer(Settled(q)) = Outer(q) /\ Body(Settled(q)) = Body(q)
<1> DEFINE e == [[q EXCEPT !.finishing = FALSE] EXCEPT !.stream_ended = TRUE]
<1>1. Shape(e) /\ Outer(e) = Outer(q) /\ Body(e) = Body(q)
  BY DEF Shape, Fields, Outer, Frame, Body
<1>2. [q EXCEPT !.finishing = FALSE].request_done = q.request_done
      /\ [q EXCEPT !.finishing = FALSE].is_stream_writable = q.is_stream_writable
  BY DEF Shape, Fields
<1>3. Settled(q) = IF ~q.finishing THEN q
                   ELSE IF q.is_stream_writable THEN Continue(e) ELSE e
  BY <1>2 DEF Settled, FinishRequest
<1> HIDE DEF e
<1>4. Outer(Continue(e)) = Outer(e) /\ Body(Continue(e)) = Body(e)
  BY <1>1, ContinueEffect
<1> QED
  BY <1>1, <1>3, <1>4

LEMMA AskedFacts ==
    ASSUME NEW q, NEW w, NEW n, Sound(q, w, n), ~q.finishing, ~q.request_done, ~q.cleaned,
           q.mode = "send", ~q.tick
    PROVE  LET p == Asked(q)
           IN  /\ Sound(p, w, n) /\ ~p.finishing /\ ~p.request_done /\ ~p.cleaned
               /\ p.mode = "send" /\ p.copied = q.copied
               /\ CleanPart(q) => CleanPart(p)
<1>1. CASE q.is_stream_writable
  BY <1>1 DEF Asked
<1>2. CASE ~q.is_stream_writable
  <2> DEFINE y == [q EXCEPT !.is_stream_writable = TRUE, !.ready = TRUE]
             b == WriteBuffered(y)
             p == Settled(b)
  <2>1. /\ Shape(y) /\ Body(y) = Body(q) /\ Flags(y) = Flags(q)
        /\ <<y.mode, y.request_done, y.hnd, y.closing_handles, y.released, y.cleaned, y.closes>>
             = <<q.mode, q.request_done, q.hnd, q.closing_handles, q.released, q.cleaned, q.closes>>
        /\ <<y.ctx, y.ending, y.tick, y.incoming, y.errors, y.curl, y.fault>>
             = <<q.ctx, q.ending, q.tick, q.incoming, q.errors, q.curl, q.fault>>
    BY DEF Sound, Shape, Fields, Body, Flags
  <2>2. Asked(q) = p
    BY <1>2 DEF Asked
  <2> HIDE DEF y
  <2>3. Sound(y, w, n)
    <3>1. HandlePart(y) /\ ClosePart(y)
      BY <2>1 DEF Sound, HandlePart, Unclosed, ClosePart, CutUnread
    <3>2. CurlPart(y) /\ GetPart(y)
      BY <2>1 DEF Sound, CurlPart, GetPart, Body
    <3>3. BufferPart(y, w) /\ ChunkPart(y, n)
      BY <2>1 DEF Sound, BufferPart, ChunkPart, Body
    <3> QED
      BY <2>1, <3>1, <3>2, <3>3 DEF Sound
  <2>4. /\ y.buffer = q.buffer /\ y.copied = q.copied /\ y.ended = q.ended
        /\ y.finishing = q.finishing /\ y.stream_ended = q.stream_ended
    BY <2>1 DEF Body, Flags
  <2>5. Sound(b, w, n)
    BY <2>1, <2>3, WriteBufferedSound
  <2>6. Outer(b) = Outer(y) /\ (Rests(b, y) \/ Advances(b, y))
    BY <2>1, WriteBufferedEffect
  <2>7. CleanPart(q) => Settling(b)
    <3>1. CleanPart(q) => CleanPart(y)
      BY <2>1, <2>4 DEF CleanPart
    <3> QED
      BY <2>1, <2>3, <2>4, <3>1, WriteBufferedClean
  <2> HIDE DEF b
  <2>8. b.mode = "send" /\ ~b.request_done /\ ~b.cleaned /\ b.copied = q.copied
    BY <2>1, <2>4, <2>6 DEF Outer, Frame, Rests, Advances, Body
  <2>9. Sound(p, w, n) /\ ~p.finishing /\ (Settling(b) => CleanPart(p))
    BY <2>5, SettledSound, SettledClean
  <2>10. Outer(p) = Outer(b) /\ Body(p) = Body(b)
    BY <2>5, <2>8, SettledEffect DEF Sound
  <2> HIDE DEF p
  <2>11. p.mode = "send" /\ ~p.request_done /\ ~p.cleaned /\ p.copied = q.copied
    BY <2>8, <2>10 DEF Outer, Frame, Body
  <2> QED
    BY <2>2, <2>7, <2>9, <2>11
<1> QED
  BY <1>1, <1>2

\* libcurl asks for data: it takes the chunk, or is told that there is no more for now.
LEMMA CurlReadStep ==
    ASSUME IInv, CurlRead
    PROVE  IInv'
<1> DEFINE n == Len(wire)
           a == Asked(r)
<1>1. /\ Sound(r, written, n) /\ ~r.finishing /\ ~r.tick /\ r.mode = "send" /\ r.curl = "run"
      /\ written \in Nat /\ written' = written /\ use' = use
      /\ wire \in Seq(Nat) /\ n \in Nat /\ \A i \in 1 .. n : wire[i] = i
  BY DEF CurlRead, InCurl, Returned, HasBody, IInv, WirePart
<1>2. ~r.request_done /\ ~r.cleaned
  BY <1>1 DEF Sound, CurlPart
<1> HIDE DEF n
<1>3. /\ Sound(a, written, n) /\ ~a.finishing /\ ~a.request_done /\ ~a.cleaned
      /\ a.mode = "send" /\ a.copied = r.copied
      /\ CleanPart(r) => CleanPart(a)
  BY <1>1, <1>2, AskedFacts
<1>4. use = {} => CleanPart(a)
  BY <1>3 DEF IInv
<1> DEFINE sent == [a EXCEPT !.data_to_read = FALSE, !.copied = FALSE, !.async = TRUE]
<1>5. ReadCallback(r) =
        LET t == IF a.data_to_read THEN sent ELSE a
        IN  IF a.data_to_read /\ ~a.copied THEN [a EXCEPT !.copied = TRUE]
            ELSE IF t.stream_ended THEN [t EXCEPT !.uploaded = TRUE]
            ELSE [t EXCEPT !.curl = "paused"]
  BY DEF ReadCallback, Asked
<1>6. /\ r' = [ReadCallback(r) EXCEPT !.ctx = "curl"]
      /\ wire' = IF r'.copied /\ ~r.copied THEN Append(wire, r'.chunk) ELSE wire
  BY DEF CurlRead
<1> HIDE DEF a
<1>7. /\ a.chunk \in Nat /\ a.writing \in {0, a.chunk}
      /\ a.data_to_read => a.writing # 0
      /\ a.async => a.writing # 0 /\ ~a.data_to_read
      /\ a.copied => a.data_to_read
      /\ n = IF a.data_to_read /\ ~a.copied THEN a.chunk - 1 ELSE a.chunk
      /\ \A k \in Chunks : /\ a.acks[k] <= 1
                           /\ a.acks[k] > 0 => k <= a.chunk
                           /\ a.acks[k] > 0 /\ k = a.chunk => a.writing = 0
      /\ a.acks \in [Chunks -> Nat]
  BY <1>3 DEF Sound, ChunkPart, BufferPart
\* Whatever the callback returns, only these fields differ from those of a.
<1>8. ASSUME NEW p, NEW m, Shape(p), Frame(p) = Frame(a), Flags(p) = Flags(a),
             <<p.chunk, p.buffer, p.writing, p.acks>> = <<a.chunk, a.buffer, a.writing, a.acks>>,
             <<p.incoming, p.errors, p.fault, p.ending, p.tick>>
               = <<a.incoming, a.errors, a.fault, a.ending, a.tick>>,
             p.curl # "gone",
             p.data_to_read => p.writing # 0,
             p.async => p.writing # 0 /\ ~p.data_to_read,
             p.copied => p.data_to_read,
             m = IF p.data_to_read /\ ~p.copied THEN p.chunk - 1 ELSE p.chunk
      PROVE  Sound(p, written, m) /\ ~p.finishing /\ (use = {} => CleanPart(p))
  <2>1. p.cleaned = a.cleaned /\ p.request_done = a.request_done /\ p.mode = a.mode
    BY <1>8 DEF Frame
  <2>2. HandlePart(p) /\ ClosePart(p)
    BY <1>3, <1>8 DEF Sound, HandlePart, Unclosed, ClosePart, CutUnread, Frame
  <2>3. CurlPart(p) /\ GetPart(p)
    BY <1>3, <1>8, <2>1 DEF CurlPart, GetPart
  <2>4. BufferPart(p, written)
    BY <1>3, <1>8 DEF Sound, BufferPart
  <2>5. ChunkPart(p, m)
    BY <1>3, <1>7, <1>8, <2>1 DEF ChunkPart
  <2>6. ~p.finishing /\ p.ended = a.ended /\ p.stream_ended = a.stream_ended
    BY <1>3, <1>8 DEF Flags
  <2>7. use = {} => CleanPart(p)
    BY <1>4, <1>8, <2>1, <2>6 DEF CleanPart
  <2> QED
    BY <1>8, <2>2, <2>3, <2>4, <2>5, <2>6, <2>7 DEF Sound
<1>9. Shape(a) /\ a.curl # "gone"
  BY <1>3 DEF Sound, CurlPart
<1>10. CASE a.data_to_read /\ ~a.copied
  <2>1. r' = [[a EXCEPT !.copied = TRUE] EXCEPT !.ctx = "curl"]
    BY <1>5, <1>6, <1>10
  <2>2. /\ Shape(r') /\ Frame(r') = Frame(a) /\ Flags(r') = Flags(a) /\ r'.copied = TRUE
        /\ <<r'.chunk, r'.buffer, r'.writing, r'.acks>> = <<a.chunk, a.buffer, a.writing, a.acks>>
        /\ <<r'.incoming, r'.errors, r'.fault, r'.ending, r'.tick>>
             = <<a.incoming, a.errors, a.fault, a.ending, a.tick>>
        /\ <<r'.curl, r'.data_to_read, r'.async>> = <<a.curl, a.data_to_read, a.async>>
    BY <1>9, <2>1 DEF Shape, Fields, Frame, Flags
  <2>3. wire' = Append(wire, a.chunk) /\ a.chunk = n + 1
    BY <1>3, <1>6, <1>7, <1>10, <2>2, <1>1
  <2>4. Sound(r', written, n + 1) /\ ~r'.finishing /\ (use = {} => CleanPart(r'))
    BY <1>7, <1>8, <1>9, <1>10, <2>2, <2>3
  <2>5. WirePart' /\ Len(wire') = n + 1
    <3>1. wire' \in Seq(Nat) /\ Len(wire') = n + 1 /\ \A i \in 1 .. n + 1 : wire'[i] = 0 + i
      <4>1. 0 + Len(wire) = n /\ \A i \in 1 .. Len(wire) : wire[i] = 0 + i
        BY <1>1 DEF n
      <4> QED
        BY <1>1, <2>3, <4>1, AppendNext
    <3> QED
      BY <1>1, <3>1 DEF WirePart
  <2> QED
    BY <1>1, <2>4, <2>5 DEF IInv
<1>11. CASE ~(a.data_to_read /\ ~a.copied)
  <2> DEFINE t == IF a.data_to_read THEN sent ELSE a
  <2>1. /\ Shape(t) /\ Frame(t) = Frame(a) /\ Flags(t) = Flags(a)
        /\ <<t.chunk, t.buffer, t.writing, t.acks>> = <<a.chunk, a.buffer, a.writing, a.acks>>
        /\ <<t.incoming, t.errors, t.fault, t.ending, t.tick, t.curl>>
             = <<a.incoming, a.errors, a.fault, a.ending, a.tick, a.curl>>
        /\ ~t.data_to_read /\ (t.copied => a.copied) /\ (t.copied => t.data_to_read)
        /\ t.async => t.writing # 0
    <3>1. CASE a.data_to_read
      BY <1>7, <1>9, <3>1 DEF Shape, Fields, Frame, Flags
    <3>2. CASE ~a.data_to_read
      BY <1>7, <1>9, <3>2
    <3> QED
      BY <3>1, <3>2
  <2>2. \/ r' = [[t EXCEPT !.uploaded = TRUE] EXCEPT !.ctx = "curl"]
        \/ r' = [[t EXCEPT !.curl = "paused"] EXCEPT !.ctx = "curl"]
    BY <1>5, <1>6, <1>11
  <2> HIDE DEF t
  <2>3. /\ Shape(r') /\ Frame(r') = Frame(t) /\ Flags(r') = Flags(t)
        /\ <<r'.chunk, r'.buffer, r'.writing, r'.acks>> = <<t.chunk, t.buffer, t.writing, t.acks>>
        /\ <<r'.incoming, r'.errors, r'.fault, r'.ending, r'.tick>>
             = <<t.incoming, t.errors, t.fault, t.ending, t.tick>>
        /\ <<r'.data_to_read, r'.copied, r'.async>> = <<t.data_to_read, t.copied, t.async>>
        /\ r'.curl = t.curl \/ r'.curl = "paused"
    <3>1. CASE r' = [[t EXCEPT !.uploaded = TRUE] EXCEPT !.ctx = "curl"]
      BY <2>1, <3>1 DEF Shape, Fields, Frame, Flags
    <3>2. CASE r' = [[t EXCEPT !.curl = "paused"] EXCEPT !.ctx = "curl"]
      BY <2>1, <3>2 DEF Shape, Fields, Frame, Flags
    <3> QED
      BY <2>2, <3>1, <3>2
  <2>4. wire' = wire
    BY <1>3, <1>6, <2>1, <2>3
  <2>5. n = IF r'.data_to_read /\ ~r'.copied THEN r'.chunk - 1 ELSE r'.chunk
    BY <1>7, <1>11, <2>1, <2>3
  <2>6. Sound(r', written, n) /\ ~r'.finishing /\ (use = {} => CleanPart(r'))
    BY <1>8, <1>9, <2>1, <2>3, <2>5
  <2> QED
    BY <1>1, <2>4, <2>6, SoundStep DEF n
<1> QED
  BY <1>10, <1>11

-----------------------------------------------------------------------------
(***************************************************************************)
(* Handles.                                                                *)
(***************************************************************************)

LEMMA FiniteHandles ==
    /\ IsFiniteSet(Handles) /\ IsFiniteSet(Timers) /\ Cardinality(Timers) = 3
    /\ Timers # {} /\ Timers \subseteq Handles
<1>1. IsFiniteSet({"timeout"}) /\ Cardinality({"timeout"}) = 1
  BY FS_Singleton
<1>2. /\ IsFiniteSet({"timeout"} \cup {"socket_timeout"})
      /\ Cardinality({"timeout"} \cup {"socket_timeout"}) = 2
  BY <1>1, FS_AddElement
<1>3. /\ IsFiniteSet(({"timeout"} \cup {"socket_timeout"}) \cup {"async"})
      /\ Cardinality(({"timeout"} \cup {"socket_timeout"}) \cup {"async"}) = 3
  BY <1>2, FS_AddElement
<1>4. Timers = ({"timeout"} \cup {"socket_timeout"}) \cup {"async"}
  BY DEF Timers
<1>5. IsFiniteSet(Timers) /\ Cardinality(Timers) = 3
  BY <1>3, <1>4
<1>6. IsFiniteSet(Timers \cup Polls)
  BY <1>5, HttpsAssumption, FS_Union
<1> QED
  BY <1>4, <1>5, <1>6 DEF Handles

LEMMA UnclosedFinite ==
    ASSUME NEW q
    PROVE  IsFiniteSet(Unclosed(q)) /\ Cardinality(Unclosed(q)) \in Nat
<1>1. Unclosed(q) \in SUBSET Handles
  BY DEF Unclosed
<1>2. IsFiniteSet(Unclosed(q))
  BY <1>1, FiniteHandles, FS_Subset
<1> QED
  BY <1>2, FS_CardinalityType

\* A step that changes one handle.
LEMMA HandleStep ==
    ASSUME IInv, Shape(r'), HandlePart(r'), Body(r') = Body(r), Flags(r') = Flags(r),
           <<r'.mode, r'.request_done, r'.is_stream_writable, r'.ready, r'.cleaned, r'.closes>>
             = <<r.mode, r.request_done, r.is_stream_writable, r.ready, r.cleaned, r.closes>>,
           <<r'.ctx, r'.ending, r'.tick, r'.incoming, r'.errors, r'.curl, r'.fault>>
             = <<r.ctx, r.ending, r.tick, r.incoming, r.errors, r.curl, r.fault>>,
           UNCHANGED <<written, wire, use>>
    PROVE  IInv'
<1>1. Sound(r, written, Len(wire)) /\ written \in Nat
  BY DEF IInv
<1>2. ClosePart(r')
  BY <1>1 DEF Sound, ClosePart, CutUnread
<1>3. CurlPart(r')
  BY <1>1 DEF Sound, CurlPart, Body
<1>4. GetPart(r')
  BY <1>1 DEF Sound, GetPart, Body, Flags
<1>5. BufferPart(r', written)
  BY <1>1 DEF Sound, BufferPart, Body
<1>6. ChunkPart(r', Len(wire))
  BY <1>1 DEF Sound, ChunkPart, Body
<1>7. Sound(r', written, Len(wire))
  BY <1>2, <1>3, <1>4, <1>5, <1>6 DEF Sound
<1>8. ~r'.finishing
  BY DEF IInv, Flags
<1>9. use = {} => CleanPart(r')
  BY DEF IInv, CleanPart, Body, Flags
<1> QED
  BY <1>1, <1>7, <1>8, <1>9, SoundStep

\* libcurl polls a new socket, or has closed one: the timers are still open.
LEMMA CurlSocketStep ==
    ASSUME IInv, NEW x \in Polls, CurlSocket(x)
    PROVE  IInv'
<1>1. /\ Sound(r, written, Len(wire)) /\ Shape(r) /\ HandlePart(r)
      /\ r.curl \in {"run", "paused"} /\ UNCHANGED <<written, wire, use>>
  BY DEF CurlSocket, InCurl, IInv, Sound
<1>2. ~r.cleaned
  BY <1>1 DEF Sound, CurlPart
<1>3. x \in Handles /\ x \notin Timers /\ x # "async" /\ x # "socket_timeout"
  BY HttpsAssumption DEF Handles, Timers
<1>4. /\ r.hnd \in [Handles -> {"none", "open", "closing", "closed"}]
      /\ r.closing_handles = Cardinality(Unclosed(r))
      /\ r.released = IF Unclosed(r) = {} THEN 1 ELSE 0
      /\ \A y \in Timers : r.hnd[y] = "open"
  BY <1>1, <1>2 DEF HandlePart
<1>5. Unclosed(r) # {}
  BY <1>4, FiniteHandles DEF Unclosed
<1>6. CASE r.hnd[x] = "none" /\ r' = [r EXCEPT !.hnd[x] = "open", !.closing_handles = @ + 1]
  <2>1. /\ Shape(r') /\ Body(r') = Body(r) /\ Flags(r') = Flags(r)
        /\ <<r'.mode, r'.request_done, r'.is_stream_writable, r'.ready, r'.cleaned, r'.closes>>
             = <<r.mode, r.request_done, r.is_stream_writable, r.ready, r.cleaned, r.closes>>
        /\ <<r'.ctx, r'.ending, r'.tick, r'.incoming, r'.errors, r'.curl, r'.fault>>
             = <<r.ctx, r.ending, r.tick, r.incoming, r.errors, r.curl, r.fault>>
        /\ r'.hnd = [r.hnd EXCEPT ![x] = "open"] /\ r'.released = r.released
        /\ r'.closing_handles = r.closing_handles + 1
    BY <1>1, <1>6 DEF Shape, Fields, Body, Flags
  <2>2. /\ r'.hnd \in [Handles -> {"none", "open", "closing", "closed"}]
        /\ \A y \in Timers : r'.hnd[y] = "open"
    BY <1>3, <1>4, <2>1, FiniteHandles
  <2>3. Unclosed(r') = Unclosed(r) \cup {x} /\ x \notin Unclosed(r)
    BY <1>3, <1>4, <1>6, <2>1 DEF Unclosed
  <2>4. Cardinality(Unclosed(r')) = Cardinality(Unclosed(r)) + 1
    BY <2>3, UnclosedFinite, FS_AddElement
  <2>5. HandlePart(r')
    BY <1>2, <1>4, <1>5, <2>1, <2>2, <2>3, <2>4 DEF HandlePart
  <2> QED
    BY <1>1, <2>1, <2>5, HandleStep
<1>7. CASE r.hnd[x] = "open" /\ r' = CloseHandles(r, {x})
  <2>1. /\ Shape(r') /\ Body(r') = Body(r) /\ Flags(r') = Flags(r)
        /\ <<r'.mode, r'.request_done, r'.is_stream_writable, r'.ready, r'.cleaned, r'.closes>>
             = <<r.mode, r.request_done, r.is_stream_writable, r.ready, r.cleaned, r.closes>>
        /\ <<r'.ctx, r'.ending, r'.tick, r'.incoming, r'.errors, r'.curl, r'.fault>>
             = <<r.ctx, r.ending, r.tick, r.incoming, r.errors, r.curl, r.fault>>
        /\ r'.hnd = [y \in Handles |-> IF y \in {x} /\ r.hnd[y] = "open"
                                       THEN "closing" ELSE r.hnd[y]]
        /\ r'.released = r.released /\ r'.closing_handles = r.closing_handles
    BY <1>1, <1>3, <1>7 DEF CloseHandles, Shape, Fields, Body, Flags
  <2>2. /\ r'.hnd \in [Handles -> {"none", "open", "closing", "closed"}]
        /\ \A y \in Timers : r'.hnd[y] = "open"
    BY <1>3, <1>4, <2>1, FiniteHandles
  <2>3. Unclosed(r') = Unclosed(r)
    BY <1>3, <1>4, <1>7, <2>1 DEF Unclosed
  <2>4. HandlePart(r')
    BY <1>2, <1>4, <2>1, <2>2, <2>3 DEF HandlePart
  <2> QED
    BY <1>1, <2>1, <2>4, HandleStep
<1> QED
  BY <1>6, <1>7 DEF CurlSocket

\* uv has closed a handle; the last one takes the request with it.
LEMMA UvClosedStep ==
    ASSUME IInv, NEW x \in Handles, UvClosed(x)
    PROVE  IInv'
<1>1. /\ Shape(r) /\ HandlePart(r) /\ r.hnd[x] = "closing" /\ UNCHANGED <<written, wire, use>>
      /\ r' = [r EXCEPT !.hnd[x] = "closed", !.closing_handles = @ - 1,
                        !.released = IF r.closing_handles <= 1 THEN @ + 1 ELSE @]
  BY DEF UvClosed, IInv, Sound
<1>2. /\ Shape(r') /\ Body(r') = Body(r) /\ Flags(r') = Flags(r)
      /\ <<r'.mode, r'.request_done, r'.is_stream_writable, r'.ready, r'.cleaned, r'.closes>>
           = <<r.mode, r.request_done, r.is_stream_writable, r.ready, r.cleaned, r.closes>>
      /\ <<r'.ctx, r'.ending, r'.tick, r'.incoming, r'.errors, r'.curl, r'.fault>>
           = <<r.ctx, r.ending, r.tick, r.incoming, r.errors, r.curl, r.fault>>
      /\ r'.hnd = [r.hnd EXCEPT ![x] = "closed"]
      /\ r'.closing_handles = r.closing_handles - 1
      /\ r'.released = IF r.closing_handles <= 1 THEN r.released + 1 ELSE r.released
  BY <1>1 DEF Shape, Fields, Body, Flags
<1>3. /\ r.hnd \in [Handles -> {"none", "open", "closing", "closed"}]
      /\ r.closing_handles = Cardinality(Unclosed(r))
      /\ r.released = IF Unclosed(r) = {} THEN 1 ELSE 0
      /\ ~r.cleaned => \A y \in Timers : r.hnd[y] = "open"
      /\ r.cleaned => \A y \in Handles : r.hnd[y] # "open"
  BY <1>1 DEF HandlePart
<1>4. /\ r'.hnd \in [Handles -> {"none", "open", "closing", "closed"}]
      /\ \A y \in Handles : r'.hnd[y] = IF y = x THEN "closed" ELSE r.hnd[y]
  BY <1>2, <1>3
<1>5. /\ ~r'.cleaned => \A y \in Timers : r'.hnd[y] = "open"
      /\ r'.cleaned => \A y \in Handles : r'.hnd[y] # "open"
  BY <1>1, <1>2, <1>3, <1>4, FiniteHandles
<1>6. Unclosed(r') = Unclosed(r) \ {x} /\ x \in Unclosed(r)
  BY <1>1, <1>3, <1>4 DEF Unclosed
<1>7. Cardinality(Unclosed(r')) = Cardinality(Unclosed(r)) - 1
  BY <1>6, UnclosedFinite, FS_RemoveElement
<1>8. /\ Cardinality(Unclosed(r)) \in Nat
      /\ Cardinality(Unclosed(r')) \in Nat
      /\ Cardinality(Unclosed(r')) = 0 <=> Unclosed(r') = {}
  BY UnclosedFinite, FS_EmptySet
<1>9. r.released = 0 /\ (r.closing_handles <= 1 <=> Unclosed(r') = {})
  BY <1>3, <1>6, <1>7, <1>8
<1>10. HandlePart(r')
  BY <1>2, <1>3, <1>4, <1>5, <1>7, <1>9 DEF HandlePart
<1> QED
  BY <1>1, <1>2, <1>10, HandleStep

-----------------------------------------------------------------------------
LEMMA InitInv == Init => IInv
<1> SUFFICES ASSUME Init PROVE IInv
  OBVIOUS
<1>1. PICK mode \in {"get", "send"} :
        \/ r = Create(mode) /\ use = {}
        \/ r = Fault(Create(mode), "null") /\ use = {"noCurl"}
  BY DEF Init
<1>2. written = 0 /\ wire = <<>>
  BY DEF Init
<1>3. /\ Shape(r) /\ r.mode = mode /\ r.stream_ended = (mode = "get")
      /\ ~r.is_stream_writable /\ ~r.request_done /\ ~r.data_to_read /\ ~r.copied
      /\ r.chunk = 0 /\ ~r.to_destroy /\ ~r.async
      /\ r.hnd = [x \in Handles |-> IF x \in Timers THEN "open" ELSE "none"]
      /\ r.closing_handles = 3 /\ r.released = 0 /\ ~r.cleaned /\ r.curl = "run"
      /\ r.ctx = "loop" /\ r.buffer = <<>> /\ r.writing = 0 /\ ~r.ready /\ ~r.ending
      /\ ~r.ended /\ ~r.finishing /\ ~r.tick /\ r.errors = 0
      /\ r.closes = [emitted |-> 0, due |-> 0]
      /\ r.acks = [k \in Chunks |-> 0] /\ (use = {} => r.fault = "none")
  <2>1. CASE r = Create(mode)
    BY <2>1 DEF Create, Shape, Fields
  <2>2. CASE r = [Create(mode) EXCEPT !.fault = "null"] /\ use # {}
    BY <2>2 DEF Create, Shape, Fields
  <2>3. Fault(Create(mode), "null") = [Create(mode) EXCEPT !.fault = "null"]
    BY DEF Fault, Create
  <2> QED
    BY <1>1, <2>1, <2>2, <2>3
<1>4. HandlePart(r)
  <2>1. Unclosed(r) = Timers
    BY <1>3, FiniteHandles DEF Unclosed
  <2>2. /\ r.hnd \in [Handles -> {"none", "open", "closing", "closed"}]
        /\ \A x \in Timers : r.hnd[x] = "open"
    BY <1>3, FiniteHandles
  <2> QED
    BY <1>3, <2>1, <2>2, FiniteHandles DEF HandlePart
<1>5. ClosePart(r) /\ CurlPart(r) /\ GetPart(r) /\ (use = {} => CleanPart(r))
  <2>1. ClosePart(r) /\ CurlPart(r)
    BY <1>3 DEF ClosePart, CutUnread, CurlPart
  <2>2. IF mode = "get" THEN r.stream_ended ELSE ~r.stream_ended
    BY <1>3
  <2>3. GetPart(r)
    BY <1>1, <1>3, <2>2 DEF GetPart
  <2>4. use = {} => CleanPart(r)
    BY <1>3, <2>2 DEF CleanPart
  <2> QED
    BY <2>1, <2>3, <2>4
<1>6. BufferPart(r, written)
  BY <1>2, <1>3 DEF BufferPart
<1>7. ChunkPart(r, Len(wire))
  BY <1>2, <1>3 DEF ChunkPart
<1>8. WirePart
  BY <1>2 DEF WirePart
<1> QED
  BY <1>2, <1>3, <1>4, <1>5, <1>6, <1>7, <1>8 DEF IInv, Sound

LEMMA NextInv == IInv /\ [Next]_vars => IInv'
<1> SUFFICES ASSUME IInv, [Next]_vars PROVE IInv'
  OBVIOUS
<1>1. CASE Write
  BY <1>1, WriteStep
<1>2. CASE End
  BY <1>2, EndStep
<1>3. CASE FinishTick
  BY <1>3, FinishTickStep
<1>4. CASE Abort
  BY <1>4, AbortStep DEF Abort, InJs, Alive
<1>5. CASE SetTimeout
  BY <1>5, TimeoutStep DEF SetTimeout
<1>6. CASE UvSocketTimeout
  <2>1. CASE AbortRequest
    BY <1>6, <2>1, AbortStep DEF UvSocketTimeout, Turn, Returned, Alive
  <2>2. CASE r' = [r EXCEPT !.timeout = "unset"] /\ UNCHANGED <<written, wire, use>>
    BY <2>2, TimeoutStep
  <2> QED
    BY <1>6, <2>1, <2>2 DEF UvSocketTimeout
<1>7. CASE UvReadOnwrite
  BY <1>7, ReadOnwriteStep
<1>8. CASE CurlRuns \/ CurlWrite \/ CurlWaits
  BY <1>8, CurlStep
<1>9. CASE CurlRead
  BY <1>9, CurlReadStep
<1>10. CASE CurlDone
  BY <1>10, CurlDoneStep
<1>11. ASSUME NEW p \in Polls, CurlSocket(p)
       PROVE  IInv'
  BY <1>11, CurlSocketStep
<1>12. ASSUME NEW x \in Handles, UvClosed(x)
       PROVE  IInv'
  BY <1>12, UvClosedStep
<1>13. CASE ReadRest
  BY <1>13, ReadRestStep
<1>14. CASE UNCHANGED vars
  BY <1>14 DEF vars, IInv, WirePart
<1> QED
  BY <1>1, <1>2, <1>3, <1>4, <1>5, <1>6, <1>7, <1>8, <1>9, <1>10, <1>11, <1>12, <1>13, <1>14
  DEF Next

\* The inductive invariant: the handles are counted, the chunks are consecutive from libcurl
\* through C to the stream's buffer, and a program that does nothing of use meets no
\* undefined behaviour (iotjs_module_https.c).
THEOREM Invariance == Spec => []IInv
  BY InitInv, NextInv, PTL DEF Spec

\* The struct of a request is let go exactly when the last of its handles is closed, however
\* many sockets libcurl opens and closes and whenever the request is aborted.  'close' is
\* emitted once for the clean-up, with an error if there was no response, and is kept back
\* only as long as the program leaves a response that was cut unread
\* (iotjs_module_https.c:155-197, 579-588, https_incoming.js:169-197).
THEOREM StructReleasedOnce == Spec => []ReleasedOnce
<1>1. IInv => ReleasedOnce
  <2> SUFFICES ASSUME IInv PROVE ReleasedOnce
    OBVIOUS
  <2>1. HandlePart(r) /\ ClosePart(r)
    BY DEF IInv, Sound
  <2>2. (\A x \in Handles : r.hnd[x] \in {"none", "closed"}) <=> Unclosed(r) = {}
    BY <2>1 DEF HandlePart, Unclosed
  <2>3. HandlesCounted
    BY <2>1, <2>2 DEF HandlesCounted, HandlePart, Unclosed
  <2>4. ClosedOnce
    BY <2>1 DEF ClosedOnce, ClosePart, CutUnread
  <2> QED
    BY <2>3, <2>4 DEF ReleasedOnce
<1> QED
  BY Invariance, <1>1, PTL

\* libcurl gets the chunks in the order of write(), none of them twice and none left out, and
\* the callback of a chunk comes after libcurl took it and once, as long as the transfer goes
\* on and the request is not cleaned up (iotjs_module_https.c:183, 439).
THEOREM ChunksReachCurlInOrder == Spec => []ChunksInOrder
<1>1. IInv => ChunksInOrder
  <2> SUFFICES ASSUME IInv PROVE ChunksInOrder
    OBVIOUS
  <2>1. ChunkPart(r, Len(wire)) /\ r.chunk \in Nat /\ Len(wire) \in Nat
    BY DEF IInv, Sound, BufferPart, WirePart
  <2>2. \A n \in 1 .. Len(wire) : wire[n] = n
    BY DEF IInv, WirePart
  <2>3. ASSUME NEW k \in Chunks, r.acks[k] > 0, ~r.request_done, ~r.cleaned
        PROVE  k <= Len(wire)
    <3>1. k \in Nat
      BY DEF Chunks
    <3> QED
      BY <2>1, <2>3, <3>1 DEF ChunkPart
  <2>4. ASSUME NEW k \in Chunks
        PROVE  r.acks[k] <= 1 \/ r.request_done \/ (r.acks[k] = 2 /\ r.cleaned)
    <3>1. r.acks[k] \in Nat
      BY <2>1 DEF ChunkPart
    <3> QED
      BY <2>1, <3>1 DEF ChunkPart
  <2> QED
    BY <2>2, <2>3, <2>4 DEF ChunksInOrder
<1> QED
  BY Invariance, <1>1, PTL

\* Undefined behaviour of a request (a NULL handle of libcurl, a second clean-up, a clean-up
\* from within libcurl) comes only of an abort() of a request that is over or whose body is
\* not ended, of an abort() within a listener, of a write() after end(), or of libcurl that
\* could not be set up (iotjs_module_https.c:749).
THEOREM FaultsHaveCauses == Spec => []FaultHasCause
<1>1. IInv => FaultHasCause
  BY DEF IInv, CleanPart, FaultHasCause
<1> QED
  BY Invariance, <1>1, PTL

-----------------------------------------------------------------------------
(* The datagram socket.                                                    *)

SocketFields ==
  {"handle", "uv", "receiving", "bindState", "resolving", "queue", "msg", "ticks", "closes",
   "failed", "stuck", "threw"}

\* The fields the queue depends on; an item of the queue is a send() or 0 for close().
SocketShape(k) ==
  /\ DOMAIN k = SocketFields
  /\ k.handle \in BOOLEAN /\ k.threw \in BOOLEAN /\ k.resolving \in BOOLEAN
  /\ k.stuck \in BOOLEAN
  /\ DOMAIN k.msg = 1 .. MaxSends
  /\ k.queue = NoQueue \/ k.queue \in Seq(Nat)

\* The sends that are queued are those in the queue.
QueuePart(k) ==
  {n \in 1 .. MaxSends : k.msg[n] = "queued"}
     = IF k.queue = NoQueue THEN {} ELSE {k.queue[i] : i \in DOMAIN k.queue} \ {0}

\* A queue belongs to a socket that is open.
OpenPart(k) == k.queue # NoQueue => k.handle

\* Somebody will clear it, unless an exception has left a listener or a bind is stuck.
ClearPart(k) ==
  /\ k.queue # NoQueue => k.bindState # "bound" \/ k.threw
  /\ k.bindState = "binding" => k.resolving \/ ~k.handle \/ k.threw \/ k.stuck

SocketInv(k) == SocketShape(k) /\ QueuePart(k) /\ OpenPart(k)

\* bind() up to the lookup.
LEMMA BindKeeps ==
    ASSUME NEW k, SocketInv(k)
    PROVE  /\ SocketInv(Bind(k)) /\ ClearPart(Bind(k))
           /\ Bind(k).handle = k.handle /\ Bind(k).msg = k.msg
           /\ Bind(k).bindState = "binding" /\ Bind(k).queue = k.queue
<1> DEFINE m == Bind(k)
<1>1. /\ DOMAIN m = DOMAIN k /\ m.bindState = "binding" /\ m.resolving = TRUE
      /\ m.handle = k.handle /\ m.stuck = k.stuck /\ m.threw = k.threw
      /\ m.msg = k.msg /\ m.queue = k.queue
  BY DEF Bind, SocketInv, SocketShape, SocketFields
<1> HIDE DEF m
<1>2. SocketInv(m) /\ ClearPart(m)
  <2>1. SocketShape(m)
    BY <1>1 DEF SocketInv, SocketShape
  <2>2. QueuePart(m) /\ OpenPart(m)
    BY <1>1 DEF SocketInv, QueuePart, OpenPart
  <2>3. ClearPart(m)
    BY <1>1 DEF ClearPart
  <2> QED
    BY <2>1, <2>2, <2>3 DEF SocketInv
<1> QED
  BY <1>1, <1>2 DEF m

\* enqueue() of a send() or, as 0, of a close().
LEMMA EnqueueEffect ==
    ASSUME NEW k, SocketInv(k), NEW item \in Nat
    PROVE  LET m == Enqueue(k, item)
           IN  /\ DOMAIN m = DOMAIN k
               /\ \A f \in SocketFields \ {"queue"} : m[f] = k[f]
               /\ m.queue \in Seq(Nat) /\ m.queue # NoQueue
               /\ {m.queue[i] : i \in DOMAIN m.queue}
                    = {item} \cup (IF k.queue = NoQueue THEN {}
                                   ELSE {k.queue[i] : i \in DOMAIN k.queue})
<1> DEFINE m == Enqueue(k, item)
           q == k.queue
           new == IF q = NoQueue THEN <<item>> ELSE Append(q, item)
<1>1. DOMAIN k = SocketFields /\ (q = NoQueue \/ q \in Seq(Nat))
  BY DEF SocketInv, SocketShape
<1>2. m = [k EXCEPT !.queue = new]
  BY DEF Enqueue
<1>3. /\ DOMAIN m = DOMAIN k /\ m.queue = new
      /\ \A f \in SocketFields \ {"queue"} : m[f] = k[f]
  BY <1>1, <1>2 DEF SocketFields
<1>4. CASE q = NoQueue
  <2>1. new = <<item>>
    BY <1>4
  <2>2. new \in Seq(Nat) /\ new # NoQueue /\ {new[i] : i \in DOMAIN new} = {item}
    <3>1. <<item>> \in Seq(Nat) /\ DOMAIN <<item>> = {1} /\ <<item>>[1] = item
      OBVIOUS
    <3>2. <<item>> # <<-1>>
      OBVIOUS
    <3>3. {<<item>>[i] : i \in {1}} = {item}
      OBVIOUS
    <3>4. {<<item>>[i] : i \in DOMAIN <<item>>} = {item}
      BY <3>1, <3>3
    <3> HIDE DEF new
    <3> QED
      BY <2>1, <3>1, <3>2, <3>4 DEF NoQueue
  <2> QED
    BY <1>3, <1>4, <2>2
<1>5. CASE q # NoQueue
  <2>1. new = Append(q, item) /\ q \in Seq(Nat)
    BY <1>1, <1>5
  <2> HIDE DEF new, q
  <2>2. new \in Seq(Nat)
    BY <2>1
  <2>3. new # NoQueue
    <3>1. new[Len(new)] = item /\ Len(new) >= 1
      BY <2>1
    <3>2. Len(<<-1>>) = 1 /\ <<-1>>[1] = -1 /\ item # -1
      OBVIOUS
    <3> QED
      BY <3>1, <3>2 DEF NoQueue
  <2>4. {new[i] : i \in DOMAIN new} = {item} \cup {q[i] : i \in DOMAIN q}
    <3>1. /\ DOMAIN q = 1 .. Len(q) /\ DOMAIN new = 1 .. Len(q) + 1 /\ Len(q) \in Nat
          /\ new[Len(q) + 1] = item /\ \A i \in 1 .. Len(q) : new[i] = q[i]
      BY <2>1
    <3>2. \A x : (\E i \in DOMAIN new : x = new[i]) <=> x = item \/ \E i \in DOMAIN q : x = q[i]
      BY <3>1
    <3> QED
      BY <3>2
  <2> QED
    BY <1>3, <1>5, <2>2, <2>3, <2>4 DEF q
<1> QED
  BY <1>4, <1>5

\* A queue that gets an item is a queue of an open socket.
LEMMA EnqueueClose ==
    ASSUME NEW k, SocketInv(k), k.handle
    PROVE  LET m == Enqueue(k, 0)
           IN  /\ SocketInv(m) /\ m.queue # NoQueue /\ m.bindState = k.bindState
               /\ k.queue # NoQueue /\ ClearPart(k) => ClearPart(m)
<1> DEFINE m == Enqueue(k, 0)
<1>1. /\ DOMAIN m = DOMAIN k
      /\ \A f \in SocketFields \ {"queue"} : m[f] = k[f]
      /\ m.queue \in Seq(Nat) /\ m.queue # NoQueue
      /\ {m.queue[i] : i \in DOMAIN m.queue}
           = {0} \cup (IF k.queue = NoQueue THEN {} ELSE {k.queue[i] : i \in DOMAIN k.queue})
  BY EnqueueEffect
<1> HIDE DEF m
<1>2. /\ m.handle = k.handle /\ m.stuck = k.stuck /\ m.threw = k.threw /\ m.resolving = k.resolving
      /\ m.msg = k.msg /\ m.bindState = k.bindState
  BY <1>1 DEF SocketFields
<1>3. SocketShape(m)
  BY <1>1, <1>2 DEF SocketInv, SocketShape
<1>4. QueuePart(m)
  BY <1>1, <1>2 DEF SocketInv, QueuePart
<1>5. k.queue # NoQueue /\ ClearPart(k) => ClearPart(m)
  BY <1>2 DEF ClearPart
<1> QED
  BY <1>1, <1>2, <1>3, <1>4, <1>5 DEF SocketInv, OpenPart, m

\* send() of a datagram that was not sent yet.
LEMMA SendKeeps ==
    ASSUME NEW k, SocketInv(k), k.handle, NEW n \in 1 .. MaxSends, k.msg[n] = "none"
    PROVE  LET m == Send(k, n)
           IN  /\ SocketInv(m) /\ m.handle
               /\ k.bindState = "bound" => m.bindState = "bound"
               /\ ClearPart(k) => ClearPart(m)
<1> DEFINE b == IF k.bindState = "unbound" THEN Bind(k) ELSE k
           e == Enqueue(b, n)
           m == Send(k, n)
<1>1. /\ SocketInv(b) /\ b.handle /\ b.msg[n] = "none" /\ (ClearPart(k) => ClearPart(b))
      /\ k.bindState = "bound" => b.bindState = "bound"
  <2>1. CASE k.bindState = "unbound"
    BY <2>1, BindKeeps
  <2>2. CASE k.bindState # "unbound"
    BY <2>2
  <2> QED
    BY <2>1, <2>2
<1>2. m = IF b.bindState # "bound" THEN [e EXCEPT !.msg[n] = "queued"]
          ELSE [b EXCEPT !.msg[n] = "lookup"]
  BY DEF Send
<1> HIDE DEF b, m
<1>3. n \in Nat /\ n # 0
  OBVIOUS
<1>4. SocketShape(b) /\ QueuePart(b) /\ OpenPart(b)
  BY <1>1 DEF SocketInv
<1>5. CASE b.bindState # "bound"
  <2>1. /\ DOMAIN e = DOMAIN b
        /\ \A f \in SocketFields \ {"queue"} : e[f] = b[f]
        /\ e.queue \in Seq(Nat) /\ e.queue # NoQueue
        /\ {e.queue[i] : i \in DOMAIN e.queue}
             = {n} \cup (IF b.queue = NoQueue THEN {} ELSE {b.queue[i] : i \in DOMAIN b.queue})
    BY <1>1, <1>3, EnqueueEffect
  <2> HIDE DEF e
  <2>2. m = [e EXCEPT !.msg = [b.msg EXCEPT ![n] = "queued"]]
    <3>1. e.msg = b.msg
      BY <2>1 DEF SocketFields
    <3> QED
      BY <1>2, <1>5, <3>1
  <2>3. /\ DOMAIN m = SocketFields /\ m.handle = b.handle /\ m.stuck = b.stuck /\ m.threw = b.threw
        /\ m.resolving = b.resolving /\ m.bindState = b.bindState /\ m.queue = e.queue
        /\ m.msg = [b.msg EXCEPT ![n] = "queued"]
    BY <1>4, <2>1, <2>2 DEF SocketShape, SocketFields
  <2>4. SocketShape(m)
    BY <1>4, <2>1, <2>3 DEF SocketShape
  <2>5. QueuePart(m)
    <3>1. \A i \in 1 .. MaxSends : m.msg[i] = IF i = n THEN "queued" ELSE b.msg[i]
      BY <1>4, <2>3 DEF SocketShape
    <3>2. {i \in 1 .. MaxSends : m.msg[i] = "queued"}
             = {n} \cup {i \in 1 .. MaxSends : b.msg[i] = "queued"}
      BY <3>1
    <3> DEFINE R == IF b.queue = NoQueue THEN {} ELSE {b.queue[i] : i \in DOMAIN b.queue}
               W == {i \in 1 .. MaxSends : b.msg[i] = "queued"}
    <3>3. W = R \ {0}
      BY <1>4 DEF QueuePart
    <3> HIDE DEF R, W
    <3>4. {m.queue[i] : i \in DOMAIN m.queue} = {n} \cup R
      <4>1. {e.queue[i] : i \in DOMAIN e.queue} = {n} \cup R
        BY <2>1 DEF R
      <4>2. m.queue = e.queue
        BY <2>3
      <4> QED
        BY <4>1, <4>2, Zenon
    <3>5. ({n} \cup R) \ {0} = {n} \cup W
      BY <1>3, <3>3
    <3> QED
      BY <2>1, <2>3, <3>2, <3>4, <3>5 DEF QueuePart, W
  <2>6. ClearPart(b) => ClearPart(m)
    BY <1>5, <2>3 DEF ClearPart
  <2> QED
    BY <1>1, <1>5, <2>3, <2>4, <2>5, <2>6 DEF SocketInv, OpenPart, m
<1>6. CASE b.bindState = "bound"
  <2>1. m = [b EXCEPT !.msg = [b.msg EXCEPT ![n] = "lookup"]]
    BY <1>2, <1>6
  <2>2. /\ DOMAIN m = SocketFields /\ m.handle = b.handle /\ m.stuck = b.stuck /\ m.threw = b.threw
        /\ m.resolving = b.resolving /\ m.bindState = b.bindState /\ m.queue = b.queue
        /\ m.msg = [b.msg EXCEPT ![n] = "lookup"]
    BY <1>4, <2>1 DEF SocketShape, SocketFields
  <2>3. SocketShape(m)
    BY <1>4, <2>2 DEF SocketShape
  <2>4. QueuePart(m)
    <3>1. \A i \in 1 .. MaxSends : m.msg[i] = IF i = n THEN "lookup" ELSE b.msg[i]
      BY <1>4, <2>2 DEF SocketShape
    <3>2. {i \in 1 .. MaxSends : m.msg[i] = "queued"}
             = {i \in 1 .. MaxSends : b.msg[i] = "queued"}
      BY <1>1, <3>1
    <3> QED
      BY <1>4, <2>2, <3>2 DEF QueuePart
  <2>5. ClearPart(b) => ClearPart(m)
    BY <2>2 DEF ClearPart
  <2> QED
    BY <1>1, <1>4, <1>6, <2>2, <2>3, <2>4, <2>5 DEF SocketInv, OpenPart, m
<1> QED
  BY <1>5, <1>6

\* The handle is closed when there is no queue.
LEMMA CloseHandleKeeps ==
    ASSUME NEW k, SocketInv(k), k.queue = NoQueue
    PROVE  LET m == CloseHandle(k)
           IN  SocketInv(m) /\ ClearPart(m) /\ m.queue = NoQueue /\ m.bindState = k.bindState
<1> DEFINE m == CloseHandle(k)
<1>1. DOMAIN k = SocketFields
  BY DEF SocketInv, SocketShape
<1>2. /\ DOMAIN m = SocketFields /\ m.handle = FALSE /\ m.stuck = k.stuck /\ m.threw = k.threw
      /\ m.resolving = k.resolving /\ m.bindState = k.bindState /\ m.queue = k.queue
      /\ m.msg = k.msg
  BY <1>1 DEF CloseHandle, StopReceiving, SocketFields
<1> HIDE DEF m
<1>3. SocketShape(m) /\ QueuePart(m)
  BY <1>2 DEF SocketInv, SocketShape, QueuePart
<1> QED
  BY <1>2, <1>3 DEF SocketInv, OpenPart, ClearPart, m

\* close(): behind the queue, or at once.
LEMMA CloseKeeps ==
    ASSUME NEW k, SocketInv(k), k.handle
    PROVE  LET m == Close(k)
           IN  /\ SocketInv(m) /\ m.bindState = k.bindState
               /\ ClearPart(k) => ClearPart(m)
BY EnqueueClose, CloseHandleKeeps DEF Close

\* clearQueue(): the sends start or are lost, and the close() is made.
LEMMA ClearQueueClears ==
    ASSUME NEW k, SocketInv(k), k.queue # NoQueue, k.bindState = "bound"
    PROVE  LET m == ClearQueue(k)
           IN  SocketInv(m) /\ ClearPart(m)
<1> DEFINE q == k.queue
           First == SelectInSeq(q, LAMBDA item : item = 0)
           Ran(n) == \E i \in DOMAIN q : q[i] = n /\ (First = 0 \/ i < First)
           messages == [n \in 1 .. MaxSends |->
                          IF ~Contains(q, n) THEN k.msg[n]
                          ELSE IF Ran(n) THEN "lookup" ELSE "lost"]
           flushed == [k EXCEPT !.queue = NoQueue, !.msg = messages]
           closed == CloseHandle(flushed)
           m == ClearQueue(k)
<1>1. /\ DOMAIN k = SocketFields /\ q \in Seq(Nat)
      /\ k.handle \in BOOLEAN /\ k.threw \in BOOLEAN /\ k.resolving \in BOOLEAN
  /\ k.stuck \in BOOLEAN
  BY DEF SocketInv, SocketShape
<1>2. m = IF First = 0 THEN flushed
          ELSE [closed EXCEPT !.threw = closed.threw \/ First < Len(q)]
  BY DEF ClearQueue, Sends
<1> HIDE DEF First, m, q
<1>3. \A n \in 1 .. MaxSends : messages[n] # "queued"
  <2>1. \A n \in 1 .. MaxSends : k.msg[n] = "queued" => n \in {q[i] : i \in DOMAIN q}
    BY DEF SocketInv, QueuePart, q
  <2>2. \A n \in 1 .. MaxSends : n \in {q[i] : i \in DOMAIN q} => Contains(q, n)
    BY <1>1 DEF Contains
  <2> QED
    BY <2>1, <2>2
<1>4. DOMAIN messages = 1 .. MaxSends
  OBVIOUS
<1> HIDE DEF messages
<1>5. /\ DOMAIN flushed = SocketFields /\ flushed.handle = k.handle /\ flushed.threw = k.threw
      /\ flushed.stuck = k.stuck
      /\ flushed.resolving = k.resolving /\ flushed.bindState = "bound"
      /\ flushed.queue = NoQueue /\ flushed.msg = messages
  BY <1>1 DEF SocketFields
<1> HIDE DEF flushed
<1>6. SocketInv(flushed) /\ ClearPart(flushed)
  <2>1. SocketShape(flushed)
    BY <1>1, <1>4, <1>5 DEF SocketShape
  <2>2. QueuePart(flushed)
    BY <1>3, <1>5 DEF QueuePart
  <2> QED
    BY <1>5, <2>1, <2>2 DEF SocketInv, OpenPart, ClearPart
<1>7. CASE First = 0
  BY <1>2, <1>6, <1>7 DEF m
<1>8. CASE First # 0
  <2>1. SocketInv(closed) /\ ClearPart(closed) /\ closed.queue = NoQueue
    BY <1>5, <1>6, CloseHandleKeeps
  <2> DEFINE t == closed.threw \/ First < Len(q)
  <2>2. m = [closed EXCEPT !.threw = t] /\ t \in BOOLEAN
    BY <1>2, <1>8
  <2> HIDE DEF closed, t
  <2>3. /\ DOMAIN m = SocketFields /\ m.handle = closed.handle /\ m.stuck = closed.stuck /\ m.threw = t
        /\ m.resolving = closed.resolving /\ m.bindState = closed.bindState
        /\ m.queue = NoQueue /\ m.msg = closed.msg
    BY <2>1, <2>2 DEF SocketInv, SocketShape, SocketFields
  <2>4. SocketShape(m)
    BY <2>1, <2>2, <2>3 DEF SocketInv, SocketShape
  <2>5. QueuePart(m) /\ OpenPart(m)
    BY <2>1, <2>3 DEF SocketInv, QueuePart, OpenPart
  <2>6. closed.bindState = "bound" /\ ~closed.handle
    BY <1>5 DEF closed, CloseHandle, StopReceiving, SocketFields
  <2>7. ClearPart(m)
    BY <2>3, <2>6 DEF ClearPart
  <2> QED
    BY <2>4, <2>5, <2>7 DEF SocketInv, m
<1> QED
  BY <1>7, <1>8

\* An exception in a listener.
LEMMA ThrowKeeps ==
    ASSUME NEW k, SocketInv(k)
    PROVE  LET m == [k EXCEPT !.threw = TRUE]
           IN  SocketInv(m) /\ ClearPart(m) /\ m.bindState = k.bindState
<1> DEFINE m == [k EXCEPT !.threw = TRUE]
<1>1. /\ DOMAIN m = SocketFields /\ m.handle = k.handle /\ m.stuck = k.stuck /\ m.threw = TRUE
      /\ m.resolving = k.resolving /\ m.bindState = k.bindState
      /\ m.queue = k.queue /\ m.msg = k.msg
  BY DEF SocketInv, SocketShape, SocketFields
<1> HIDE DEF m
<1>2. SocketShape(m)
  BY <1>1 DEF SocketInv, SocketShape
<1>3. QueuePart(m) /\ OpenPart(m)
  BY <1>1 DEF SocketInv, QueuePart, OpenPart
<1> QED
  BY <1>1, <1>2, <1>3 DEF SocketInv, ClearPart, m

\* What a listener may do keeps the queue, and makes no socket bound or unbound that is bound.
LEMMA ReactKeeps ==
    ASSUME NEW k, SocketInv(k), k.handle, NEW x \in Reactions,
           k.msg = s.msg
    PROVE  LET m == React(k, x[1], x[2])
           IN  /\ SocketInv(m)
               /\ k.bindState = "bound" => m.bindState = "bound"
               /\ x[1] = "throw" => ClearPart(m)
<1>1. x[1] \in {"nothing", "send", "close", "throw"}
  BY DEF Reactions
<1>2. CASE x[1] = "nothing"
  BY <1>2 DEF React
<1>3. CASE x[1] = "send"
  <2>1. x[2] \in 1 .. MaxSends /\ s.msg[x[2]] = "none"
    BY <1>3 DEF Reactions, Fresh, Sends
  <2>2. React(k, x[1], x[2]) = Send(k, x[2])
    BY <1>3 DEF React
  <2> QED
    BY <1>3, <2>1, <2>2, SendKeeps
<1>4. CASE x[1] = "close"
  <2>1. React(k, x[1], x[2]) = Close(k)
    BY <1>4 DEF React
  <2> QED
    BY <1>4, <2>1, CloseKeeps
<1>5. CASE x[1] = "throw"
  <2>1. React(k, x[1], x[2]) = [k EXCEPT !.threw = TRUE]
    BY <1>5 DEF React
  <2> QED
    BY <1>5, <2>1, ThrowKeeps
<1> QED
  BY <1>1, <1>2, <1>3, <1>4, <1>5

\* startListening(): 'listening' is emitted, and then the queue is cleared.
LEMMA StartListeningKeeps ==
    ASSUME NEW k, SocketInv(k), k.handle, NEW x \in Reactions, k.msg = s.msg
    PROVE  LET m == StartListening(k, x[1], x[2])
           IN  SocketInv(m) /\ ClearPart(m)
<1> DEFINE b == [RecvStart(k) EXCEPT !.bindState = "bound"]
           l == React(b, x[1], x[2])
           m == StartListening(k, x[1], x[2])
<1>1. /\ DOMAIN b = SocketFields /\ b.handle = k.handle /\ b.stuck = k.stuck /\ b.threw = k.threw
      /\ b.resolving = k.resolving /\ b.bindState = "bound"
      /\ b.queue = k.queue /\ b.msg = k.msg
  BY DEF SocketInv, SocketShape, SocketFields, RecvStart
<1>2. m = IF l.queue = NoQueue \/ x[1] = "throw" THEN l ELSE ClearQueue(l)
  BY DEF StartListening
<1> HIDE DEF b, m
<1>3. SocketInv(b)
  <2>1. SocketShape(b)
    BY <1>1 DEF SocketInv, SocketShape
  <2>2. QueuePart(b) /\ OpenPart(b)
    BY <1>1 DEF SocketInv, QueuePart, OpenPart
  <2> QED
    BY <2>1, <2>2 DEF SocketInv
<1>4. SocketInv(l) /\ l.bindState = "bound" /\ (x[1] = "throw" => ClearPart(l))
  BY <1>1, <1>3, ReactKeeps
<1> HIDE DEF l
<1>5. CASE l.queue = NoQueue
  <2>1. ClearPart(l)
    BY <1>4, <1>5 DEF ClearPart
  <2> QED
    BY <1>2, <1>4, <1>5, <2>1 DEF m
<1>6. CASE l.queue # NoQueue /\ x[1] = "throw"
  BY <1>2, <1>4, <1>6 DEF m
<1>7. CASE l.queue # NoQueue /\ x[1] # "throw"
  BY <1>2, <1>4, <1>7, ClearQueueClears DEF m
<1> QED
  BY <1>5, <1>6, <1>7

\* The inductive invariant of a datagram socket.
DatagramInv == SocketInv(s) /\ ClearPart(s)

\* A step that leaves the fields of the queue alone, and no bind waiting for nobody.
LEMMA QuietKeeps ==
    ASSUME DatagramInv, DOMAIN s' = SocketFields, s'.msg = s.msg, s'.queue = s.queue,
           s'.handle = s.handle, s'.stuck = s.stuck, s'.bindState = s.bindState,
           s'.resolving = s.resolving,
           s'.threw = s.threw
    PROVE  DatagramInv'
<1>1. SocketShape(s')
  BY DEF DatagramInv, SocketInv, SocketShape
<1>2. QueuePart(s') /\ OpenPart(s')
  BY DEF DatagramInv, SocketInv, QueuePart, OpenPart
<1>3. ClearPart(s')
  BY DEF DatagramInv, ClearPart
<1> QED
  BY <1>1, <1>2, <1>3 DEF DatagramInv, SocketInv

\* A step of one datagram that does not wait in the queue.
LEMMA MessageKeeps ==
    ASSUME DatagramInv, NEW n \in 1 .. MaxSends, s.msg[n] # "queued", NEW v, v # "queued",
           NEW t \in BOOLEAN, s.threw => t,
           s' = [s EXCEPT !.msg[n] = v, !.threw = t]
    PROVE  DatagramInv'
<1>1. SocketShape(s) /\ QueuePart(s) /\ OpenPart(s) /\ ClearPart(s)
  BY DEF DatagramInv, SocketInv
<1>2. /\ DOMAIN s' = SocketFields /\ s'.handle = s.handle /\ s'.stuck = s.stuck /\ s'.threw = t
      /\ s'.resolving = s.resolving /\ s'.bindState = s.bindState
      /\ s'.queue = s.queue /\ s'.msg = [s.msg EXCEPT ![n] = v]
  BY <1>1 DEF SocketShape, SocketFields
<1>3. SocketShape(s')
  BY <1>1, <1>2 DEF SocketShape
<1>4. QueuePart(s')
  <2>1. \A i \in 1 .. MaxSends : s'.msg[i] = IF i = n THEN v ELSE s.msg[i]
    BY <1>1, <1>2 DEF SocketShape
  <2>2. {i \in 1 .. MaxSends : s'.msg[i] = "queued"} = {i \in 1 .. MaxSends : s.msg[i] = "queued"}
    BY <2>1
  <2> QED
    BY <1>1, <1>2, <2>2 DEF QueuePart
<1>5. OpenPart(s') /\ ClearPart(s')
  BY <1>1, <1>2 DEF OpenPart, ClearPart
<1> QED
  BY <1>3, <1>4, <1>5 DEF DatagramInv, SocketInv

\* The lookup of bind() ends.
LEMMA BindLookupKeeps ==
    ASSUME DatagramInv, BindLookupDone
    PROVE  DatagramInv'
<1>1. SocketInv(s) /\ SocketShape(s) /\ QueuePart(s) /\ OpenPart(s) /\ ClearPart(s)
  BY DEF DatagramInv, SocketInv
<1>2. CASE BindLookupFails
  <2>1. /\ DOMAIN s' = SocketFields /\ s'.handle = s.handle /\ s'.stuck = s.stuck /\ s'.threw = s.threw
        /\ s'.resolving = FALSE /\ s'.bindState = "unbound"
        /\ s'.queue = s.queue /\ s'.msg = s.msg
    BY <1>1, <1>2 DEF BindLookupFails, SocketShape, SocketFields
  <2>2. SocketShape(s')
    BY <1>1, <2>1 DEF SocketShape
  <2>3. QueuePart(s') /\ OpenPart(s') /\ ClearPart(s')
    BY <1>1, <2>1 DEF QueuePart, OpenPart, ClearPart
  <2> QED
    BY <2>2, <2>3 DEF DatagramInv, SocketInv
<1>3. CASE BindLookupLate
  <2>1. /\ DOMAIN s' = SocketFields /\ s'.handle = s.handle /\ s'.stuck = s.stuck /\ s'.threw = s.threw
        /\ s'.resolving = FALSE /\ s'.bindState = s.bindState
        /\ s'.queue = s.queue /\ s'.msg = s.msg /\ ~s.handle
    BY <1>1, <1>3 DEF BindLookupLate, SocketShape, SocketFields
  <2>2. SocketShape(s')
    BY <1>1, <2>1 DEF SocketShape
  <2>3. QueuePart(s') /\ OpenPart(s') /\ ClearPart(s')
    BY <1>1, <2>1 DEF QueuePart, OpenPart, ClearPart
  <2> QED
    BY <2>2, <2>3 DEF DatagramInv, SocketInv
<1>4. CASE BindFails
  <2> DEFINE k == [s EXCEPT !.resolving = FALSE, !.failed = TRUE]
  <2>1. PICK x \in Reactions :
          s' = IF x[1] = "throw" THEN React(k, x[1], x[2])
               ELSE [React(k, x[1], x[2]) EXCEPT !.bindState = "unbound"]
    BY <1>4 DEF BindFails
  <2>2. /\ DOMAIN k = SocketFields /\ k.handle = s.handle /\ k.stuck = s.stuck /\ k.threw = s.threw
        /\ k.resolving = FALSE /\ k.bindState = s.bindState
        /\ k.queue = s.queue /\ k.msg = s.msg
    BY <1>1 DEF SocketShape, SocketFields
  <2> HIDE DEF k
  <2>3. SocketInv(k) /\ k.handle
    <3>1. SocketShape(k)
      BY <1>1, <2>2 DEF SocketShape
    <3>2. QueuePart(k) /\ OpenPart(k)
      BY <1>1, <2>2 DEF QueuePart, OpenPart
    <3> QED
      BY <1>4, <2>2, <3>1, <3>2 DEF SocketInv, BindFails
  <2> DEFINE e == React(k, x[1], x[2])
  <2>4. SocketInv(e) /\ (x[1] = "throw" => ClearPart(e))
    BY <2>2, <2>3, ReactKeeps
  <2> HIDE DEF e
  <2>5. CASE x[1] = "throw"
    BY <2>1, <2>4, <2>5 DEF DatagramInv, e
  <2>6. CASE x[1] # "throw"
    <3>1. s' = [e EXCEPT !.bindState = "unbound"]
      BY <2>1, <2>6 DEF e
    <3>2. /\ DOMAIN s' = SocketFields /\ s'.handle = e.handle /\ s'.stuck = e.stuck /\ s'.threw = e.threw
          /\ s'.resolving = e.resolving /\ s'.bindState = "unbound"
          /\ s'.queue = e.queue /\ s'.msg = e.msg
      BY <2>4, <3>1 DEF SocketInv, SocketShape, SocketFields
    <3>3. SocketShape(s')
      BY <2>4, <3>2 DEF SocketInv, SocketShape
    <3>4. QueuePart(s') /\ OpenPart(s') /\ ClearPart(s')
      BY <2>4, <3>2 DEF SocketInv, QueuePart, OpenPart, ClearPart
    <3> QED
      BY <3>3, <3>4 DEF DatagramInv, SocketInv
  <2> QED
    BY <2>5, <2>6
<1>5. CASE BindSucceeds
  <2> DEFINE k == [s EXCEPT !.resolving = FALSE]
  <2>1. PICK x \in Reactions : s' = StartListening(k, x[1], x[2])
    BY <1>5 DEF BindSucceeds
  <2>2. /\ DOMAIN k = SocketFields /\ k.handle = s.handle /\ k.stuck = s.stuck /\ k.threw = s.threw
        /\ k.resolving = FALSE /\ k.bindState = s.bindState
        /\ k.queue = s.queue /\ k.msg = s.msg
    BY <1>1 DEF SocketShape, SocketFields
  <2> HIDE DEF k
  <2>3. SocketInv(k) /\ k.handle
    <3>1. SocketShape(k)
      BY <1>1, <2>2 DEF SocketShape
    <3>2. QueuePart(k) /\ OpenPart(k)
      BY <1>1, <2>2 DEF QueuePart, OpenPart
    <3> QED
      BY <1>5, <2>2, <3>1, <3>2 DEF SocketInv, BindSucceeds
  <2> QED
    BY <2>1, <2>2, <2>3, StartListeningKeeps DEF DatagramInv
<1>6. CASE BindLookupRefused
  <2>1. /\ DOMAIN s' = SocketFields /\ s'.handle = s.handle /\ s'.threw = s.threw
        /\ s'.resolving = FALSE /\ s'.stuck = TRUE /\ s'.bindState = s.bindState
        /\ s'.queue = s.queue /\ s'.msg = s.msg
    BY <1>1, <1>6 DEF BindLookupRefused, SocketShape, SocketFields
  <2>2. SocketShape(s')
    BY <1>1, <2>1 DEF SocketShape
  <2>3. QueuePart(s') /\ OpenPart(s') /\ ClearPart(s')
    BY <1>1, <2>1 DEF QueuePart, OpenPart, ClearPart
  <2> QED
    BY <2>2, <2>3 DEF DatagramInv, SocketInv
<1> QED
  BY <1>2, <1>3, <1>4, <1>5, <1>6 DEF BindLookupDone

\* The user's calls and the lookups and answers of one datagram.
LEMMA DatagramKeeps ==
    ASSUME DatagramInv, NEW n \in Sends, UserSend(n) \/ SendLookupDone(n) \/ OnSend(n)
    PROVE  DatagramInv'
<1>1. n \in 1 .. MaxSends /\ SocketInv(s) /\ SocketShape(s) /\ ClearPart(s)
  BY DEF Sends, DatagramInv, SocketInv
<1>2. DOMAIN s = SocketFields /\ DOMAIN s.msg = 1 .. MaxSends /\ s.threw \in BOOLEAN
  BY <1>1 DEF SocketShape
<1>3. \A v : [s EXCEPT !.msg[n] = v] = [s EXCEPT !.msg[n] = v, !.threw = s.threw]
  BY <1>2 DEF SocketFields
<1>4. CASE UserSend(n)
  <2>1. s' = Send(s, n) /\ s.handle /\ s.msg[n] = "none"
    BY <1>4 DEF UserSend, Fresh
  <2> QED
    BY <1>1, <2>1, SendKeeps DEF DatagramInv
<1>5. CASE \/ SendLookupRefused(n) \/ SendLookupFails(n) \/ SendLookupLate(n)
           \/ SendStarts(n) \/ OnSend(n)
  <2>1. PICK v \in {"answered", "dropped", "sending", "untold"} : s' = [s EXCEPT !.msg[n] = v]
    BY <1>5 DEF SendLookupRefused, SendLookupFails, SendLookupLate, SendStarts, OnSend, Sending,
                Dispatched
  <2>2. s.msg[n] # "queued"
    BY <1>5 DEF SendLookupRefused, SendLookupFails, SendLookupLate, SendStarts, OnSend
  <2>3. s' = [s EXCEPT !.msg[n] = v, !.threw = s.threw]
    BY <1>3, <2>1
  <2> QED
    BY <1>1, <1>2, <2>2, <2>3, MessageKeeps
<1>6. CASE SendRefused(n)
  <2>1. s.msg[n] # "queued"
    BY <1>6 DEF SendRefused
  <2>2. CASE s' = [s EXCEPT !.msg[n] = "lost", !.threw = TRUE]
    BY <1>1, <2>1, <2>2, MessageKeeps
  <2>3. CASE s' = [s EXCEPT !.msg[n] = "untold"]
    <3>1. s' = [s EXCEPT !.msg[n] = "untold", !.threw = s.threw]
      BY <1>3, <2>3
    <3> QED
      BY <1>1, <1>2, <2>1, <3>1, MessageKeeps
  <2> QED
    BY <1>6, <2>2, <2>3 DEF SendRefused
<1> QED
  BY <1>4, <1>5, <1>6 DEF SendLookupDone

\* Every step keeps the invariant.
LEMMA DatagramNext == DatagramInv /\ [DgramNext]_dgramVars => DatagramInv'
<1> SUFFICES ASSUME DatagramInv, [DgramNext]_dgramVars
             PROVE  DatagramInv'
  OBVIOUS
<1>1. SocketInv(s) /\ DOMAIN s = SocketFields /\ ClearPart(s)
  BY DEF DatagramInv, SocketInv, SocketShape
<1>2. CASE UserBind
  <2>1. CASE s' = Bind(s)
    BY <1>1, <2>1, BindKeeps DEF DatagramInv
  <2>2. CASE s' = BindThrows(s)
    <3>1. /\ DOMAIN s' = SocketFields /\ s'.handle = s.handle /\ s'.threw = s.threw
          /\ s'.resolving = s.resolving /\ s'.stuck = TRUE /\ s'.bindState = "binding"
          /\ s'.queue = s.queue /\ s'.msg = s.msg
      BY <1>1, <2>2 DEF BindThrows, SocketFields
    <3>2. SocketShape(s')
      BY <1>1, <3>1 DEF SocketInv, SocketShape
    <3>3. QueuePart(s') /\ OpenPart(s') /\ ClearPart(s')
      BY <1>1, <3>1 DEF SocketInv, QueuePart, OpenPart, ClearPart
    <3> QED
      BY <3>2, <3>3 DEF DatagramInv, SocketInv
  <2> QED
    BY <1>2, <2>1, <2>2 DEF UserBind
<1>3. CASE UserClose
  <2>1. s' = Close(s) /\ s.handle
    BY <1>3 DEF UserClose
  <2> QED
    BY <1>1, <2>1, CloseKeeps DEF DatagramInv
<1>4. CASE BindLookupDone
  BY <1>4, BindLookupKeeps
<1>5. CASE \E n \in Sends : UserSend(n) \/ SendLookupDone(n) \/ OnSend(n)
  BY <1>5, DatagramKeeps
<1>6. CASE OnRecv \/ UNCHANGED dgramVars
  <2>1. s' = s
    BY <1>6 DEF OnRecv, dgramVars
  <2> QED
    BY <1>1, <2>1, QuietKeeps
<1>7. CASE OnRecvError
  <2>1. s' = [s EXCEPT !.threw = TRUE]
    BY <1>7 DEF OnRecvError
  <2> QED
    BY <1>1, <2>1, ThrowKeeps DEF DatagramInv
<1>8. CASE EmitClose \/ HandleClosed
  <2>1. /\ DOMAIN s' = SocketFields /\ s'.msg = s.msg /\ s'.queue = s.queue
        /\ s'.handle = s.handle /\ s'.stuck = s.stuck /\ s'.bindState = s.bindState
        /\ s'.resolving = s.resolving /\ s'.threw = s.threw
    BY <1>1, <1>8 DEF EmitClose, HandleClosed, SocketFields
  <2> QED
    BY <2>1, QuietKeeps
<1> QED
  BY <1>2, <1>3, <1>4, <1>5, <1>6, <1>7, <1>8 DEF DgramNext

\* What waits in the queue of a datagram socket are exactly the sends nobody has started,
\* and somebody will still clear it unless a listener has thrown or the lookup of a bind never
\* calls back, for any number of sends, binds and arrivals (dgram.js:112-162, 221-240).
THEOREM DatagramsWaitForBind == DgramSpec => []QueueWaitsForBind
<1>1. DgramInit => DatagramInv
  <2> SUFFICES ASSUME DgramInit PROVE DatagramInv
    OBVIOUS
  <2>1. /\ DOMAIN s = SocketFields /\ s.handle = TRUE /\ s.threw = FALSE /\ s.resolving = FALSE
        /\ s.stuck = FALSE
        /\ s.bindState = "unbound" /\ s.queue = NoQueue
        /\ s.msg = [n \in 1 .. MaxSends |-> "none"]
    BY DEF DgramInit, NewSocket, Sends, SocketFields
  <2>2. SocketShape(s)
    BY <2>1 DEF SocketShape
  <2>3. QueuePart(s)
    BY <2>1 DEF QueuePart
  <2> QED
    BY <2>1, <2>2, <2>3 DEF DatagramInv, SocketInv, OpenPart, ClearPart
<1>2. DatagramInv => QueueWaitsForBind
  <2> SUFFICES ASSUME DatagramInv PROVE QueueWaitsForBind
    OBVIOUS
  <2>1. Queued = (IF s.queue = NoQueue THEN {} ELSE Range(s.queue) \ {0})
    BY DEF DatagramInv, SocketInv, QueuePart, Queued, Sends, Range
  <2> QED
    BY <2>1 DEF DatagramInv, SocketInv, OpenPart, ClearPart, QueueWaitsForBind
<1> QED
  BY <1>1, <1>2, DatagramNext, PTL DEF DgramSpec
=============================================================================
