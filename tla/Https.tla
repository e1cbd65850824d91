------------------------------- MODULE Https -------------------------------
(***************************************************************************)
(* One HTTPS request: iotjs_module_https.c, https_client.js and            *)
(* https_incoming.js, between libcurl, the event loop and the program.     *)
(*                                                                         *)
(* ClientRequest is a Writable stream whose chunks libcurl asks for with a *)
(* read callback; C keeps one chunk and its two callbacks.  libcurl runs   *)
(* when a timer or a socket says so, and calls back into JavaScript from   *)
(* within: a listener of the program may then call the request's methods.  *)
(*                                                                         *)
(* The request is one record r, and the functions of the code that call    *)
(* one another are operators from r to r.  A behaviour stops at the first  *)
(* undefined behaviour (r.fault).                                          *)
(***************************************************************************)
EXTENDS Naturals, Sequences, FiniteSets

CONSTANTS MaxWrites,  \* bound: chunks that the program writes
          Polls       \* sockets that libcurl may open for the request

ASSUME HttpsAssumption ==
  MaxWrites \in Nat \ {0} /\ IsFiniteSet(Polls)
  /\ Polls \cap {"timeout", "socket_timeout", "async"} = {}

VARIABLES r, written, wire, use
vars == <<r, written, wire, use>>

Chunks == 1 .. MaxWrites
Timers == {"timeout", "socket_timeout", "async"}
Handles == Timers \cup Polls

\* iotjs_https_create(): three timers, no socket yet.  A GET (DELETE, HEAD,
\* OPTIONS, TRACE) has no body to read: its stream counts as ended.
Create(mode) ==
  [mode |-> mode,            \* "get" | "send" (POST, PUT, CONNECT)
   stream_ended |-> mode = "get",
   is_stream_writable |-> FALSE, request_done |-> FALSE,
   data_to_read |-> FALSE,   \* a chunk is there for libcurl
   copied |-> FALSE,         \* cur_read_index is at its end
   chunk |-> 0,              \* read_chunk, with its callback and onwrite
   to_destroy |-> FALSE,     \* to_destroy_read_onwrite
   async |-> FALSE,          \* the timer async_read_onwrite is running
   hnd |-> [x \in Handles |-> IF x \in Timers THEN "open" ELSE "none"],
   closing_handles |-> 3,
   released |-> 0,           \* how often jthis_native was destroyed
   timeout |-> "unset",      \* setTimeout(): "unset" | "abort" | "callback"
   cleaned |-> FALSE,
   curl |-> "run",           \* "run" | "paused" | "failed" | "done" | "gone"
   uploaded |-> FALSE,       \* the read callback has returned 0
   ctx |-> "loop",           \* "loop" | "curl" | "js": a listener within curl
   buffer |-> <<>>, writing |-> 0, ready |-> FALSE, ending |-> FALSE,
   ended |-> FALSE, finishing |-> FALSE, tick |-> FALSE,  \* Writable
   incoming |-> [started |-> FALSE,      \* IncomingMessage: its header is complete
                 completed |-> "no",     \* "yes", or "atEnd": the transfer's end completes it
                 unread |-> FALSE],      \* data that the program has not read yet
   closes |-> [emitted |-> 0, due |-> 0],   \* 'close' events, and those that wait for 'end'
   aborted |-> FALSE, errors |-> 0,
   acks |-> [k \in Chunks |-> 0],   \* calls of each chunk's callback
   fault |-> "none"]

Fault(q, f) == [q EXCEPT !.fault = IF @ = "none" THEN f ELSE @]

\* createRequest() makes no struct if libcurl cannot be set up, and sendRequest() uses it.
Init == /\ \E mode \in {"get", "send"} :
             \/ r = Create(mode) /\ use = {}
             \/ r = Fault(Create(mode), "null") /\ use = {"noCurl"}
        /\ written = 0 /\ wire = <<>>
----------------------------------------------------------------------------
\* curl_easy_pause(CURLPAUSE_CONT), and the timer that lets libcurl run.
Continue(q) ==
  IF q.curl = "gone" THEN Fault(q, "null")
  ELSE [q EXCEPT !.curl = IF @ = "paused" THEN "run" ELSE @]

\* iotjs_https_data_to_write(): replaces the chunk that C keeps.
DataToWrite(q, k) ==
  LET d == [q EXCEPT !.chunk = k, !.data_to_read = TRUE, !.to_destroy = TRUE]
  IN  IF q.request_done THEN [d EXCEPT !.async = (q.hnd["async"] = "open")]
      ELSE IF q.is_stream_writable THEN Continue(d) ELSE d

\* emitFinish() of the stream: onFinish() follows, see Settled.
EmitFinish(q) ==
  IF q.ended THEN q ELSE [q EXCEPT !.ended = TRUE, !.finishing = TRUE]

\* writeBuffered() and doWrite() of the stream.
WriteBuffered(q) ==
  IF q.writing # 0 THEN q
  ELSE IF q.buffer # <<>>
       THEN DataToWrite([q EXCEPT !.buffer = Tail(@), !.writing = Head(q.buffer)],
                        Head(q.buffer))
       ELSE IF q.ending THEN EmitFinish(q) ELSE q

\* The chunk's callback and the stream's onwrite.
CallReadOnwrite(q) ==
  WriteBuffered([q EXCEPT !.acks[q.chunk] = @ + 1, !.writing = 0])

\* A response that was cut while the program has not read all that came of it.
CutUnread(q) == q.incoming.started /\ q.incoming.completed = "no" /\ q.incoming.unread

\* cbOnEnd() and cbOnClosed() of https_incoming.js.  parser.finish() completes a response that
\* lasts until the transfer's end.  One that was cut is given its end: 'close' follows 'end',
\* which comes when the rest is read.  A request without a response gets its error.
OnClosed(q) ==
  IF CutUnread(q)
  THEN [q EXCEPT !.closes.due = @ + 1]
  ELSE [q EXCEPT !.closes.emitted = @ + 1,
                 !.errors = IF q.incoming.started THEN @ ELSE @ + 1]

\* uv_close() of the handles in S that are open.
CloseHandles(q, S) ==
  [q EXCEPT !.hnd = [x \in Handles |-> IF x \in S /\ q.hnd[x] = "open"
                                       THEN "closing" ELSE q.hnd[x]],
            !.async = IF "async" \in S THEN FALSE ELSE @,
            !.timeout = IF "socket_timeout" \in S THEN "unset" ELSE @]

\* 'finish' of the stream once the request is cleaned up.
FinishCleaned(q) ==
  LET e == [q EXCEPT !.finishing = FALSE, !.stream_ended = TRUE]
  IN  IF ~q.finishing THEN q
      ELSE IF q.request_done THEN Fault(e, "twice")
      ELSE IF q.is_stream_writable THEN Continue(e) ELSE e

\* iotjs_https_cleanup(): libcurl's handles go, a chunk that C still keeps
\* is acknowledged, once more if it was.  A second time, or from within
\* libcurl, it is undefined behaviour.
Cleanup(q) ==
  LET c == [OnClosed(CloseHandles(q, Handles)) EXCEPT !.cleaned = TRUE, !.curl = "gone"]
      a == FinishCleaned(CallReadOnwrite(c))
  IN  IF q.cleaned THEN Fault(q, "twice")
      ELSE IF q.ctx # "loop" THEN Fault(q, "reentrant")
      ELSE IF c.to_destroy THEN [a EXCEPT !.to_destroy = FALSE, !.data_to_read = FALSE]
      ELSE c

\* Mutant of FinishRequest: libcurl stays paused.
FinishRequestPaused(q) ==
  IF q.request_done THEN Cleanup([q EXCEPT !.stream_ended = TRUE])
  ELSE [q EXCEPT !.stream_ended = TRUE]

\* iotjs_https_finish_request(): the stream has emitted 'finish'.
FinishRequest(q) ==
  LET e == [q EXCEPT !.stream_ended = TRUE]
  IN  IF q.request_done THEN Cleanup(e)
      ELSE IF q.is_stream_writable THEN Continue(e) ELSE e

Settled(q) ==
  IF q.finishing THEN FinishRequest([q EXCEPT !.finishing = FALSE]) ELSE q

\* Mutant of CheckDone: the request is cleaned up while the stream is open.
CheckDoneCleans(q) == Cleanup(q)

\* iotjs_https_check_done() for the message CURLMSG_DONE; the result of the
\* transfer is not looked at.
CheckDone(q) ==
  IF q.stream_ended THEN Cleanup(q)
  ELSE [q EXCEPT !.request_done = TRUE, !.curl = "done", !.async = @ \/ q.to_destroy]

\* Mutant of ReadCallback: data_to_read is not reset after the chunk.
ReadCallbackAgain(q) ==
  LET w == IF q.is_stream_writable THEN q
           ELSE Settled(WriteBuffered([q EXCEPT !.is_stream_writable = TRUE,
                                                !.ready = TRUE]))
      s == IF w.data_to_read THEN [w EXCEPT !.copied = FALSE, !.async = TRUE] ELSE w
  IN  IF w.data_to_read /\ ~w.copied THEN [w EXCEPT !.copied = TRUE]
      ELSE IF s.stream_ended THEN [s EXCEPT !.uploaded = TRUE]
      ELSE [s EXCEPT !.curl = "paused"]

\* iotjs_https_curl_read_callback(): libcurl asks for data to send.  The
\* first call makes the stream ready.
ReadCallback(q) ==
  LET w == IF q.is_stream_writable THEN q
           ELSE Settled(WriteBuffered([q EXCEPT !.is_stream_writable = TRUE,
                                                !.ready = TRUE]))
      s == IF w.data_to_read
           THEN [w EXCEPT !.data_to_read = FALSE, !.copied = FALSE, !.async = TRUE]
           ELSE w
  IN  IF w.data_to_read /\ ~w.copied THEN [w EXCEPT !.copied = TRUE]
      ELSE IF s.stream_ended THEN [s EXCEPT !.uploaded = TRUE]
      ELSE [s EXCEPT !.curl = "paused"]
----------------------------------------------------------------------------
Alive == r.fault = "none"
\* The program runs: in the event loop or in a listener that curl called.
InJs == Alive /\ r.ctx \in {"loop", "js"}
\* JavaScript has returned: the ticks that it queued have run.
Returned == Alive /\ ~r.tick
\* The event loop makes its next call.
Turn == Returned /\ r.ctx = "loop"

Write ==
  /\ InJs /\ ~r.ended /\ written < MaxWrites
  /\ written' = written + 1
  /\ r' = IF ~r.ready \/ r.writing # 0 \/ r.buffer # <<>>
          THEN [r EXCEPT !.buffer = Append(@, written + 1)]
          ELSE DataToWrite([r EXCEPT !.writing = written + 1], written + 1)
  /\ use' = IF r.ending THEN use \cup {"afterEnd"} ELSE use
  /\ UNCHANGED wire

End ==
  /\ InJs /\ ~r.ending
  /\ r' = [r EXCEPT !.ending = TRUE, !.tick = (r.writing = 0 /\ r.buffer = <<>>)]
  /\ UNCHANGED <<written, wire, use>>

\* The tick of end(), run when JavaScript returns to the loop or to libcurl.
FinishTick ==
  /\ InJs /\ r.tick
  /\ r' = Settled(EmitFinish([r EXCEPT !.tick = FALSE]))
  /\ UNCHANGED <<written, wire, use>>

\* ClientRequest.abort(), called by the program or for a timeout.
AbortRequest ==
  /\ r' = [Cleanup(r) EXCEPT !.aborted = TRUE, !.timeout = "unset"]
  /\ use' = use \cup {t \in {"late", "inCurl", "unfinished"} :
                        \/ t = "late" /\ r.cleaned
                        \/ t = "inCurl" /\ r.ctx # "loop"
                        \/ t = "unfinished" /\ r.mode = "send" /\ ~r.ended}
  /\ UNCHANGED <<written, wire>>

Abort == InJs /\ ~r.aborted /\ AbortRequest

\* setTimeout(), with a callback of the program or without.
SetTimeout ==
  /\ InJs /\ r.timeout = "unset" /\ r.hnd["socket_timeout"] = "open"
  /\ \E to \in {"abort", "callback"} : r' = [r EXCEPT !.timeout = to]
  /\ UNCHANGED <<written, wire, use>>

\* No byte was transferred for the whole period.
UvSocketTimeout ==
  /\ Turn /\ r.timeout # "unset"
  /\ IF ~r.request_done /\ r.timeout = "abort" /\ ~r.aborted
     THEN AbortRequest
     ELSE r' = [r EXCEPT !.timeout = "unset"] /\ UNCHANGED <<written, wire, use>>

\* The timer that acknowledges a chunk in a turn of its own.
UvReadOnwrite ==
  /\ Turn /\ r.async
  /\ r' = Settled(CallReadOnwrite([r EXCEPT !.async = FALSE]))
  /\ UNCHANGED <<written, wire, use>>

\* A timer or a socket lets libcurl run: curl_multi_socket_action().
CurlRuns ==
  /\ Turn /\ r.curl \in {"run", "paused"}
  /\ r' = [r EXCEPT !.ctx = "curl"]
  /\ UNCHANGED <<written, wire, use>>

InCurl == Returned /\ r.ctx # "loop" /\ r.curl \in {"run", "paused"}

\* Mutant of CurlSocket: closing_handles does not count the socket.
CurlSocketUncounted(p) ==
  /\ InCurl
  /\ \/ r.hnd[p] = "none" /\ r' = [r EXCEPT !.hnd[p] = "open"]
     \/ r.hnd[p] = "open" /\ r' = CloseHandles(r, {p})
  /\ UNCHANGED <<written, wire, use>>

\* libcurl polls a new socket, or has closed one.
CurlSocket(p) ==
  /\ InCurl
  /\ \/ /\ r.hnd[p] = "none"
        /\ r' = [r EXCEPT !.hnd[p] = "open", !.closing_handles = @ + 1]
     \/ /\ r.hnd[p] = "open"
        /\ r' = CloseHandles(r, {p})
  /\ UNCHANGED <<written, wire, use>>

\* iotjs_https_initialize_curl_opts(): only POST, PUT and CONNECT get a read
\* callback.
HasBody(q) == q.mode = "send"

CurlRead ==
  /\ InCurl /\ HasBody(r) /\ r.curl = "run" /\ ~r.uploaded
  /\ r' = [ReadCallback(r) EXCEPT !.ctx = "curl"]
  /\ wire' = IF r'.copied /\ ~r.copied THEN Append(wire, r'.chunk) ELSE wire
  /\ UNCHANGED <<written, use>>

\* iotjs_https_curl_write_callback(), cbOnData() and the parser: the header
\* is complete, the message is complete, or it is not HTTP: libcurl is told.
\* The program may listen to 'data', or leave it unread.
Completes == IF r.incoming.completed = "atEnd" THEN {"atEnd"}
             ELSE IF r.incoming.started THEN {"no", "yes"} ELSE {"no", "atEnd", "yes"}
CurlWrite ==
  /\ InCurl /\ r.incoming.completed # "yes"
  /\ \/ \E c \in Completes, u \in {r.incoming.unread, TRUE} :
          r' = [r EXCEPT !.ctx = "js",
                         !.incoming = [started |-> TRUE, completed |-> c, unread |-> u]]
     \/ r' = [r EXCEPT !.ctx = "js", !.errors = @ + 1, !.curl = "failed"]
  /\ UNCHANGED <<written, wire, use>>

\* The program reads what there is of the response.
ReadRest ==
  /\ InJs /\ r.incoming.unread
  /\ r' = [r EXCEPT !.incoming.unread = FALSE,
                    !.closes = [emitted |-> @.emitted + @.due, due |-> 0]]
  /\ UNCHANGED <<written, wire, use>>

\* libcurl returns with more to do: it waits, or was paused.
CurlWaits ==
  /\ InCurl
  /\ r' = [r EXCEPT !.ctx = "loop"]
  /\ UNCHANGED <<written, wire, use>>

\* libcurl returns with the transfer over, well or not, at any time.
CurlDone ==
  /\ Returned /\ r.ctx # "loop" /\ r.curl \in {"run", "paused", "failed"}
  /\ r' = CheckDone([r EXCEPT !.ctx = "loop"])
  /\ UNCHANGED <<written, wire, use>>

\* iotjs_https_uv_close_callback()
UvClosed(x) ==
  /\ Turn /\ r.hnd[x] = "closing"
  /\ r' = [r EXCEPT !.hnd[x] = "closed", !.closing_handles = @ - 1,
                    !.released = IF r.closing_handles <= 1 THEN @ + 1 ELSE @]
  /\ UNCHANGED <<written, wire, use>>

Next ==
  \/ Write \/ End \/ FinishTick \/ Abort \/ SetTimeout \/ ReadRest
  \/ UvSocketTimeout \/ UvReadOnwrite
  \/ CurlRuns \/ CurlRead \/ CurlWrite \/ CurlWaits \/ CurlDone
  \/ \E p \in Polls : CurlSocket(p)
  \/ \E x \in Handles : UvClosed(x)

Spec == Init /\ [][Next]_vars

\* Ticks and timers run and handles close.  libcurl runs as long as it has
\* something to do, asks for data again and again until it has been told
\* that there is no more, and then, or when it was told that the response is
\* not HTTP, the transfer is over some time.
CurlOver == CurlDone /\ (r.curl = "failed" \/ r.uploaded \/ ~HasBody(r))
FairSpec ==
  /\ Spec
  /\ WF_vars(FinishTick) /\ SF_vars(UvReadOnwrite)
  /\ \A x \in Handles : SF_vars(UvClosed(x))
  /\ WF_vars(CurlRuns /\ r.curl = "run") /\ WF_vars(CurlWaits)
  /\ SF_vars(CurlRead) /\ SF_vars(CurlOver)
----------------------------------------------------------------------------
\* libcurl's handles and the request's memory are used after their end only
\* when the program (or a timeout) aborts a request that is over, aborts from
\* a listener that libcurl called, or aborts before the stream has finished,
\* or when the program writes after end(), which the stream accepts for a tick, or
\* when libcurl could not be set up at all.
FaultHasCause == r.fault # "none" => use # {}

\* The chunks reach libcurl in the order of write(), each once; a callback
\* is not called before its chunk was taken, unless the request was over,
\* and called again only by the cleanup or for a transfer that is over
\* (iotjs_module_https.c:183, 439).
ChunksInOrder ==
  /\ \A n \in 1 .. Len(wire) : wire[n] = n
  /\ \A k \in Chunks : r.acks[k] > 0 /\ ~r.request_done /\ ~r.cleaned => k <= Len(wire)
  /\ \A k \in Chunks : r.acks[k] <= 1 \/ r.request_done \/ (r.acks[k] = 2 /\ r.cleaned)

\* closing_handles counts the handles that are not closed yet: the request
\* is let go once, and only when the last of them is.
HandlesCounted ==
  /\ r.closing_handles = Cardinality({x \in Handles : r.hnd[x] \in {"open", "closing"}})
  /\ r.released = IF \A x \in Handles : r.hnd[x] \in {"none", "closed"} THEN 1 ELSE 0

\* A request that is cleaned up emits 'close' once: at once, or when the program has read
\* the rest of a response that was cut; one that got no response reports an error.
ClosedOnce ==
  /\ r.closes.emitted + r.closes.due = IF r.cleaned THEN 1 ELSE 0
  /\ r.closes.due > 0 => CutUnread(r)
  /\ r.cleaned /\ ~r.incoming.started => r.errors > 0

\* The struct and the JavaScript request come to their end once: the handles are counted
\* exactly, and 'close' is emitted once for the clean-up and kept back only as long as the
\* program leaves a cut response unread (iotjs_module_https.c:155-197, 579-588,
\* https_incoming.js:169-197).
ReleasedOnce == HandlesCounted /\ ClosedOnce

\* The transfer was over before libcurl asked for the first chunk (no
\* connection, say): the stream is never made ready and keeps its chunks.
NeverReady == r.request_done /\ ~r.ready /\ r.buffer # <<>>

\* No wake-up is lost between the stream and libcurl: a request that the
\* program has ended is sent to its end and its memory is let go, but for a
\* transfer that was over before libcurl asked for the first chunk.  Each of these is for
\* good, so that this says that the one leads to the other.
EndLeadsToRelease ==
  []<>(r.ending /\ r.mode = "send" =>
         r.released = 1 \/ r.aborted \/ r.fault # "none" \/ NeverReady)

\* A request that the program has ended is told that its socket is closed.
EndLeadsToClose ==
  (r.ending /\ r.mode = "send") ~> (r.closes.emitted = 1 \/ r.aborted \/ r.fault # "none")

============================================================================
