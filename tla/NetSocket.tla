----------------------------- MODULE NetSocket -----------------------------
(***************************************************************************)
(* A net.Socket (js/net.js) on its TCP handle (iotjs_module_tcp.c), from   *)
(* connect() or an accepted connection to 'close', and the net.Server      *)
(* that accepted it.                                                       *)
(*                                                                         *)
(* The functions of net.js call each other within one turn, so the socket  *)
(* is a record s and each function an operator from socket to socket.  Of  *)
(* the Duplex it inherits only what net.js looks at is kept (the streams   *)
(* have modules of their own).  Listeners of the user are the User actions *)
(* of the same turn.  The user listens to 'error', connects a socket at    *)
(* most once, sets no timeout on a destroyed one, and after a listen()     *)
(* that failed closes the server before listening again.                   *)
(***************************************************************************)
EXTENDS Integers, Sequences

CONSTANTS
    MaxWrites,       \* bound: chunks the user writes
    MaxReads,        \* bound: chunks that arrive
    MaxServerCalls,  \* bound: calls of listen() and close() of the server
    MaxOthers        \* bound: other connections of the server

ASSUME NetAssumption ==
    /\ MaxWrites \in Nat
    /\ MaxReads \in Nat
    /\ MaxServerCalls \in Nat
    /\ MaxOthers \in Nat

VARIABLES
    s,        \* the socket
    phase,    \* callback, timeout (a listener of 'timeout') and ticks:
              \* JavaScript runs; idle: the uv loop
    batch,    \* what is left of the ticks that run
    env       \* bounds: chunks written and read, calls of the server; history: see NetInit

netVars == <<s, phase, batch, env>>

\* new Server(): its _handle is none, open, or failed (closed, but not null); its
\* _socketCount; history: 'close' was emitted since the last close().
NewServer == [handle |-> "none", count |-> 0, told |-> FALSE]

\* new Socket(options).
NewSocket(allowHalfOpen) ==
    [allowHalfOpen |-> allowHalfOpen,
     handle |-> "none",        \* _handle and its uv handle: none, open, closing, closed
     connecting |-> FALSE, connected |-> FALSE,
     writable |-> TRUE, readable |-> TRUE,
     destroyed |-> FALSE, errored |-> FALSE,
     timer |-> FALSE,          \* _timer
     ready |-> FALSE, buffer |-> 0, writing |-> FALSE, ending |-> FALSE, ended |-> FALSE,
     onFinish |-> FALSE,       \* destroy() waits for 'finish'
     rbuffer |-> FALSE, eof |-> FALSE, endEmitted |-> FALSE,
     reading |-> FALSE,        \* uv_read_start
     requests |-> {},          \* pending: lookup, connect, write, shutdown
     ticks |-> <<>>,           \* the nextTick queue
     owned |-> FALSE,          \* _server is set
     server |-> NewServer,
     thrown |-> FALSE]         \* a property of null was read

IsOpen(k) == k.handle = "open"

-----------------------------------------------------------------------------
(***************************************************************************)
(* The functions of net.js, from a socket k to the socket they leave.      *)
(***************************************************************************)

\* process.nextTick().
Later(k, t) == [k EXCEPT !.ticks = Append(@, t)]

\* resetSocketTimeout().
ResetSocketTimeout(k) == IF k.destroyed THEN k ELSE [k EXCEPT !.timer = TRUE]

\* Writable.prototype.end() without a chunk.
EndWritable(k) ==
    LET e == [k EXCEPT !.ending = TRUE]
    IN  IF k.ending \/ k.writing \/ k.buffer > 0 THEN e ELSE Later(e, "finish")

\* Socket.prototype.end().
SocketEnd(k) == [EndWritable(k) EXCEPT !.writable = FALSE]

\* Server.prototype._emitCloseIfDrained().
EmitCloseIfDrained(k) ==
    IF k.server.handle # "none" \/ k.server.count > 0 THEN k ELSE Later(k, "serverClose")

\* close(): the uv handle starts to close, and reads no more; the server counts.
Close(k) ==
    LET c == [k EXCEPT !.handle = "closing", !.destroyed = TRUE, !.reading = FALSE]
    IN  IF k.owned
        THEN EmitCloseIfDrained([c EXCEPT !.owned = FALSE, !.server.count = @ - 1])
        ELSE c

\* Mutant of Destroy: it does not wait for 'finish'.
DestroyNow(k) ==
    IF k.destroyed \/ ~IsOpen(k) THEN k
    ELSE Close([(IF k.writable THEN SocketEnd(k) ELSE k) EXCEPT !.timer = FALSE])

\* Mutant of Destroy: nobody comes back when 'finish' is emitted.
DestroyOnce(k) ==
    IF k.destroyed THEN k
    ELSE LET e == [(IF k.writable THEN SocketEnd(k) ELSE k) EXCEPT !.timer = FALSE]
         IN  IF e.ended /\ IsOpen(e) THEN Close(e) ELSE e

\* Socket.prototype.destroy().
Destroy(k) ==
    IF k.destroyed THEN k
    ELSE LET e == [(IF k.writable THEN SocketEnd(k) ELSE k) EXCEPT !.timer = FALSE]
         IN  IF e.ended /\ IsOpen(e) THEN Close(e) ELSE [e EXCEPT !.onFinish = TRUE]

\* Socket.prototype.destroySoon(); no stream ever has the property finished it tests.
DestroySoon(k) == [(IF k.writable THEN SocketEnd(k) ELSE k) EXCEPT !.onFinish = TRUE]

\* onSocketFinish(): uv_shutdown refuses a handle that has not begun to connect.
OnSocketFinish(k) ==
    IF ~k.readable \/ k.eof \/ ~IsOpen(k) THEN Destroy(k)
    ELSE IF k.connected \/ "connect" \in k.requests
    THEN [k EXCEPT !.requests = @ \union {"shutdown"}]
    ELSE k

\* emitFinish(): onSocketFinish() and whoever else waits for 'finish'.
EmitFinish(k) ==
    IF k.ended THEN k
    ELSE LET f == OnSocketFinish([k EXCEPT !.ended = TRUE, !.onFinish = FALSE])
         IN  IF k.onFinish THEN Destroy(f) ELSE f

\* doWrite() and Socket.prototype._write().
DoWrite(k) ==
    LET w == [k EXCEPT !.writing = TRUE]
    IN  IF k.errored THEN Later(w, "afterWrite")
        ELSE IF ~IsOpen(k) THEN [w EXCEPT !.thrown = TRUE]
        ELSE [ResetSocketTimeout(w) EXCEPT !.requests = @ \union {"write"}]

\* writeOrBuffer().
WriteOrBuffer(k) ==
    IF ~k.ready \/ k.writing \/ k.buffer > 0 THEN [k EXCEPT !.buffer = @ + 1] ELSE DoWrite(k)

\* writeBuffered().
WriteBuffered(k) ==
    IF k.writing THEN k
    ELSE IF k.buffer > 0 THEN DoWrite([k EXCEPT !.buffer = @ - 1])
    ELSE IF k.ending THEN EmitFinish(k) ELSE k

\* _onwrite(), whatever the status of the write.
OnWrite(k) == WriteBuffered([k EXCEPT !.writing = FALSE])

ReadyToWrite(k) == WriteBuffered([k EXCEPT !.ready = TRUE])

\* emitError(): end('') of the Duplex, which leaves state.writable as it is.
EmitError(k) ==
    LET e == [k EXCEPT !.errored = TRUE]
        w == IF e.ended THEN e ELSE WriteOrBuffer(e)
    IN  ReadyToWrite(IF k.ending THEN w ELSE [EndWritable(w) EXCEPT !.onFinish = TRUE])

\* maybeDestroy().
MaybeDestroy(k) == IF k.connecting \/ k.writable \/ k.readable THEN k ELSE Destroy(k)

\* onSocketEnd(), on 'end', which is emitted once.
OnSocketEnd(k) ==
    IF k.endEmitted THEN k
    ELSE LET e == MaybeDestroy([k EXCEPT !.endEmitted = TRUE])
         IN  IF k.allowHalfOpen THEN e ELSE DestroySoon(e)

\* onSocketConnect().
OnSocketConnect(k) ==
    Later(ReadyToWrite(ResetSocketTimeout([k EXCEPT !.connecting = FALSE, !.connected = TRUE])),
          "readStart")

\* afterConnect() of connect().
AfterConnect(k, ok) ==
    LET c == [k EXCEPT !.connecting = FALSE]
    IN  IF k.destroyed THEN c
        ELSE IF ok THEN OnSocketConnect(c) ELSE EmitError(Destroy(c))

\* onread() at the end of the data.  What is buffered keeps the socket readable.
OnReadEof(k) ==
    LET r == [ResetSocketTimeout(k) EXCEPT !.eof = TRUE, !.reading = FALSE]
    IN  IF r.rbuffer THEN r ELSE MaybeDestroy([OnSocketEnd(r) EXCEPT !.readable = FALSE])

\* A tick of the socket.
RunTick(k, t) ==
    CASE t = "finish" -> EmitFinish(k)
      [] t = "afterWrite" -> OnWrite(k)
      [] t = "readStart" -> IF IsOpen(k) THEN [k EXCEPT !.reading = TRUE]
                                         ELSE [k EXCEPT !.thrown = TRUE]
      [] t = "lookupError" -> Destroy(k)
      [] t = "serverClose" -> [k EXCEPT !.server.told = TRUE]

-----------------------------------------------------------------------------
\* onconnection(): a new socket of a server that listens.
Accepted(half) ==
    OnSocketConnect([NewSocket(half) EXCEPT !.handle = "open", !.owned = TRUE,
                         !.server = [NewServer EXCEPT !.handle = "open", !.count = 1]])

\* A client's socket, or the first one a server accepts.
NetInit ==
    /\ \E half \in BOOLEAN : s \in {NewSocket(half), Accepted(half)}
    /\ phase = "callback"
    /\ batch = <<>>
    /\ env = [writes |-> 0, reads |-> 0, calls |-> 0,
              serves |-> s.owned,       \* there is a server
              others |-> 0,             \* its other sockets that are open
              again |-> FALSE,          \* listen() was called once more
              asked |-> s.connected,    \* connect() was called
              answered |-> s.connected, \* 'connect' or 'error' was emitted since
              dropped |-> FALSE,        \* connect() began no lookup
              late |-> FALSE,           \* the user wrote after end()
              early |-> FALSE,          \* the user ended the socket before it was connected
              kill |-> FALSE]           \* the user called destroy(), the socket had a handle

(***************************************************************************)
(* The user.                                                               *)
(***************************************************************************)

InUserCode == phase # "idle" /\ ~s.thrown

\* GetAddrInfo of the DNS binding.  Nobody answers what it refuses.
GetAddrInfo(k, refused) == IF refused THEN k ELSE [k EXCEPT !.requests = @ \union {"lookup"}]

\* connect().  The lookup may be refused, or the port be invalid and throw.
Connect ==
    /\ InUserCode
    /\ ~env.asked
    /\ ~s.connected
    /\ \E refused \in BOOLEAN :
          /\ s' = GetAddrInfo([ResetSocketTimeout(s) EXCEPT !.handle = "open",
                                                            !.connecting = TRUE], refused)
          /\ env' = [env EXCEPT !.asked = TRUE, !.dropped = refused]
    /\ UNCHANGED <<phase, batch>>

\* write(data).  After 'finish' it only emits 'error'.
Write ==
    /\ InUserCode
    /\ env.writes < MaxWrites
    /\ ~s.ended
    /\ s' = WriteOrBuffer(s)
    /\ env' = [env EXCEPT !.writes = @ + 1, !.late = @ \/ s.ending]
    /\ UNCHANGED <<phase, batch>>

\* end().
End ==
    /\ InUserCode
    /\ s' = SocketEnd(s)
    /\ env' = [env EXCEPT !.early = @ \/ ~s.connected]
    /\ UNCHANGED <<phase, batch>>

\* destroy().
UserDestroy ==
    /\ InUserCode
    /\ s' = Destroy(s)
    /\ env' = [env EXCEPT !.kill = @ \/ s.handle # "none", !.early = @ \/ ~s.connected]
    /\ UNCHANGED <<phase, batch>>

\* setTimeout(), on or off.
SetTimeout ==
    /\ InUserCode
    /\ ~s.destroyed
    /\ \E on \in BOOLEAN : s' = [s EXCEPT !.timer = on]
    /\ UNCHANGED <<phase, batch, env>>

\* read() or resume() takes what is buffered, and 'end' may follow.
UserRead ==
    /\ InUserCode
    /\ s.rbuffer
    /\ LET r == [s EXCEPT !.rbuffer = FALSE]
       IN  s' = IF s.eof THEN OnSocketEnd(r) ELSE r
    /\ UNCHANGED <<phase, batch, env>>

\* A call of the server.
ServerCall ==
    /\ InUserCode
    /\ env.serves
    /\ env.calls < MaxServerCalls
    /\ UNCHANGED <<phase, batch>>

\* Bind and Listen of the TCP binding: whether they succeed, and never on a handle that
\* listens already.
Bind == IF s.server.handle = "open" THEN {FALSE} ELSE BOOLEAN
TcpListen(bound) == IF bound THEN BOOLEAN ELSE {FALSE}

\* Server.prototype.listen(): a handle that fails is closed, but stays in _handle.  The
\* tick that emits 'listening' changes nothing.
Listen ==
    /\ ServerCall
    /\ s.server.handle # "failed"
    /\ \E bound \in Bind : \E ok \in TcpListen(bound) :
          s' = [s EXCEPT !.server.handle = IF ok THEN "open" ELSE "failed"]
    /\ env' = [env EXCEPT !.calls = @ + 1, !.again = TRUE]

\* Server.prototype.close().
ServerClose ==
    /\ ServerCall
    /\ s' = EmitCloseIfDrained([s EXCEPT !.server.handle = "none", !.server.told = FALSE])
    /\ env' = [env EXCEPT !.calls = @ + 1]

\* close() of another socket of the server.
OtherCloses ==
    /\ InUserCode
    /\ env.others > 0
    /\ s' = EmitCloseIfDrained([s EXCEPT !.server.count = @ - 1])
    /\ env' = [env EXCEPT !.others = @ - 1]
    /\ UNCHANGED <<phase, batch>>

-----------------------------------------------------------------------------
(***************************************************************************)
(* The turns of the event loop.                                            *)
(***************************************************************************)

\* The callback is through: its ticks follow.
BeginTicks ==
    /\ phase = "callback"
    /\ ~s.thrown
    /\ phase' = "ticks"
    /\ batch' = s.ticks
    /\ s' = [s EXCEPT !.ticks = <<>>]
    /\ UNCHANGED env

NextTick ==
    /\ phase = "ticks"
    /\ ~s.thrown
    /\ batch # <<>>
    /\ s' = RunTick(s, Head(batch))
    /\ batch' = Tail(batch)
    /\ env' = [env EXCEPT !.answered = @ \/ Head(batch) = "lookupError"]
    /\ UNCHANGED phase

EndTurn ==
    /\ phase = "ticks"
    /\ batch = <<>>
    /\ ~s.thrown
    /\ phase' = "idle"
    /\ UNCHANGED <<s, batch, env>>

\* The loop runs ticks that ticks have left.
LoopTicks ==
    /\ phase = "idle"
    /\ s.ticks # <<>>
    /\ phase' = "ticks"
    /\ batch' = s.ticks
    /\ s' = [s EXCEPT !.ticks = <<>>]
    /\ UNCHANGED env

\* A callback of something else.
OtherEvent ==
    /\ phase = "idle"
    /\ phase' = "callback"
    /\ UNCHANGED <<s, batch, env>>

\* A callback of this socket leaves the socket k.
Callback(k) ==
    /\ phase = "idle"
    /\ phase' = "callback"
    /\ s' = k
    /\ UNCHANGED batch

\* The wrap of request r is released when its callback has run.
Without(r) == [s EXCEPT !.requests = @ \ {r}]

\* Mutant of ConnectTo: what uv_tcp_connect returns is ignored.
ConnectToIgnored(k, accepted) ==
    IF ~IsOpen(k) THEN [k EXCEPT !.thrown = TRUE]
    ELSE IF accepted THEN [k EXCEPT !.requests = @ \union {"connect"}]
    ELSE k

\* connect(socket, ip, port); uv_tcp_connect may refuse the address.
ConnectTo(k, accepted) ==
    IF ~IsOpen(k) THEN [k EXCEPT !.thrown = TRUE]
    ELSE IF accepted THEN [k EXCEPT !.requests = @ \union {"connect"}]
    ELSE EmitError(k)

\* The callback connect() gave to dns.lookup(), after 'lookup'.
AfterLookup(k, err, accepted) ==
    IF err THEN Later(k, "lookupError") ELSE ConnectTo(ResetSocketTimeout(k), accepted)

\* AfterGetAddrInfo of the DNS binding; a listener of 'lookup' may destroy the socket.
OnLookup ==
    /\ "lookup" \in s.requests
    /\ LET k == Without("lookup")
       IN  \/ /\ s.destroyed
              /\ Callback(k)
              /\ UNCHANGED env
           \/ \E l \in {k, Destroy(k)}, err, accepted \in BOOLEAN :
                 /\ ~s.destroyed
                 /\ Callback(AfterLookup(l, err, accepted))
                 /\ env' = [env EXCEPT !.answered = @ \/ s'.errored]

\* AfterConnect of the TCP binding; a closing handle has failed.
OnConnect ==
    /\ "connect" \in s.requests
    /\ \E ok \in {FALSE, IsOpen(s)} : Callback(AfterConnect(Without("connect"), ok))
    /\ env' = [env EXCEPT !.answered = TRUE]

\* AfterWrite of the TCP binding, for success, failure and a handle that is closed.
OnWritten ==
    /\ "write" \in s.requests
    /\ Callback(OnWrite(Without("write")))
    /\ UNCHANGED env

\* AfterShutdown of the TCP binding, which uv calls when all is written.
OnShutdown ==
    /\ "shutdown" \in s.requests
    /\ {"connect", "write"} \cap s.requests = {}
    /\ LET k == Without("shutdown")
       IN  Callback(IF k.eof THEN Destroy(k) ELSE k)
    /\ UNCHANGED env

\* OnRead of the TCP binding, for data: read at once or buffered.
OnData ==
    /\ s.reading
    /\ env.reads < MaxReads
    /\ \E b \in {TRUE, s.rbuffer} : Callback([ResetSocketTimeout(s) EXCEPT !.rbuffer = b])
    /\ env' = [env EXCEPT !.reads = @ + 1]

OnEof ==
    /\ s.reading
    /\ Callback(OnReadEof(s))
    /\ UNCHANGED env

\* ... and for an error, which only emits 'error'.
OnReadError ==
    /\ s.reading
    /\ Callback([ResetSocketTimeout(s) EXCEPT !.reading = FALSE])
    /\ UNCHANGED env

\* The timer fires: 'timeout' ...
OnTimeout ==
    /\ phase = "idle"
    /\ s.timer
    /\ phase' = "timeout"
    /\ UNCHANGED <<s, batch, env>>

\* ... and what its listeners have started anew is cleared.
AfterTimeout ==
    /\ phase = "timeout"
    /\ ~s.thrown
    /\ phase' = "callback"
    /\ s' = [s EXCEPT !.timer = FALSE]
    /\ UNCHANGED <<batch, env>>

\* AfterClose of the TCP binding, after the callbacks of what was pending: 'close'.
OnClosed ==
    /\ s.handle = "closing"
    /\ s.requests \subseteq {"lookup"}
    /\ Callback([s EXCEPT !.handle = "closed"])
    /\ UNCHANGED env

\* OnConnection of the TCP binding: the server accepts another connection.  An error, or
\* an accept that fails and is not reported at all, changes nothing.
OnConnection ==
    /\ s.server.handle = "open"
    /\ env.others < MaxOthers
    /\ Callback([s EXCEPT !.server.count = @ + 1])
    /\ env' = [env EXCEPT !.others = @ + 1]

\* An exception nobody catches has ended the process.
Crashed ==
    /\ s.thrown
    /\ UNCHANGED netVars

SocketUser == Connect \/ Write \/ End \/ UserDestroy \/ SetTimeout \/ UserRead
Server == Listen \/ ServerClose \/ OtherCloses \/ OnConnection
Loop == AfterTimeout \/ BeginTicks \/ NextTick \/ EndTurn \/ LoopTicks
Answers == OnLookup \/ OnConnect \/ OnWritten \/ OnShutdown \/ OnClosed
Arrivals == OnData \/ OnEof \/ OnReadError \/ OnTimeout

NetNext == SocketUser \/ Server \/ Loop \/ Answers \/ Arrivals \/ OtherEvent \/ Crashed

NetSpec == NetInit /\ [][NetNext]_netVars

(***************************************************************************)
(* Callbacks return and their ticks run, and uv answers every request it   *)
(* has taken, however much else happens.  Nothing has to arrive, and the   *)
(* user has to do nothing.                                                 *)
(***************************************************************************)
NetFairSpec ==
    /\ NetSpec
    /\ WF_netVars(Loop)
    /\ SF_netVars(OnLookup)
    /\ SF_netVars(OnConnect)
    /\ SF_netVars(OnWritten)
    /\ SF_netVars(OnShutdown)
    /\ SF_netVars(OnClosed)

-----------------------------------------------------------------------------
(***************************************************************************)
(* Properties.                                                             *)
(***************************************************************************)

\* No function of net.js uses the handle of a socket that gave it away in
\* close(): not the tick that starts to read, not a buffered
\* chunk, not the connect() that follows a lookup.  That is so unless the user
\* ended the socket before it was connected or wrote after end().
NoNullHandle == s.thrown => env.early \/ env.late

\* A socket that is destroyed leaves no timer behind, although every function
\* that runs after the first call of destroy() may start it again.
TimerStops == s.destroyed => ~s.timer

\* destroy(), destroySoon() and the end of both sides close the handle only
\* when every chunk written before end() has been handed over and answered,
\* unless the connection failed.
NothingDropped ==
    s.destroyed /\ ~s.errored /\ ~env.late =>
        s.buffer = 0 /\ ~s.writing /\ "write" \notin s.requests

\* 'connect' or 'error' follows every connect() that began, or the socket is
\* closed first.
ConnectIsAnswered ==
    env.asked /\ ~env.dropped ~> env.answered \/ s.destroyed \/ s.thrown

\* After destroy() of a socket with a handle, or after a failed connect() of one
\* the user had not ended, 'close' follows if the stream was told to write: the
\* 'finish' that destroy() waits for comes.
DestroyLeadsToClose ==
    (env.kill \/ (s.errored /\ ~env.early)) /\ s.ready ~> s.handle = "closed" \/ s.thrown

\* A socket that is neither readable nor writable any more is closed.
BothEndsLeadToClose ==
    ~s.readable /\ ~s.writable ~> s.handle = "closed" \/ s.thrown

\* What the comment of destroySoon() says, for a socket whose 'end' and
\* 'finish' have been emitted.  It fails when data was still buffered at the
\* end of the data and 'finish' came before: the socket is not marked as no
\* longer readable, and destroySoon() waits for a second 'finish'.
EndsLeadToClose ==
    s.endEmitted /\ s.ended ~> s.handle = "closed" \/ s.thrown

\* The server's _socketCount is the number of its sockets that were not closed, whoever
\* closes them and when, so its 'close' says that there is none, unless somebody made it
\* listen once more.
ServerCounts ==
    /\ s.server.count = env.others + (IF s.owned THEN 1 ELSE 0)
    /\ s.owned <=> env.serves /\ ~s.destroyed
    /\ s.server.told => s.server.count = 0 \/ env.again

\* A socket that closes is done (net.js:187-228, 303-341): nobody uses its handle any more, no
\* timer is left, no chunk was dropped, and its server has taken it off the count on which
\* its own 'close' depends (net.js:554-590).
ClosedIsDone == NoNullHandle /\ TimerStops /\ NothingDropped /\ ServerCounts

\* A server that was closed emits 'close' once its last socket is gone, in whichever turn
\* that is, unless it listens again.
DrainedLeadsToClose ==
    env.serves /\ s.server.handle = "none" /\ s.server.count = 0 ~>
        s.server.told \/ s.server.handle # "none" \/ s.thrown

\* A socket that was destroyed, whose connection failed or both of whose sides are over comes
\* to 'close', and so does its server (net.js:187-228, 354-398, 554-583).
LeadsToClose == DestroyLeadsToClose /\ BothEndsLeadToClose /\ DrainedLeadsToClose

=============================================================================
