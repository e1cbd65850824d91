------------------------------- MODULE Dgram -------------------------------
(***************************************************************************)
(* A dgram.Socket (js/dgram.js) on its UDP handle (iotjs_module_udp.c).    *)
(*                                                                         *)
(* The socket is a record k and each function of dgram.js an operator from *)
(* socket to socket.  A datagram is the number of the send() that made it, *)
(* and the send queue a sequence of such numbers in which 0 stands for a   *)
(* close() that waits.  The listeners of 'listening' and 'error' run       *)
(* inside the function that emits the event: what they do there is the     *)
(* reaction, a choice.  What any other listener does is a user's step      *)
(* after it.  A program that survives an exception goes on.                *)
(***************************************************************************)
EXTENDS Integers, Sequences, SequencesExt

CONSTANTS
    MaxSends,        \* bound: calls of send()
    MaxBinds,        \* bound: calls of bind() by the user
    MaxArrivals      \* bound: datagrams that arrive

ASSUME ConstantsAssumption ==
    /\ MaxSends \in Nat
    /\ MaxBinds \in Nat
    /\ MaxArrivals \in Nat

VARIABLES
    s,        \* the socket
    env       \* bounds: binds, closes and arrivals so far

dgramVars == <<s, env>>

Sends == 1..MaxSends
NoQueue == <<-1>>

\* new Socket(): the uv handle is initialized with the wrap.
NewSocket ==
    [handle |-> TRUE,             \* _handle is not null
     uv |-> "open",               \* the uv_udp_t: open, closing, closed
     receiving |-> FALSE,
     bindState |-> "unbound",
     resolving |-> FALSE,         \* the lookup of bind() is under way
     queue |-> NoQueue,           \* _queue, and clearQueue() waits for 'listening'
     msg |-> [n \in Sends |-> "none"],
     ticks |-> 0,                 \* nextTick: emits of 'close'
     closes |-> 0,                \* history: 'close' events
     failed |-> FALSE,            \* history: a bind failed
     stuck |-> FALSE,             \* history: a bind whose lookup never calls back
     threw |-> FALSE]             \* history: an exception left a callback of the loop

-----------------------------------------------------------------------------
(***************************************************************************)
(* The functions of dgram.js.                                              *)
(***************************************************************************)

\* Socket.prototype.bind(), up to the lookup.
Bind(k) == [k EXCEPT !.bindState = "binding", !.resolving = TRUE]

\* bind() of an address that is no string: lookup() throws, and the state stays BINDING.
BindThrows(k) == [k EXCEPT !.bindState = "binding", !.stuck = TRUE]

\* enqueue().
Enqueue(k, item) ==
    [k EXCEPT !.queue = IF @ = NoQueue THEN <<item>> ELSE Append(@, item)]

\* Mutant of Send: it leaves it to the user to bind.
SendUnbound(k, n) ==
    IF k.bindState # "bound" THEN [Enqueue(k, n) EXCEPT !.msg[n] = "queued"]
    ELSE [k EXCEPT !.msg[n] = "lookup"]

\* Socket.prototype.send().
Send(k, n) ==
    LET b == IF k.bindState = "unbound" THEN Bind(k) ELSE k
    IN  IF b.bindState # "bound" THEN [Enqueue(b, n) EXCEPT !.msg[n] = "queued"]
        ELSE [b EXCEPT !.msg[n] = "lookup"]

\* _stopReceiving(): recvStop() of the handle.
StopReceiving(k) == [k EXCEPT !.receiving = FALSE]

\* Mutant of CloseHandle: nobody is told.
CloseHandleSilent(k) == [StopReceiving(k) EXCEPT !.handle = FALSE, !.uv = "closing"]

\* close() of the handle, and what Socket.prototype.close() does after it.
CloseHandle(k) ==
    [StopReceiving(k) EXCEPT !.handle = FALSE, !.uv = "closing", !.ticks = @ + 1]

\* Socket.prototype.close().
Close(k) == IF k.queue # NoQueue THEN Enqueue(k, 0) ELSE CloseHandle(k)

\* Mutant of ClearQueue: the queue is still there afterwards.
ClearQueueKeeps(k) ==
    [k EXCEPT !.msg = [n \in Sends |-> IF Contains(k.queue, n) THEN "lookup" ELSE @[n]]]

\* clearQueue(): the sends before the first close() start their lookups; the first
\* call after it finds no handle, throws, and the rest of the queue is gone with it.
ClearQueue(k) ==
    LET q == k.queue
        First == SelectInSeq(q, LAMBDA item : item = 0)
        Ran(n) == \E i \in DOMAIN q : q[i] = n /\ (First = 0 \/ i < First)
        flushed == [k EXCEPT !.queue = NoQueue,
                             !.msg = [n \in Sends |->
                                        IF ~Contains(q, n) THEN @[n]
                                        ELSE IF Ran(n) THEN "lookup" ELSE "lost"]]
    IN  IF First = 0 THEN flushed
        ELSE [CloseHandle(flushed) EXCEPT !.threw = @ \/ First < Len(q)]

\* What a listener does inside the emit; bind() throws there, as the socket is not unbound.
React(k, r, n) ==
    CASE r = "nothing" -> k
      [] r = "send"    -> Send(k, n)
      [] r = "close"   -> Close(k)
      [] r = "throw"   -> [k EXCEPT !.threw = TRUE]

\* recvStart() of the handle, whose result is not looked at.
RecvStart(k) == [k EXCEPT !.receiving = TRUE]

\* startListening(): a listener of 'listening' older than the queue runs before clearQueue().
StartListening(k, r, n) ==
    LET l == React([RecvStart(k) EXCEPT !.bindState = "bound"], r, n)
    IN  IF l.queue = NoQueue \/ r = "throw" THEN l ELSE ClearQueue(l)

-----------------------------------------------------------------------------
(***************************************************************************)
(* The user's calls.  _healthCheck() refuses all of them without a handle, *)
(* except a close() that is queued.                                        *)
(***************************************************************************)
DgramInit ==
    /\ s = NewSocket
    /\ env = [binds |-> 0, closes |-> 0, arrivals |-> 0]

UserBind ==
    /\ s.handle
    /\ s.bindState = "unbound"
    /\ env.binds < MaxBinds
    /\ s' \in {Bind(s), BindThrows(s)}
    /\ env' = [env EXCEPT !.binds = @ + 1]

\* The next send() that was not made yet.
Fresh(n) == s.msg[n] = "none" /\ \A i \in 1..(n - 1) : s.msg[i] # "none"

UserSend(n) ==
    /\ s.handle
    /\ Fresh(n)
    /\ s' = Send(s, n)
    /\ UNCHANGED env

\* Bound: two calls of close().
UserClose ==
    /\ s.handle
    /\ env.closes < 2
    /\ s' = Close(s)
    /\ env' = [env EXCEPT !.closes = @ + 1]

\* What a listener may do now, with the send() it would make.
Reactions ==
    {x \in {"nothing", "send", "close", "throw"} \X (Sends \union {0}) :
        /\ (x[1] = "send") <=> x[2] # 0
        /\ x[2] # 0 => Fresh(x[2])
        /\ x[1] = "close" => env.closes < 2}

Reacted(r) == env' = [env EXCEPT !.closes = IF r = "close" THEN @ + 1 ELSE @]

-----------------------------------------------------------------------------
(***************************************************************************)
(* Callbacks of the loop.  The ticks run at the end of each of them.       *)
(***************************************************************************)
Loop == s.ticks = 0

\* uv_getaddrinfo refuses the lookup of bind(): dns.js does not look at the result.
BindLookupRefused ==
    /\ Loop /\ s.resolving
    /\ s' = [s EXCEPT !.resolving = FALSE, !.stuck = TRUE]
    /\ UNCHANGED env

\* The address of bind() cannot be resolved.
BindLookupFails ==
    /\ Loop /\ s.resolving
    /\ s' = [s EXCEPT !.resolving = FALSE, !.bindState = "unbound", !.failed = TRUE]
    /\ UNCHANGED env

\* It is resolved, and the socket was closed in the meantime.
BindLookupLate ==
    /\ Loop /\ s.resolving /\ ~s.handle
    /\ s' = [s EXCEPT !.resolving = FALSE]
    /\ UNCHANGED env

\* It is resolved, and uv_udp_bind refuses it: 'error' comes before the state is reset.
BindFails ==
    /\ Loop /\ s.resolving /\ s.handle
    /\ \E x \in Reactions :
        /\ LET e == React([s EXCEPT !.resolving = FALSE, !.failed = TRUE], x[1], x[2])
           IN  s' = IF x[1] = "throw" THEN e ELSE [e EXCEPT !.bindState = "unbound"]
        /\ Reacted(x[1])

\* It is resolved and bound.  A listener that closes the socket leaves no queue to clear.
BindSucceeds ==
    /\ Loop /\ s.resolving /\ s.handle
    /\ \E x \in Reactions :
        /\ s' = StartListening([s EXCEPT !.resolving = FALSE], x[1], x[2])
        /\ Reacted(x[1])

\* A datagram has a send request of C, from uv_udp_send to its callback.
Sending(k, n) == [k EXCEPT !.msg[n] = "sending"]
Dispatched(k, n) == [k EXCEPT !.msg[n] = "answered"]

\* uv_getaddrinfo refuses the lookup of a send(): nobody is told.
SendLookupRefused(n) ==
    /\ Loop /\ s.msg[n] = "lookup"
    /\ s' = [s EXCEPT !.msg[n] = "untold"]
    /\ UNCHANGED env

\* doSend(ex): the callback gets the error, or 'error' is emitted.
SendLookupFails(n) ==
    /\ Loop /\ s.msg[n] = "lookup"
    /\ s' = [s EXCEPT !.msg[n] = "answered"]
    /\ UNCHANGED env

\* doSend() without a handle: silence.
SendLookupLate(n) ==
    /\ Loop /\ s.msg[n] = "lookup" /\ ~s.handle
    /\ s' = [s EXCEPT !.msg[n] = "dropped"]
    /\ UNCHANGED env

\* doSend(): the handle takes the datagram, and calls back later.
SendStarts(n) ==
    /\ Loop /\ s.msg[n] = "lookup" /\ s.handle
    /\ s' = Sending(s, n)
    /\ UNCHANGED env

\* doSend(): the handle refuses it.  With a callback, the name exceptionWithHostPort is
\* not defined; without one nobody is told.
SendRefused(n) ==
    /\ Loop /\ s.msg[n] = "lookup" /\ s.handle
    /\ s' \in {[s EXCEPT !.msg[n] = "lost", !.threw = TRUE], [s EXCEPT !.msg[n] = "untold"]}
    /\ UNCHANGED env

\* OnSend(), with ECANCELED once the handle is closing.
OnSend(n) ==
    /\ Loop /\ s.msg[n] = "sending"
    /\ s' = Dispatched(s, n)
    /\ UNCHANGED env

\* OnRecv() of a datagram, and onMessage().
OnRecv ==
    /\ Loop /\ s.receiving
    /\ env.arrivals < MaxArrivals
    /\ env' = [env EXCEPT !.arrivals = @ + 1]
    /\ UNCHANGED s

\* OnRecv() of an error: the name errnoException is not defined.
OnRecvError ==
    /\ Loop /\ s.receiving
    /\ env.arrivals < MaxArrivals
    /\ s' = [s EXCEPT !.threw = TRUE]
    /\ env' = [env EXCEPT !.arrivals = @ + 1]

\* The tick of close().
EmitClose ==
    /\ s.ticks > 0
    /\ s' = [s EXCEPT !.ticks = @ - 1, !.closes = @ + 1]
    /\ UNCHANGED env

\* iotjs_on_handle_closed(): uv has called back the datagrams it had first.
HandleClosed ==
    /\ Loop /\ s.uv = "closing"
    /\ \A n \in Sends : s.msg[n] # "sending"
    /\ s' = [s EXCEPT !.uv = "closed"]
    /\ UNCHANGED env

BindLookupDone ==
    BindLookupRefused \/ BindLookupFails \/ BindLookupLate \/ BindFails \/ BindSucceeds

SendLookupDone(n) ==
    \/ SendLookupRefused(n) \/ SendLookupFails(n) \/ SendLookupLate(n)
    \/ SendStarts(n) \/ SendRefused(n)

DgramNext ==
    \/ UserBind \/ UserClose
    \/ BindLookupDone
    \/ \E n \in Sends : UserSend(n) \/ SendLookupDone(n) \/ OnSend(n)
    \/ OnRecv \/ OnRecvError
    \/ EmitClose \/ HandleClosed

DgramSpec == DgramInit /\ [][DgramNext]_dgramVars

\* uv answers every lookup and every datagram it took, runs the ticks and closes handles.
Fairness ==
    /\ WF_dgramVars(BindLookupDone)
    /\ \A n \in Sends : WF_dgramVars(SendLookupDone(n)) /\ WF_dgramVars(OnSend(n))
    /\ WF_dgramVars(EmitClose)
    /\ WF_dgramVars(HandleClosed)

DgramFairSpec == DgramSpec /\ Fairness

-----------------------------------------------------------------------------
(***************************************************************************)
(* Properties.                                                             *)
(***************************************************************************)

Queued == {n \in Sends : s.msg[n] = "queued"}

\* What waits in the queue (dgram.js:221-240) are exactly the sends that nobody has
\* started, and somebody will still clear it: a bind is under way, or the socket is
\* unbound so that the next send() binds again.  Only an exception in a listener, which
\* stops emit() before clearQueue() or before the bind state is reset, and a lookup that
\* throws or is refused after the state was set to BINDING (dgram.js:124, dns.js:50)
\* strand it.
QueueWaitsForBind ==
    /\ Queued = (IF s.queue = NoQueue THEN {} ELSE Range(s.queue) \ {0})
    /\ s.queue # NoQueue => s.handle /\ (s.bindState # "bound" \/ s.threw)
    /\ s.bindState = "binding" => s.resolving \/ ~s.handle \/ s.threw \/ s.stuck

\* A datagram the handle has taken is called back even if the socket is closed first, and
\* one that waits for the bind or for its lookup comes to an answer unless the socket is
\* closed, a bind failed or is stuck, an exception was thrown, or the handle or uv_getaddrinfo
\* refused it and nobody is told (dgram.js:285-338).
SendIsAnswered ==
    \A n \in Sends :
        /\ s.msg[n] = "sending" ~> s.msg[n] = "answered"
        /\ s.msg[n] \in {"queued", "lookup"} ~>
              (s.msg[n] \in {"answered", "untold"} \/ ~s.handle \/ s.failed \/ s.stuck \/ s.threw)

\* A close() that was queued behind the sends is made as soon as the bind is done, unless
\* the bind failed or is stuck or a listener threw; and a socket without a handle emits 'close'
\* exactly once and has its uv handle closed (dgram.js:341-360).
CloseIsEmitted ==
    /\ (s.queue # NoQueue /\ 0 \in Range(s.queue)) ~>
          (~s.handle \/ s.failed \/ s.stuck \/ s.threw)
    /\ ~s.handle ~> [](s.closes = 1 /\ s.uv = "closed")
=============================================================================
