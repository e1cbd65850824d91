---------------------------- MODULE RequestPool ----------------------------
(***************************************************************************)
(* What the six peripheral modules of IoT.js share.  A device object of    *)
(* JavaScript owns a C struct; an asynchronous method makes a request      *)
(* (iotjs_reqwrap_t) and gives it to libuv's thread pool, where a worker   *)
(* function uses the struct; the event loop then runs the after-work       *)
(* function, which calls the JavaScript callback and frees the request.    *)
(* The callback of close() calls the program first and goes on when that   *)
(* returns: the loop is held meanwhile, the program may make more calls.   *)
(*                                                                         *)
(* JavaScript, the pool's threads and the garbage collector interleave.  A *)
(* worker is two steps: it reads the struct (WorkerStart) and then acts on *)
(* the device (WorkerEnd).  A behaviour stops at the first undefined       *)
(* behaviour of the C code (fault): nothing is claimed about what follows. *)
(*                                                                         *)
(* kind and exited belong to the step of the whole system (Peripherals).   *)
(* Requests are numbered by their position in reqs, and a request's number *)
(* stands for the data that its caller passed.                             *)
(***************************************************************************)
EXTENDS Naturals, Sequences, FiniteSets

CONSTANTS MaxOps,   \* bound: calls of one device object, the open included
          Threads   \* threads of libuv's pool (UV_THREADPOOL_SIZE)

ASSUME PoolAssumption == MaxOps \in Nat \ {0} /\ Threads \in Nat \ {0}

VARIABLES kind,      \* which peripheral the behaviour drives
          dev,       \* the JavaScript wrapper, the C struct and the device
          reqs,      \* every request made so far
          queue,     \* requests waiting for a thread
          finished,  \* requests waiting for their after-work function
          wire,      \* history: what reached the device, for which request
          use,       \* history: what the program and its environment did
          fault,     \* the undefined behaviour met, or "none"
          exited     \* process 'exit' was emitted

poolVars == <<kind, dev, reqs, queue, finished, wire, use, fault, exited>>

Fields == {"data", "setPeriod", "setDutyCycle", "setEnable"}

\* The field of the struct that holds what an operation transfers.
Field(op) == IF op \in Fields THEN op ELSE "data"

\* A fresh device: wrapper and struct exist, nothing is opened.
Device(fd) ==
  [binding |-> TRUE,    \* the wrapper's _binding is not null
   struct  |-> TRUE,    \* the C struct is allocated
   fd      |-> fd,      \* "zero" | "none" | "open"; uart: "closing", "lost", "closed"
   slot    |-> [f \in Fields |-> 0],   \* data kept in the struct, by request
   live    |-> {},      \* requests whose C buffer is allocated
   emitter |-> TRUE,    \* uart: jemitter_this is held
   edge    |-> FALSE,   \* gpio: an input pin configured with an edge
   value   |-> "none",  \* gpio: value_fd of the struct is set
   thread  |-> "none"]  \* gpio: the edge detection thread

New == Len(reqs) + 1
InState(S) == {i \in 1 .. Len(reqs) : reqs[i].st \in S}
\* A request is under way until its callback has returned.
Pending == InState({"queued", "running", "finished", "calling"})

\* A request as iotjs_reqwrap_initialize() leaves it.
NewRequest(op, arg, st) ==
  [op |-> op, arg |-> arg, st |-> st, saw |-> 0, ok |-> FALSE, got |-> 0]

\* Operations that take the descriptor of the struct for the device's.
UsesDescriptor == {"close", "transferArray", "transferBuffer"}

\* How a call of operation op that is made now uses the device.
Usage(op) ==
  LET cut   == \/ op = "close" /\ Pending # {}
               \/ \E i \in Pending : reqs[i].op = "close"
      opens == \E i \in InState({"queued", "running"}) : reqs[i].op = "open"
      ended == \E i \in InState({"called", "sync"}) : reqs[i].op = "close"
  IN  {t \in {"overlap", "cut", "early", "unopened", "after"} :
         \/ t = "overlap" /\ Pending # {}
         \/ t = "cut" /\ cut
         \/ t = "early" /\ opens
         \/ t = "unopened" /\ op \in UsesDescriptor /\ dev.fd # "open"
         \/ t = "after" /\ ended}

Running == fault = "none" /\ ~exited
CanCall == Running /\ Len(reqs) < MaxOps

\* A close that leaves the device open.
Stuck(op, d) == IF op = "close" /\ d.fd = "open" THEN {"stuck"} ELSE {}

\* The C code uses memory or a descriptor that is not, or no longer, its own.
Crash(f) ==
  /\ fault' = f
  /\ UNCHANGED <<dev, reqs, queue, finished, wire>>

\* The same, met by a thread or the loop, not in a call of the program.
Breaks(f) == Crash(f) /\ UNCHANGED use

\* An asynchronous call: the struct becomes d, the request is queued.
Submit(op, arg, d) ==
  /\ dev' = d
  /\ reqs' = Append(reqs, NewRequest(op, arg, "queued"))
  /\ queue' = Append(queue, New)
  /\ use' = use \cup Usage(op)
  /\ UNCHANGED <<finished, wire, fault>>

\* A synchronous call: it runs to its end on the main thread.
Sync(op, arg, ok, d, w) ==
  /\ dev' = d
  /\ reqs' = Append(reqs, [NewRequest(op, arg, "sync") EXCEPT !.ok = ok])
  /\ wire' = w
  /\ use' = use \cup Usage(op) \cup Stuck(op, d)
  /\ UNCHANGED <<queue, finished, fault>>

\* What a write can come to, as <<reported, reached>>: whether success is reported and
\* whether the data, or a part of it, has reached the device.  A write that is cut
\* short, or whose close() fails, has reached it and reports an error.
Written(exists) ==
  IF exists THEN {<<TRUE, TRUE>>, <<FALSE, TRUE>>, <<FALSE, FALSE>>} ELSE {<<FALSE, FALSE>>}

\* Appends to the wire what request i, or the call being made, transfers.
Transfer(sent, i, val) == IF sent THEN Append(wire, [req |-> i, val |-> val]) ELSE wire

\* A thread takes the first request of the queue and reads the struct.
WorkerStart(i, saw) ==
  /\ Running /\ queue # <<>> /\ i = Head(queue)
  /\ Cardinality(InState({"running"})) < Threads
  /\ \/ ~dev.struct /\ Breaks("freed")
     \/ /\ dev.struct
        /\ queue' = Tail(queue)
        /\ reqs' = [reqs EXCEPT ![i].st = "running", ![i].saw = saw]
        /\ UNCHANGED <<dev, finished, wire, use, fault>>

\* The worker function of request i, for one of these operations, runs.
Works(i, ops) == Running /\ i \in InState({"running"}) /\ reqs[i].op \in ops

\* The worker of request i ends: the device and the struct become d.
WorkerEnd(i, ok, d, w) ==
  \/ ~dev.struct /\ d # dev /\ Breaks("freed")
  \/ /\ dev.struct \/ d = dev
     /\ reqs' = [reqs EXCEPT ![i].st = "finished", ![i].ok = ok]
     /\ finished' = Append(finished, i)
     /\ dev' = d /\ wire' = w
     /\ use' = use \cup Stuck(reqs[i].op, d)
     /\ UNCHANGED <<queue, fault>>

\* The event loop is free: it is not in the callback of a close().
LoopRuns == Running /\ InState({"calling"}) = {}

\* The event loop runs the after-work function of a finished request.
CanReport(i) == LoopRuns /\ finished # <<>> /\ i = Head(finished)

AfterWork(i, st, got, d) ==
  /\ CanReport(i)
  /\ finished' = Tail(finished)
  /\ reqs' = [reqs EXCEPT ![i].st = st, ![i].got = got]
  /\ dev' = d
  /\ UNCHANGED <<queue, wire, use, fault>>

\* The after-work of a close() up to the program's part of the callback, ...
CloseReports(i) == reqs[i].op = "close" /\ AfterWork(i, "calling", 0, dev)

\* ... and what follows when that has returned: the struct becomes d.
Returns(i) == Running /\ i \in InState({"calling"})
CloseReturns(i, d) ==
  /\ Returns(i)
  /\ reqs' = [reqs EXCEPT ![i].st = "called"]
  /\ dev' = d
  /\ UNCHANGED <<queue, finished, wire, use, fault>>

\* spi.js, pwm.js, gpio.js and uart.js: `_binding = null' is the last statement.
Forget(i) == CloseReturns(i, [dev EXCEPT !.binding = FALSE])

\* The native object is unreachable: the collector runs its free_cb.
Collect ==
  /\ Running /\ dev.struct
  /\ dev' = [dev EXCEPT !.struct = FALSE]
  /\ UNCHANGED <<reqs, queue, finished, wire, use, fault>>
============================================================================
