------------------------------ MODULE UartPort ------------------------------
(***************************************************************************)
(* UART: iotjs_module_uart.c, its Linux platform code and uart.js.  The    *)
(* string of a write is kept in the struct.  The port is a libuv poll      *)
(* handle in a handle wrap, which holds a reference to the JavaScript      *)
(* object until the handle is closed; the emitter of 'data' is a second    *)
(* reference, dropped by the first call of close().                        *)
(***************************************************************************)
EXTENDS RequestPool

\* device_fd is -1; the poll handle stays uninitialised until the open.
UartCreate == Device("none")

UartConstructor == {<<UartCreate, NewRequest("open", 1, "queued")>>}

UartRequest(op, d) == Submit(op, New, d)

\* Every method finds the struct through the handle wrap, which looks into
\* the handle: after the closed callback that is a null pointer.
UartInstance == dev.binding /\ dev.fd # "closed"
UartNull(op) ==
  /\ dev.binding /\ dev.fd = "closed"
  /\ Crash("null") /\ use' = use \cup Usage(op)

\* open() fails, or the port is configured and the poll handle started:
\* uv_poll_init() and uv_poll_start() change the loop's lists, in a thread
\* that races with the loop for them.
UartOpenWorker(i) ==
  /\ Works(i, {"open"})
  /\ \/ WorkerEnd(i, FALSE, dev, wire)
     \/ WorkerEnd(i, TRUE, [dev EXCEPT !.fd = "open"], wire)
     \/ Breaks("race")

\* The port does not block: write() may take a part of the string and fail
\* on the rest.  The descriptor is good until the closed callback.
UartWrite == Written(dev.fd \notin {"none", "closed"})

\* The pointer was read when the worker started, the length is read again
\* after every write(): it may belong to a later string by then.
UartWriteWorker(i) ==
  /\ Works(i, {"write"})
  /\ \/ reqs[i].saw \notin dev.live /\ Breaks("released")
     \/ /\ reqs[i].saw \in dev.live /\ dev.slot["data"] # reqs[i].saw
        /\ Breaks("overrun")
     \/ /\ reqs[i].saw \in dev.live
        /\ \E r \in UartWrite :
             WorkerEnd(i, r[1], dev, Transfer(r[2], i, reqs[i].saw))

\* iotjs_handlewrap_close(): uv_close() of a handle that was initialised and
\* is not closing yet.  uv_close() is not thread-safe: called by a worker it
\* races with the loop for the list of closing handles: it may be lost, or
\* damage the list.
UartClose(worker) ==
  IF dev.fd = "open"
  THEN {[dev EXCEPT !.fd = fd] : fd \in {"closing"} \cup (IF worker THEN {"lost"} ELSE {})}
  ELSE {dev}

UartCloseWorker(i) ==
  /\ Works(i, {"close"})
  /\ IF dev.fd = "none"
     THEN Breaks("unopened")
     ELSE \/ \E d \in UartClose(TRUE) : WorkerEnd(i, TRUE, d, wire)
          \/ dev.fd = "open" /\ Breaks("race")

\* The closed callback closes the descriptor and drops the wrap's reference.
UartHandleClosed ==
  /\ LoopRuns /\ dev.fd = "closing"
  /\ dev' = [dev EXCEPT !.fd = "closed"]
  /\ UNCHANGED <<reqs, queue, finished, wire, use, fault>>

\* The string that the struct holds now is destroyed after a write.
UartAfterWrite(i) ==
  /\ reqs[i].op = "write"
  /\ IF ~dev.struct \/ dev.slot["data"] \notin dev.live
     THEN CanReport(i) /\ Breaks("released")
     ELSE AfterWork(i, "called", 0, [dev EXCEPT !.live = @ \ {dev.slot["data"]}])

UartAfterWorker(i) ==
  \/ UartAfterWrite(i)
  \/ reqs[i].op = "open" /\ AfterWork(i, "called", 0, dev)
  \/ CloseReports(i) \/ Forget(i)

\* Input arrives on the port after close() was called: the emitter is used
\* without a reference.  A debug build stops; others may emit 'data'.
UartReadCb ==
  /\ LoopRuns /\ dev.fd = "open" /\ ~dev.emitter
  /\ use' = use \cup {"lateInput"}
  /\ \/ Crash("released")
     \/ UNCHANGED <<dev, reqs, queue, finished, wire, fault>>

UartWriteCall ==
  LET d == [dev EXCEPT !.slot["data"] = New]
  IN  /\ CanCall
      /\ \/ UartNull("write")
         \/ /\ UartInstance
            /\ \/ UartRequest("write", [d EXCEPT !.live = @ \cup {New}])
               \/ \E r \in UartWrite :
                    Sync("write", New, r[1], d, Transfer(r[2], New, New))

\* The emitter's reference is dropped before anything is asked.
UartDropEmitter(d) == [d EXCEPT !.emitter = FALSE]

UartCloseSync ==
  IF ~dev.emitter \/ dev.fd = "none"
  THEN Crash(IF dev.emitter THEN "unopened" ELSE "released")
       /\ use' = use \cup Usage("close")
  ELSE \E d \in UartClose(FALSE) :
         Sync("close", New, TRUE, [UartDropEmitter(d) EXCEPT !.binding = FALSE], wire)

UartCloseCall ==
  /\ CanCall
  /\ \/ UartNull("close")
     \/ /\ UartInstance
        /\ \/ UartCloseSync
           \/ dev.emitter /\ UartRequest("close", UartDropEmitter(dev))

\* Collected once neither the wrapper nor the handle wrap holds the object.
UartDestroy == ~dev.binding /\ dev.fd = "closed" /\ Collect

UartWorker(i) ==
  \/ WorkerStart(i, dev.slot["data"])
  \/ UartOpenWorker(i) \/ UartWriteWorker(i) \/ UartCloseWorker(i)

UartStep ==
  \/ UartWriteCall \/ UartCloseCall \/ UartDestroy
  \/ UartHandleClosed \/ UartReadCb
  \/ \E i \in 1 .. Len(reqs) : UartWorker(i) \/ UartAfterWorker(i)
============================================================================
