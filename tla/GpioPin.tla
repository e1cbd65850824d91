------------------------------ MODULE GpioPin ------------------------------
(***************************************************************************)
(* GPIO: iotjs_module_gpio.c, its Linux platform code on sysfs (the pin is *)
(* exported by writing to a file) and gpio.js.  The value of a write is in *)
(* the request.  An input pin with an edge has a thread of its own that    *)
(* polls the value file and emits 'change'.                                *)
(***************************************************************************)
EXTENDS RequestPool

\* value_fd is -1, the mutex is initialised, no thread runs.
GpioCreate == Device("none")

\* direction in and an edge: the pair that starts the thread.
GpioSetConfigurable(d) == {d, [d EXCEPT !.edge = TRUE]}

GpioConstructor ==
  {<<d, NewRequest("open", 1, "queued")>> : d \in GpioSetConfigurable(GpioCreate)}

GpioRequest(op, d) == Submit(op, New, d)

\* Writing a file of sysfs: open, write and close, each may fail; a value
\* that was written stays written when the close fails.
SystemioOpenWriteClose(exists) == Written(exists)
\* Reading one: a failed read returns before the descriptor is closed.
SystemioOpenReadClose(exists) == IF exists THEN BOOLEAN ELSE {FALSE}

\* A pin that is exported already is as good as open.  Otherwise the export
\* is written and the files are awaited, for a bounded number of tries.
SystemioDeviceOpen == {<<TRUE, "open">>, <<FALSE, "open">>, <<FALSE, dev.fd>>}

GpioSetDirection == BOOLEAN

\* The outcomes as <<ok, struct>>.  With an edge the function returns false
\* whatever happens; the thread may run all the same.
GpioSetEdge(d) ==
  IF d.edge
  THEN {<<FALSE, d>>, <<FALSE, [d EXCEPT !.value = "open"]>>,
        <<FALSE, [d EXCEPT !.value = "open", !.thread = "start"]>>}
  ELSE {<<TRUE, d>>}

GpioWrite == SystemioOpenWriteClose(dev.fd = "open")
GpioRead == SystemioOpenReadClose(dev.fd = "open")

\* gpio_set_value_fd(-1) comes before close(value_fd): -1 is closed and the
\* descriptor is lost.  The pin is then unexported.
GpioClose ==
  {<<r[1], [dev EXCEPT !.value = "none", !.fd = IF r[2] THEN "none" ELSE @]>> :
     r \in SystemioOpenWriteClose(dev.fd = "open")}

GpioOpenWorker(i) ==
  /\ Works(i, {"open"})
  /\ \E r \in SystemioDeviceOpen, dir \in GpioSetDirection :
       LET d == [dev EXCEPT !.fd = r[2]]
       IN  IF r[1] /\ dir
           THEN \E e \in GpioSetEdge(d) : WorkerEnd(i, e[1], e[2], wire)
           ELSE WorkerEnd(i, FALSE, d, wire)

GpioWriteWorker(i) ==
  /\ Works(i, {"write"})
  /\ \E r \in GpioWrite : WorkerEnd(i, r[1], dev, Transfer(r[2], i, reqs[i].arg))

GpioReadWorker(i) ==
  /\ Works(i, {"read"})
  /\ \E ok \in GpioRead : WorkerEnd(i, ok, dev, wire)

GpioCloseWorker(i) ==
  /\ Works(i, {"close"})
  /\ \E r \in GpioClose : WorkerEnd(i, r[1], r[2], wire)

\* Mutant of GpioAfterWorker: a failed request is freed, its callback is not called.
GpioAfterWorkerSilent(i) ==
  \/ /\ reqs[i].op # "close"
     /\ AfterWork(i, IF reqs[i].ok THEN "called" ELSE "threw",
                  IF reqs[i].op = "read" /\ reqs[i].ok THEN i ELSE 0, dev)
  \/ CloseReports(i) \/ Forget(i)

GpioAfterWorker(i) ==
  \/ /\ reqs[i].op # "close"
     /\ AfterWork(i, "called", IF reqs[i].op = "read" /\ reqs[i].ok THEN i ELSE 0, dev)
  \/ CloseReports(i) \/ Forget(i)

GpioWriteCall ==
  /\ CanCall /\ dev.binding
  /\ \/ GpioRequest("write", dev)
     \/ \E r \in GpioWrite : Sync("write", New, r[1], dev, Transfer(r[2], New, New))

GpioReadCall ==
  /\ CanCall /\ dev.binding
  /\ \/ GpioRequest("read", dev)
     \/ \E ok \in GpioRead : Sync("read", New, ok, dev, wire)

GpioCloseSync ==
  \E r \in GpioClose :
    Sync("close", New, r[1], [r[2] EXCEPT !.binding = ~r[1]], wire)

GpioCloseCall ==
  /\ CanCall /\ dev.binding
  /\ GpioRequest("close", dev) \/ GpioCloseSync

\* Mutant of GpioDestroy: nothing holds the object while requests are pending.
GpioDestroyEarly == Collect

GpioDestroy == ~dev.binding /\ Collect

\* The edge thread goes on, or finds the struct freed.
ThreadGoes(to) ==
  /\ dev.struct
  /\ dev' = [dev EXCEPT !.thread = to]
  /\ UNCHANGED <<reqs, queue, finished, wire, use, fault>>

ThreadCrash == ~dev.struct /\ Breaks("freed")

\* gpio_get_value_fd() under the mutex, before the loop and at its head; a
\* first read that fails ends the thread, whatever the pin does afterwards.
GpioGetValueFd ==
  /\ Running /\ dev.thread \in {"start", "check"}
  /\ \/ dev.value = "open" /\ ThreadGoes("poll")
     \/ dev.value # "open" /\ ThreadGoes("ended")
     \/ dev.thread = "start" /\ ThreadGoes("ended")
     \/ ThreadCrash

\* poll() has no timeout: it returns with an edge of the pin, or an error.
\* The next thing that the thread does is to use the struct.
GpioEdgePoll ==
  /\ Running /\ dev.thread = "poll"
  /\ ThreadGoes("emit") \/ ThreadGoes("check") \/ ThreadCrash

\* 'change' is emitted, from this thread, on the object of the struct.
GpioEmitChangeEvent ==
  /\ Running /\ dev.thread = "emit"
  /\ ThreadCrash \/ ThreadGoes("check")

GpioEdgeDetection == GpioGetValueFd \/ GpioEdgePoll \/ GpioEmitChangeEvent

GpioWorker(i) ==
  \/ WorkerStart(i, reqs[i].arg)
  \/ GpioOpenWorker(i) \/ GpioWriteWorker(i)
  \/ GpioReadWorker(i) \/ GpioCloseWorker(i)

GpioStep ==
  \/ GpioWriteCall \/ GpioReadCall \/ GpioCloseCall \/ GpioDestroy
  \/ GpioEdgeDetection
  \/ \E i \in 1 .. Len(reqs) : GpioWorker(i) \/ GpioAfterWorker(i)
============================================================================
