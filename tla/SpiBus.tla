------------------------------- MODULE SpiBus -------------------------------
(***************************************************************************)
(* SPI: iotjs_module_spi.c, its Linux platform code and spi.js.  The tx    *)
(* and rx buffers of a transfer are kept in the struct, not in the request.*)
(***************************************************************************)
EXTENDS RequestPool

SpiTransfers == {"transferArray", "transferBuffer"}

\* calloc() leaves device_fd zero: no constructor sets it to -1.
SpiCreate == Device("zero")

\* The constructor: the struct as it is, and the open as first request.
SpiConstructor == {<<SpiCreate, NewRequest("open", 1, "queued")>>}

\* The request carries its operation only: the data is in the struct.
SpiRequest(op, d) == Submit(op, New, d)

\* Array data is copied to buffers of C; a Buffer's memory is used as it is.
SpiSetArrayBuffer(d) == [d EXCEPT !.slot["data"] = New, !.live = @ \cup {New}]
SpiSetBuffer(d) == [d EXCEPT !.slot["data"] = New]

\* The buffers that the struct points to may be used, may be released.
SpiUsable(i) == reqs[i].op = "transferArray" => i \in dev.live
SpiReleasable == dev.slot["data"] \in dev.live
SpiReleaseBuffer(d) == [d EXCEPT !.live = @ \ {d.slot["data"]}]

\* The mode, the bit order, the word size and the speed are set by ioctl()
\* on an open descriptor: any of them may fail.
SpiSetConfiguration(d) == IF d.fd = "open" THEN BOOLEAN ELSE {FALSE}

\* ioctl(SPI_IOC_MESSAGE) on the descriptor of the struct, whatever it is.
SpiTransfer == Written(dev.fd = "open")

\* The device is closed when device_fd >= 0; the outcomes as <<ok, struct>>.
SpiClose ==
  {<<TRUE, [dev EXCEPT !.fd = "none"]>>} \cup
  (IF dev.fd = "open" THEN {<<FALSE, dev>>} ELSE {})

\* The path does not exist: device_fd stays as it is.  open() fails: it is
\* negative and so is the answer.  The configuration fails: it stays open.
SpiOpenWorker(i) ==
  /\ Works(i, {"open"})
  /\ \/ WorkerEnd(i, FALSE, dev, wire)
     \/ \E fd \in {"none", "open"} :
          LET d == [dev EXCEPT !.fd = fd]
          IN  \E ok \in SpiSetConfiguration(d) : WorkerEnd(i, ok, d, wire)

SpiTransferWorker(i) ==
  /\ Works(i, SpiTransfers)
  /\ CASE dev.fd = "zero"           -> Breaks("foreign")
       [] ~SpiUsable(reqs[i].saw)    -> Breaks("released")
       [] OTHER -> \E r \in SpiTransfer :
                     WorkerEnd(i, r[1], dev, Transfer(r[2], i, reqs[i].saw))

SpiCloseWorker(i) ==
  /\ Works(i, {"close"})
  /\ IF dev.fd = "zero"
     THEN Breaks("foreign")
     ELSE \E r \in SpiClose : WorkerEnd(i, r[1], r[2], wire)

\* The callback of a transfer gets the data of the struct's buffers; the
\* arrays' buffers are released.  afterCallback() of spi.js reads the data
\* before it looks at err: for a failed transfer it throws.
SpiAfterTransfer(i) ==
  LET array == reqs[i].op = "transferArray"
      bad   == \/ ~dev.struct
               \/ reqs[i].ok /\ ~SpiUsable(dev.slot["data"])
               \/ array /\ ~SpiReleasable
  IN  /\ CanReport(i) /\ reqs[i].op \in SpiTransfers
      /\ IF bad
         THEN Breaks("released")
         ELSE AfterWork(i, IF reqs[i].ok THEN "called" ELSE "threw",
                        IF reqs[i].ok THEN dev.slot["data"] ELSE 0,
                        IF array THEN SpiReleaseBuffer(dev) ELSE dev)

\* 'close': the wrapper forgets the object after the program's callback.
SpiAfterWork(i) ==
  \/ SpiAfterTransfer(i)
  \/ reqs[i].op = "open" /\ AfterWork(i, "called", 0, dev)
  \/ CloseReports(i) \/ Forget(i)

\* device_fd is zero: the call works on a descriptor of somebody else.
SpiForeign(op) ==
  /\ dev.fd = "zero"
  /\ Crash("foreign") /\ use' = use \cup Usage(op)

\* The synchronous transfer; d is the struct that it leaves.
SpiTransferSync(op, d) ==
  \/ SpiForeign(op)
  \/ /\ dev.fd # "zero"
     /\ \E r \in SpiTransfer : Sync(op, New, r[1], d, Transfer(r[2], New, New))

SpiTransferArray ==
  LET d == SpiSetArrayBuffer(dev)
  IN  /\ CanCall /\ dev.binding
      /\ \/ SpiRequest("transferArray", d)
         \/ SpiTransferSync("transferArray", [d EXCEPT !.live = @ \ {New}])

SpiTransferBuffer ==
  /\ CanCall /\ dev.binding
  /\ \/ SpiRequest("transferBuffer", SpiSetBuffer(dev))
     \/ SpiTransferSync("transferBuffer", SpiSetBuffer(dev))

\* closeSync() keeps _binding when the call throws.
SpiCloseSync ==
  IF dev.fd = "zero"
  THEN SpiForeign("close")
  ELSE \E r \in SpiClose :
         Sync("close", New, r[1], [r[2] EXCEPT !.binding = ~r[1]], wire)

SpiCloseCall ==
  /\ CanCall /\ dev.binding
  /\ SpiRequest("close", dev) \/ SpiCloseSync

\* iotjs_spi_destroy(), once the wrapper has forgotten the object.
SpiDestroy == ~dev.binding /\ Collect

SpiWorker(i) ==
  \/ WorkerStart(i, dev.slot["data"])
  \/ SpiOpenWorker(i) \/ SpiTransferWorker(i) \/ SpiCloseWorker(i)

SpiStep ==
  \/ SpiTransferArray \/ SpiTransferBuffer \/ SpiCloseCall \/ SpiDestroy
  \/ \E i \in 1 .. Len(reqs) : SpiWorker(i) \/ SpiAfterWork(i)
============================================================================
