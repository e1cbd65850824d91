------------------------------- MODULE AdcPin -------------------------------
(***************************************************************************)
(* ADC: iotjs_module_adc.c and its Linux platform code.  adc.js hands the  *)
(* native object to the program: no wrapper guards it.  free_cb is NULL;   *)
(* the struct is freed by closeSync(), or after the callback of close().   *)
(***************************************************************************)
EXTENDS RequestPool

AdcCreate == Device("none")

AdcConstructor == {<<AdcCreate, NewRequest("open", 1, "queued")>>}

AdcRequest(op) == Submit(op, New, dev)

AdcDangling(op) ==
  /\ ~dev.struct
  /\ Crash("freed") /\ use' = use \cup Usage(op)

\* The value file is opened, read and closed for every read; "opening" the
\* device only asks whether the file exists, closing it does nothing.
AdcRead == BOOLEAN
AdcClose == TRUE

AdcOpenWorker(i) ==
  Works(i, {"open"}) /\ \E ok \in BOOLEAN : WorkerEnd(i, ok, dev, wire)

\* The path is read from the struct when the worker starts.
AdcReadWorker(i) ==
  Works(i, {"read"}) /\ \E ok \in AdcRead : WorkerEnd(i, ok, dev, wire)

AdcCloseWorker(i) ==
  Works(i, {"close"}) /\ WorkerEnd(i, AdcClose, dev, wire)

AdcDestroy(d) == [d EXCEPT !.struct = FALSE]

\* The callback comes first, then the struct of a closed device is freed:
\* a second close() finds it freed already.
AdcAfterWork(i) ==
  \/ /\ reqs[i].op # "close"
     /\ AfterWork(i, "called", IF reqs[i].op = "read" /\ reqs[i].ok THEN i ELSE 0, dev)
  \/ CloseReports(i)
  \/ dev.struct /\ CloseReturns(i, AdcDestroy(dev))
  \/ ~dev.struct /\ Returns(i) /\ Breaks("freed")

AdcReadCall == CanCall /\ (AdcDangling("read") \/ (dev.struct /\ AdcRequest("read")))

AdcReadSync ==
  /\ CanCall
  /\ \/ AdcDangling("read")
     \/ dev.struct /\ \E ok \in AdcRead : Sync("read", New, ok, dev, wire)

AdcCloseCall == CanCall /\ (AdcDangling("close") \/ (dev.struct /\ AdcRequest("close")))

AdcCloseSync ==
  /\ CanCall
  /\ \/ AdcDangling("close")
     \/ dev.struct /\ Sync("close", New, AdcClose, AdcDestroy(dev), wire)

AdcWorker(i) ==
  \/ WorkerStart(i, reqs[i].arg)
  \/ AdcOpenWorker(i) \/ AdcReadWorker(i) \/ AdcCloseWorker(i)

AdcStep ==
  \/ AdcReadCall \/ AdcReadSync \/ AdcCloseCall \/ AdcCloseSync
  \/ \E i \in 1 .. Len(reqs) : AdcWorker(i) \/ AdcAfterWork(i)
============================================================================
