------------------------------- MODULE I2cBus -------------------------------
(***************************************************************************)
(* I2C: iotjs_module_i2c.c, its Linux platform code and i2c.js.  The data  *)
(* of a transfer is in the request; the slave address is a setting of the  *)
(* descriptor (dev.slot["data"]), changed by an ioctl() at once.  The      *)
(* collector frees nothing (free_cb is NULL): close() does, immediately.   *)
(***************************************************************************)
EXTENDS RequestPool

I2cCreate == Device("none")

I2cConstructor == {<<I2cCreate, NewRequest("open", 0, "queued")>>}

\* A transfer is meant for the address that is set when it is requested.
I2cRequest(op) == Submit(op, dev.slot["data"], dev)

\* A method on an object whose struct close() has freed.
I2cDangling(op) ==
  /\ ~dev.struct
  /\ Crash("freed") /\ use' = use \cup Usage(op)

\* read() or write() of the whole buffer: fewer bytes are an error.
I2cTransfer == Written(dev.fd = "open")

I2cOpenWorker(i) ==
  /\ Works(i, {"open"})
  /\ \E ok \in BOOLEAN :
       WorkerEnd(i, ok, [dev EXCEPT !.fd = IF ok THEN "open" ELSE "none"], wire)

\* The worker uses its own buffer and the descriptor's current address.
I2cWriteWorker(i) ==
  /\ Works(i, {"write"})
  /\ \E r \in I2cTransfer :
       WorkerEnd(i, r[1], dev, Transfer(r[2], i, dev.slot["data"]))

I2cReadWorker(i) ==
  /\ Works(i, {"read"})
  /\ \E r \in I2cTransfer :
       WorkerEnd(i, r[1], dev, Transfer(r[2], i, dev.slot["data"]))

\* After a successful open i2c.js sets the configured address (0), on
\* whatever is left of the struct.
I2cAfterWork(i) ==
  LET sets == reqs[i].op = "open" /\ reqs[i].ok
  IN  \/ /\ sets /\ ~dev.struct
         /\ CanReport(i) /\ Breaks("freed")
      \/ /\ sets => dev.struct
         /\ AfterWork(i, "called", IF reqs[i].op = "read" /\ reqs[i].ok THEN i ELSE 0,
                      IF sets THEN [dev EXCEPT !.slot["data"] = 0] ELSE dev)

I2cSetAddress ==
  /\ CanCall
  /\ \/ I2cDangling("setAddress")
     \/ /\ dev.struct
        /\ Sync("setAddress", New, TRUE, [dev EXCEPT !.slot["data"] = New], wire)

I2cWriteCall == CanCall /\ (I2cDangling("write") \/ (dev.struct /\ I2cRequest("write")))
I2cReadCall == CanCall /\ (I2cDangling("read") \/ (dev.struct /\ I2cRequest("read")))

\* I2cClose() and iotjs_i2c_destroy(): nothing asks for pending requests.
I2cDestroy(d) == [d EXCEPT !.struct = FALSE]
I2cCloseCall ==
  /\ CanCall
  /\ \/ I2cDangling("close")
     \/ /\ dev.struct
        /\ Sync("close", New, TRUE, I2cDestroy([dev EXCEPT !.fd = "none"]), wire)

I2cWorker(i) ==
  \/ WorkerStart(i, reqs[i].arg)
  \/ I2cOpenWorker(i) \/ I2cWriteWorker(i) \/ I2cReadWorker(i)

I2cStep ==
  \/ I2cSetAddress \/ I2cWriteCall \/ I2cReadCall \/ I2cCloseCall
  \/ \E i \in 1 .. Len(reqs) : I2cWorker(i) \/ I2cAfterWork(i)
============================================================================
