------------------------------- MODULE PwmPin -------------------------------
(***************************************************************************)
(* PWM: iotjs_module_pwm.c, its Linux platform code and pwm.js.  A setter  *)
(* stores its value in the struct, from where the worker takes it.         *)
(***************************************************************************)
EXTENDS RequestPool

PwmSetters == {"setPeriod", "setDutyCycle", "setEnable"}
\* period is -1 until it is configured or set, duty_cycle is 0.
PwmCreate == Device("none")

\* A configuration has a period and a duty cycle, or neither (pwm.js).
PwmSetConfiguration(d) ==
  {d, [d EXCEPT !.slot["setPeriod"] = 1, !.slot["setDutyCycle"] = 1]}

PwmConstructor ==
  {<<d, NewRequest("open", 1, "queued")>> : d \in PwmSetConfiguration(PwmCreate)}

PwmRequest(op, d) == Submit(op, New, d)

\* The path of the exported pin is checked, then written to.
PwmPath(d) == d.fd = "open"

\* The outcomes of writing each of the three files of the pin, by struct.
PwmSetPeriod(d) == Written(PwmPath(d) /\ d.slot["setPeriod"] # 0)
PwmSetDutyCycle(d) == Written(PwmPath(d) /\ d.slot["setPeriod"] # 0)
PwmSetEnable(d) == Written(PwmPath(d))
PwmSet(op, d) == CASE op = "setPeriod"    -> PwmSetPeriod(d)
                   [] op = "setDutyCycle" -> PwmSetDutyCycle(d)
                   [] op = "setEnable"    -> PwmSetEnable(d)

\* The open worker sets the path of the pin in the struct, three words,
\* while another thread reads it.
PwmTorn == \E j \in InState({"running"}) : reqs[j].op = "open"

\* A pin that is not exported needs no close; the result of writing to
\* `unexport' is not looked at: close succeeds and the pin may stay.
PwmClose == {[dev EXCEPT !.fd = "none"], dev}

\* Exports the pin and waits for its files, then writes the period and the
\* duty cycle that the struct has by now; each step may fail and ends the
\* worker, which leaves the pin exported.
PwmOpenWorker(i) ==
  LET d == [dev EXCEPT !.fd = "open"]
      p == dev.slot["setPeriod"]
  IN  /\ Works(i, {"open"})
      /\ \/ WorkerEnd(i, FALSE, dev, wire)
         \/ WorkerEnd(i, FALSE, d, wire)
         \/ p = 0 /\ WorkerEnd(i, TRUE, d, wire)
         \/ /\ p # 0
            /\ \E ok \in BOOLEAN : WorkerEnd(i, ok, d, Transfer(TRUE, i, p))

PwmCommonWorker(i) ==
  \/ /\ Works(i, PwmSetters)
     /\ \/ PwmTorn /\ Breaks("race")
        \/ \E r \in PwmSet(reqs[i].op, dev) :
             WorkerEnd(i, r[1], dev, Transfer(r[2], i, reqs[i].saw))
  \/ /\ Works(i, {"close"})
     /\ \E d \in PwmClose : WorkerEnd(i, TRUE, d, wire)

PwmAfterWorker(i) ==
  \/ reqs[i].op # "close" /\ AfterWork(i, "called", 0, dev)
  \/ CloseReports(i) \/ Forget(i)

\* A synchronous setter; d is the struct with its value.
PwmSetSync(op, d) ==
  \/ PwmTorn /\ Crash("race") /\ use' = use \cup Usage(op)
  \/ \E r \in PwmSet(op, d) : Sync(op, New, r[1], d, Transfer(r[2], New, New))

\* Mutant of PwmSetter: the value is not stored for an asynchronous call.
PwmSetterUnstored(op) ==
  LET d == [dev EXCEPT !.slot[op] = New]
  IN  CanCall /\ dev.binding /\ (PwmRequest(op, dev) \/ PwmSetSync(op, d))

\* The three setters: the value is stored before anything else happens.
PwmSetter(op) ==
  LET d == [dev EXCEPT !.slot[op] = New]
  IN  CanCall /\ dev.binding /\ (PwmRequest(op, d) \/ PwmSetSync(op, d))

PwmSetPeriodCall == PwmSetter("setPeriod")
PwmSetDutyCycleCall == PwmSetter("setDutyCycle")
PwmSetEnableCall == PwmSetter("setEnable")

PwmCloseSync ==
  \E d \in PwmClose : Sync("close", New, TRUE, [d EXCEPT !.binding = FALSE], wire)

PwmCloseCall ==
  /\ CanCall /\ dev.binding
  /\ PwmRequest("close", dev) \/ PwmCloseSync

PwmDestroy == ~dev.binding /\ Collect

PwmWorker(i) ==
  \/ WorkerStart(i, dev.slot[Field(reqs[i].op)])
  \/ PwmOpenWorker(i) \/ PwmCommonWorker(i)

PwmStep ==
  \/ PwmSetPeriodCall \/ PwmSetDutyCycleCall \/ PwmSetEnableCall
  \/ PwmCloseCall \/ PwmDestroy
  \/ \E i \in 1 .. Len(reqs) : PwmWorker(i) \/ PwmAfterWorker(i)
============================================================================
