---------------------------- MODULE Peripherals ----------------------------
(***************************************************************************)
(* A program that drives one device object of any of the six peripheral    *)
(* modules, through every sequence of its calls, with libuv's thread pool, *)
(* the garbage collector and process 'exit'.                               *)
(***************************************************************************)
EXTENDS SpiBus, PwmPin, GpioPin, I2cBus, AdcPin, UartPort

DeviceKinds == {"spi", "pwm", "gpio", "i2c", "adc", "uart"}

\* The wrappers that register a handler of process 'exit'.
Wrapped == {"spi", "pwm", "gpio", "uart"}

\* The struct and the first request, the open, as the constructor leaves them.
Constructed(k) ==
  CASE k = "spi"  -> SpiConstructor
    [] k = "pwm"  -> PwmConstructor
    [] k = "gpio" -> GpioConstructor
    [] k = "i2c"  -> I2cConstructor
    [] k = "adc"  -> AdcConstructor
    [] k = "uart" -> UartConstructor

\* The constructor has run and has requested the open.
PeripheralsInit ==
  /\ kind \in DeviceKinds
  /\ \E c \in Constructed(kind) : dev = c[1] /\ reqs = <<c[2]>>
  /\ queue = <<1>> /\ finished = <<>> /\ wire = <<>>
  /\ use = IF dev.edge THEN {"edge"} ELSE {}
  /\ fault = "none" /\ exited = FALSE

\* The handlers of process 'exit': closeSync() on what is not closed yet.
ExitClose ==
  \/ kind = "spi" /\ SpiCloseSync
  \/ kind = "pwm" /\ PwmCloseSync
  \/ kind = "gpio" /\ GpioCloseSync
  \/ kind = "uart" /\ dev.fd # "closed" /\ UartCloseSync
  \/ kind = "uart" /\ UartNull("close")

\* Mutant of Exit: the handlers leave a device alone that has requests pending.
ExitIfIdle ==
  /\ Running
  /\ exited' = TRUE /\ UNCHANGED kind
  /\ IF kind \in Wrapped /\ dev.binding /\ Pending = {}
     THEN ExitClose
     ELSE UNCHANGED <<dev, reqs, queue, finished, wire, use, fault>>

Exit ==
  /\ Running
  /\ exited' = TRUE /\ UNCHANGED kind
  /\ IF kind \in Wrapped /\ dev.binding
     THEN ExitClose
     ELSE UNCHANGED <<dev, reqs, queue, finished, wire, use, fault>>

DeviceStep ==
  /\ \/ kind = "spi" /\ SpiStep
     \/ kind = "pwm" /\ PwmStep
     \/ kind = "gpio" /\ GpioStep
     \/ kind = "i2c" /\ I2cStep
     \/ kind = "adc" /\ AdcStep
     \/ kind = "uart" /\ UartStep
  /\ UNCHANGED <<kind, exited>>

PeripheralsNext == DeviceStep \/ Exit

\* A thread of the pool runs request i, the loop runs its after-work.
PoolStep(i) ==
  /\ i \in 1 .. Len(reqs)
  /\ \/ kind = "spi" /\ (SpiWorker(i) \/ SpiAfterWork(i))
     \/ kind = "pwm" /\ (PwmWorker(i) \/ PwmAfterWorker(i))
     \/ kind = "gpio" /\ (GpioWorker(i) \/ GpioAfterWorker(i))
     \/ kind = "i2c" /\ (I2cWorker(i) \/ I2cAfterWork(i))
     \/ kind = "adc" /\ (AdcWorker(i) \/ AdcAfterWork(i))
     \/ kind = "uart" /\ (UartWorker(i) \/ UartAfterWorker(i))
  /\ UNCHANGED <<kind, exited>>

\* The pool and the loop run: no thread holds the processor for ever.
PeripheralsSpec ==
  /\ PeripheralsInit /\ [][PeripheralsNext]_poolVars
  /\ \A i \in 1 .. MaxOps : WF_poolVars(PoolStep(i))
----------------------------------------------------------------------------
\* What a program must avoid, for each peripheral.
Harmful ==
  CASE kind = "spi"  -> {"overlap", "unopened"}
    [] kind = "uart" -> {"overlap", "unopened", "lateInput"}
    [] kind = "pwm"  -> {"cut", "early"}
    [] kind = "gpio" -> {"cut", "edge"}
    [] kind = "i2c"  -> {"cut", "after"}
    [] kind = "adc"  -> {"cut", "after"}

\* A race that no program can avoid: a worker of the UART changes the loop's lists.
LoopRace == kind = "uart" /\ fault = "race"

\* Apart from that race, the C code uses memory or descriptors that are not
\* its own only when the program or its environment did what the peripheral
\* cannot stand: requests that overlap (SPI, UART), a close that overlaps
\* with others (the rest; a call made in the callback of close() does: the
\* wrapper still has the object, and forgets it when the callback returns), a
\* setter while the open works (PWM), a close of a device that is not open
\* (SPI, UART) or a transfer on it (SPI), a use after close (I2C, ADC: their
\* struct is freed by hand), an edge (GPIO), input during an asynchronous
\* close (UART).
FaultHasCause == fault # "none" => use \cap Harmful # {} \/ LoopRace

\* What reaches the device for a request is the data of that request, and a
\* callback gets the data of its own transfer, where the data is kept in the
\* request; where the struct keeps it, as long as no two requests overlap.
OwnData ==
  kind = "gpio" \/ "overlap" \notin use =>
    /\ \A n \in 1 .. Len(wire) : wire[n].val = reqs[wire[n].req].arg
    /\ \A i \in 1 .. Len(reqs) : reqs[i].got \in {0, i}

\* Requests that do not overlap reach the device once each, at most, in the
\* order of their calls.
OnceInOrder ==
  "overlap" \notin use => \A n \in 2 .. Len(wire) : wire[n - 1].req < wire[n].req

\* Each request has its own effect and its own answer: its data and no
\* other's, at most once and in the order of the calls.  What it reports may
\* differ from what it did: a write that was cut short, or whose file could
\* not be closed, has reached the device and fails.
RequestsFaithful == OwnData /\ OnceInOrder

\* The exit handlers leave no device open, unless a close failed or was
\* called while other requests were under way.
ExitCloses ==
  exited /\ kind \in Wrapped /\ dev.fd = "open" => use \cap {"cut", "stuck"} # {}

\* Every request is answered: its callback is called, or the data callback of
\* a failed SPI transfer throws, unless the process exits or is broken first.
Answered ==
  \A i \in 1 .. MaxOps :
    (i \in Pending) ~> (\/ i \in InState({"called"})
                        \/ i \in InState({"threw"}) /\ kind = "spi"
                        \/ fault # "none" \/ exited)

\* The callback of open() reports an error only when a step of the open
\* failed; the edge thread starts when every step has succeeded.
EdgeOpenSucceeds ==
  dev.thread # "none" => \A i \in InState({"called"}) :
                           reqs[i].op = "open" => reqs[i].ok
============================================================================
