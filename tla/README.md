# A TLA+ verification of IoT.js

IoT.js is a JavaScript runtime for small devices: a C core (`src/src/*.c`) that
embeds the JerryScript engine and the libtuv event loop, native modules
(`src/src/modules/`), and a standard library in JavaScript (`src/src/js/`).
JavaScript runs on one thread; the workers of the thread pool, the edge thread of
GPIO and libcurl act beside it. What makes the code hard is less parallelism than
re-entrance and order: a listener called in the middle of a
function may call any function again, ticks run after the callback that
scheduled them, and the loop, the collector and uv each decide on their own when
a callback comes.

This directory holds models of the parts of the runtime that carry this order,
the TLC configurations that check them on small instances, and proofs of the most
important results for every value of the constants. `PROJECT.json` lists, for
every definition, the source lines it models. Paths below are relative to
`src/src/` unless they begin with `docs/`.

## 1. Inventory

### The components, their state and their operations

| Component | State | Operations | Source |
|---|---|---|---|
| Writable stream | `buffer`, `length`, `ready`, `writing`, `needDrain`, `ending`, `ended` | `write`, `end`, `_readyToWrite`, `_onwrite` | `js/stream_writable.js` |
| Readable stream | `buffer`, `length`, `flowing`, `ended`, `endEmitted` | `push`, `read`, `pause`, `resume`, `error` | `js/stream_readable.js` |
| EventEmitter | a list of listeners for each event | `on`, `once`, `emit`, `removeListener`, `removeAllListeners` | `js/events.js` |
| Process, ticks, event loop | the environment's state, `nextTickQueue`, `_exiting`, `exitCode`, the uv loop, promise jobs | `nextTick`, `exit`, uncaught exceptions, `iotjs_make_callback`, `iotjs_start` | `iotjs.c`, `iotjs_env.c`, `iotjs_binding_helper.c`, `js/iotjs.js` |
| Timers | `Timeout` objects, `Timer` wraps, uv handles, the loop's cached time | `setTimeout`, `setInterval`, `clear*`, `ref`, `unref`, expiry, clean-up | `js/timers.js`, `modules/iotjs_module_timer.c`, `iotjs_handlewrap.c` |
| Network socket | `SocketState`, the two streams, the TCP handle, its requests, the idle timer | `connect`, `write`, `end`, `destroy`, `setTimeout`, the uv callbacks | `js/net.js`, `modules/iotjs_module_tcp.c` |
| Network server | `_handle`, `_socketCount` | `listen`, `close`, `onconnection` | `js/net.js` |
| Datagram socket | bind state, queue of early calls | `bind`, `send`, `close`, multicast | `js/dgram.js`, `modules/iotjs_module_udp.c` |
| DNS | one request for each lookup | `lookup` | `js/dns.js`, `modules/iotjs_module_dns.c` |
| HTTP | parser, outgoing and incoming messages, sockets | requests, responses, parser callbacks | `js/http*.js`, `modules/iotjs_module_httpparser.c` |
| HTTPS client | libcurl multi handle, poll handles, a timeout | request, read, close | `js/https*.js`, `modules/iotjs_module_https.c` |
| Module loader | `iotjs_module_t.cache`, `Native.cache`, the modules being compiled | `require`, resolution, compilation, failure | `js/module.js`, `js/iotjs.js`, `iotjs_module.c` |
| File system | none in JavaScript between calls; requests, descriptors | 16 calls, each synchronous or with a callback | `js/fs.js`, `modules/iotjs_module_fs.c` |
| Buffer | bytes | copy, slice, compare, conversions | `js/buffer.js`, `modules/iotjs_module_buffer.c` |
| Peripherals | one C struct and device each, requests in the thread pool | open, read, write, transfer, set, close; the exit handler | `js/{adc,gpio,i2c,pwm,spi,uart}.js` and their modules |
| Bluetooth LE | GATT and ACL state | HCI packets | `js/ble*.js` |
| Engine binding, strings, utilities, log, test driver | none of interest | | `iotjs_binding.c` and others |

### How they interact

- Every callback of uv enters JavaScript through `iotjs_make_callback`, which
  calls the function, reports an exception, and then runs **one** batch of
  ticks. The loop of `iotjs_start` runs a further batch after each `uv_run`.
- Streams, sockets and timers tell the user of events through `emit`, so a
  listener runs in the middle of their functions.
- A concrete stream (a socket, an HTTP message) inherits both stream classes; it
  calls `_readyToWrite`, `_onwrite` and `push`, and is called through `_write`.
- Native objects are tied to JavaScript objects by wraps: a handle wrap holds a
  reference to its object from its creation until uv has closed the handle, and
  only then may the collector free it.

### What is hard, and what makes each component correct

- *Writable*: `_write()` may answer before it returns, so `writeOrBuffer()` calls
  nest. Correct: no chunk lost or reordered, an exact byte count, 'drain' and
  'finish' come, and 'finish' not before everything is flushed.
- *Readable*: the test for the end follows a 'data' listener that may have changed
  everything. Correct: each byte once and in order, 'end' after the last byte and
  not forgotten.
- *EventEmitter*: lists change while they are walked. Correct: an emission calls
  what was registered when it began; `once` means once.
- *Process*: `process.exit()` from any place, exceptions in ticks, listeners and
  handlers, a VM that aborts scripts at some later branch. Correct: 'exit' once,
  ticks once and in order, the loop ends when and only when nothing is left.
- *Timers*: several native timers for one `Timeout`, a cached clock, the collector,
  clean-up of open handles. Correct: called unless cleared, not after, no handle
  freed early or kept for nothing.
- *Socket*: 'finish', the end of the data, shutdown, connect and destroy in any
  order. Correct: nothing written is dropped, no null handle is used, the socket is
  closed and its timer stopped. *Server*: sockets close in any turn, before and after
  it. Correct: an exact count, and 'close' when the last one is gone.
- *Datagram socket*: calls before the bind wait in a queue that lookups, failures and
  listeners meet in every state. Correct: the queue is cleared, sends are answered,
  'close' comes once.
- *HTTP*: the parser hands over a message in any pieces and keeps headers in a fixed
  array; errors, timeouts, the end of the data and 'close' race. Correct: each message
  gets what was sent of it, what was written is out when the connection closes, whoever has not
  answered is told, and the connection closes.
- *HTTPS*: a stream, libcurl, several uv handles and a struct that is freed when the
  last of them is closed. Correct: chunks in order, one release, no lost wake-up.
- *File system*: several calls share one descriptor table. Correct: a call touches only
  its own descriptor, a file is read and written whole, every call is answered.
- *Module loader*: modules require each other while they are compiled, throw, and name one
  file by many paths. Correct: one key and one object for a file, nothing half made returned.
- *Buffer*: indices are any JavaScript numbers and cross three conversions into C. Correct:
  no access outside the memory, and the bytes that were meant.
- *Peripherals*: a worker uses the struct while JavaScript, other workers, the collector
  and process 'exit' change it. Correct: each request acts on its own data, is answered,
  and nobody uses what is freed.

`PROJECT.json` lists the hazards at their lines with the properties aimed at them;
section 4 adds what was met beyond that list.

## 2. The modules

| Module | Role |
|---|---|
| `WritableStream` | the writable stream |
| `OrderedSink` | abstract specification: a FIFO sink with a 'finish' |
| `WritableStreamProofs` | theorems about `WritableStream`, refinement included |
| `ReadableStream` | the readable stream |
| `EventEmitter` | the listeners of one event |
| `Process`, `ProcessProofs` | main script, loop, ticks, jobs, exceptions, exit, and its theorems |
| `Timers`, `TimersProofs` | timeouts, timer wraps, handles, and their theorems |
| `NetSocket` | a socket over its TCP handle, and the server that accepted it |
| `EventEmitterProofs` | theorems about `EventEmitter` and `NetSocket` |
| `Dgram` | a datagram socket over its UDP handle |
| `HttpParser` | the parser binding and the callbacks of `http_common.js` |
| `Http` | a connection of a client or a server, over `HttpParser` |
| `HttpProofs` | theorems about `Http` and `ReadableStream` |
| `Https` | an HTTPS request, with libcurl as its environment |
| `NetworkProofs` | theorems about `Https` and `Dgram` |
| `Fs` | the file functions over a small file system and the thread pool |
| `ModuleLoader` | `require()` of user and native modules |
| `Buffer`, `BufferProofs` | the class Buffer over its bytes in C, and its theorems |
| `RequestPool` | what the peripherals share: struct, requests, workers, collector |
| `SpiBus`, `PwmPin`, `GpioPin`, `I2cBus`, `AdcPin`, `UartPort` | each peripheral on Linux, over `RequestPool` |
| `Peripherals` | their composition with process 'exit' |
| `PoolProofs` | theorems about what uses the thread pool, `Fs` and `Peripherals`, and about `ModuleLoader` |
| `MC...` | one for each specification: the constants for TLC |

Each specification has one action for each operation or callback. Definitions
whose comment begins *Mutant of* are the definition they name with a plausible
mistake; `PROJECT.json` says which property must then fail. No action uses them.

### WritableStream

The variables `buffer` ... `ended` are the fields of `WritableState`. `inflight`
is the chunk `_write()` was given, `stack` the `writeOrBuffer()` calls suspended
in `_write()`: since everything before a call-out is done and everything after it
is in `WriteReturn`, any action may come between the two, and that is what
listeners and early answers can do. `finishTicks` counts the scheduled
`emitFinish`. Chunks are abstract with a `Size`, zero included; the high water mark is
any integer of `HighWaterMarks`, fixed when the stream is made. `accepted`, `totals`,
`flushed`, `late`, `finishes`, `unwound`, `nested`, `rejected` are history.
`Unwind` is a listener that throws. `doWrite()` during a write returns an Error
nobody looks at and so drops its chunk: the model has this branch, and
`NothingLost` says it is never taken.

### ReadableStream

`readBuffer()` always takes the whole buffer, so the buffer is a sequence of
bytes. `depth` counts `emitData()` calls whose listener is running; `DataReturn`
is their test for the end. `read(n)` and `read()` are `ReadPart` and `ReadAll`.

### EventEmitter

One event; `stack` holds the active emissions with their copies of the list.
`once()` wraps the function: an entry knows whether it is wrapped, and
`RemoveListener` compares functions as the code does, from the end of the list.

### Process

`pc` is the place in `iotjs_start` and the functions it calls, `js` the active
JavaScript calls. User code may schedule ticks, start work, enqueue promise jobs,
set handlers and the exit code, throw, and call `process.exit()`, in the main
script, a callback, a tick, a job, an 'exit' listener or an 'uncaughtException'
handler. After `process.doExit()` the engine's stop callback aborts the script at
a backward branch; it is polled at every second one, so `grace` (0 or 1) branches
may pass. `Asserts` chooses a build with or without `IOTJS_ASSERT`.

### Timers

A `Timeout` points to a `Timer` object (`handler`), which has a wrap (memory) and a
uv handle (state, due time, repeat). `lag` is the distance between the clock and
the loop's cached time, which `uv_timer_start` counts from. `Collect` is the
garbage collector, which may free a wrap whose object is unreachable; `Walk`,
`OnHandleClosed` and `Release` are the clean-up of `iotjs_entry`. A NaN delay goes
through both comparisons of the clamp, and its conversion to an unsigned integer
is undefined: the model allows 0 and a time that never comes. `clearTimeout()` and
`unref()` do the same in the code; the history tells them apart (`cleared`, `unreffed`), since
only the first promises that the callback is not called.

### NetSocket

The functions of `net.js` call each other within a turn, so the socket is a record
and each function an operator from socket to socket, named after it; the actions
apply them. `phase` and `batch` are the turns of the loop: a callback, then one
batch of ticks, then the loop. User actions are possible in every phase in which
JavaScript runs, which covers listeners called at the end of a function; the two
listeners that run before the function goes on are modelled where they run
('lookup' in `OnLookup`, 'timeout' in the phase of that name). Of the streams the
socket inherits, what `net.js` depends on is kept: the number of chunks buffered,
whether one is being written, and whether data is buffered. uv is modelled as used
by the TCP module: it answers requests, on close first the pending ones with an
error and then the close; `uv_shutdown` refuses a handle that has not begun to
connect. An accepted socket has its server in the same record, because `close()` of
the socket changes the count; the server's other sockets are only counted, each closes
in any turn. A program that has seen `listen()` fail closes the server before it
listens again: otherwise C would use a closed handle.

### Dgram

The socket is a record again and each function of `dgram.js` an operator. `queue` holds
the numbers of early sends, and 0 for a `close()`; `ClearQueue` runs them in one go, and
stops at the first call that throws. 'listening' and 'error' are emitted in the middle of
functions, so what their listeners do is a choice inside the action (`Reactions`: nothing,
send, close, throw); other listeners act after the step. `bind()` sets BINDING before it
asks for a lookup, which may throw (`BindThrows`: the address is no string) or be refused by
`uv_getaddrinfo` (`BindLookupRefused`): `dns.js` ignores that and nobody calls back. `threw`,
`failed` and `stuck` are history: the properties name the exceptions, failures and lookups
without an answer under which the code gives up. The addresses of `send()` are strings: one
that is not would throw, at once or within `clearQueue()`.

### HttpParser and Http

A text is the sequence of its pieces, tagged with message, header and position, so what
JavaScript gets can be compared with what was sent (`sent`, history) without strings.
`gram` is the grammar of the library http_parser: which callback may come next. The C
arrays, their counters, `flushed`, `_headers` and `_url` are as in the code. `Http` adds
the handlers of client and server and, of their socket, what decides when it closes and what
is out by then: `end()`, `destroy()`, `destroySoon()` and 'finish' of `net.js`, the writes that
are queued or in flight (`pending`), the tick of 'finish' and the `destroy()` that waits for it
(`waits`). The model begins when the socket is connected; a connection that fails is
`NetSocket`'s. `exec` is TRUE while the parser runs, so everything a listener does inside a
parser callback comes between two callbacks. A message is written by `Write` and `End`, and
several responses of a server may be open at a time; `end(data)` is the one followed by the
other. A write is refused only after 'finish'; what is written between `end()` of an idle socket
and the tick of 'finish' is marked `late`. The callbacks of writes do not throw.

### Https

One record `r` for the stream, the struct and the curl handle. `r.ctx` says who runs: the
loop, libcurl, or JavaScript called by libcurl. libcurl reads, writes, opens and closes
sockets, waits and finishes whenever it may. `r.incoming` is the response: whether it has
begun, whether it is complete, by itself or by the end of the transfer, and whether the program
has left data of it unread. A response that is cut is given its end, and 'close' follows 'end',
so a program that leaves the rest unread gets no 'close' (`closes.due`). A `curl_global_init()`
that fails leaves the request without a struct, which the next call then uses: that is an
initial state with a fault. `use` remembers what the program or libcurl did that the code
does not stand (abort after the end, inside libcurl, before the stream is finished; write after
end; no libcurl); `FaultHasCause` says that nothing else leads to a use of freed memory.

### Fs

`k` is the file system: names, contents and descriptors with the call that opened them.
`calls` are the JavaScript calls with their continuations, `pool` the requests in the
thread pool, which run in any order. A unit of data stands for the 1023 bytes of one
request. `System` is what the operating system does, `Fault` that it fails; a failing
close releases the descriptor. The asynchronous functions continue in `AfterOpen`,
`AfterRead`, `AfterWrite`, `AfterClose`, the synchronous ones in `AfterSyncStep`.

### ModuleLoader

A path is the sequence of its segments from the root. `Walk` is how the operating system
follows a path, `NormalizePath` what the code makes of it; the first decides which file is
meant, the second under which key it is cached. `stack` holds the modules whose code runs,
innermost last: a module may require, throw (`CompileThrows`) or end (`CompileReturns`) at
any time, and a module that has been loaded may require later. A `require()` that throws
changes nothing in the loader and is no action. `got`, `circular` and `starts` are history.

### Buffer

A call is one action: the JavaScript function with the handler it calls. `touched` holds
the memory the last call read and wrote, as size of the memory and position. The
widths are parameters: a byte has two digits of base `HexBase`, and `SizeMax` is SIZE_MAX,
equal to the largest 32-bit number on a 32-bit target, greater on others. A double above
SIZE_MAX is converted by undefined behaviour: `junk` is any outcome. `Compare` follows the C
type char, signed or not. The copy loop within one buffer has a closed form, which
`MCBuffer` checks against the loop for every overlap.

### RequestPool, the six peripherals, Peripherals

`dev` is the JavaScript wrapper, the C struct and the device; `reqs`, `queue` and
`finished` follow a request from the call through a thread to its after-work function. A
worker reads the struct (`WorkerStart`) and then acts on the device, so another call or a
close may come between. A request's number stands for the data its caller gave. The callback
of `close()` is two steps: the program's part (`CloseReports`), in which it may make further
calls that still pass the guard of the wrapper, and `_binding = null` (`Forget`). A write has
three outcomes (`Written`): done; not done; and done, at least in part, with an error, when
the loop of the UART is cut short or the file cannot be closed. A behaviour ends at the first
undefined behaviour of the C code (`fault`), and `use` holds what the program did before:
overlapping requests, a close that overlaps others (a call made in its callback is one), a
call while the open works, a close or transfer of a device that is not open, a use after
close, an edge, input during a close. The UART calls `uv_poll_init()`, `uv_poll_start()` and
`uv_close()` in a worker, which races with the loop for its lists; no program can avoid that
(`LoopRace`). Each peripheral defines its own calls, workers and after-work functions;
`Peripherals` chooses one and adds process 'exit'.

## 3. The runs

| Run | Instance | Distinct states | Shows |
|---|---|---|---|
| `writable` | 3 sizes (0, below, at the mark), marks 0 and 2, 4 writes | 202,458 | chunks in order, flow control, no lost wake-up; the stream implements `OrderedSink` |
| `readable` | chunks of 0, 1, 2 bytes, 4 pushes, nesting 3 | 6,776 | bytes in order, 'end' exact |
| `events` | 2 functions, 3 registrations, nesting 3 | 119,364 | each emission complete and in order, `once` removed first |
| `process` | 3 ticks, 1 handle, 1 job, 2 exit listeners, 2 codes | 136,227 | exit once and final, ticks in order, ends when it should |
| `timers` | 2 Timeouts, 2 Timers, delays 0, 2, 3 (over the maximum), NaN, lag 1 | 617,850 | called unless cleared, not after, handles safe and not left |
| `net` | 2 writes, 1 read, half open or not, client or accepted; server: 2 calls, 1 more socket | 159,036 | nothing dropped, timer and handle gone, count exact, socket and server closed |
| `dgram` | 3 sends, 2 binds, 2 closes, 2 arrivals | 19,090 | the queue is not stranded, sends answered, 'close' once |
| `http` | client or server, arrays of 2, 2 messages, 2 headers, 1 cut | 1,064,594 | slots in bounds, messages exact, what was written is out, who did not answer is told, closed |
| `https` | 2 writes, 1 socket | 118,414 | chunks in order, handles counted, one close, no lost wake-up |
| `fs` | 2 calls of 8 kinds, 2 paths, 2 descriptors, 1 fault | 344,436 | own descriptors, whole files, every call answered |
| `buffer` | bytes of 2 bits, SIZE_MAX 255, 6 numbers, 3 calls | 11,890 | no access outside memory; exact copies, slices, numbers, order |
| `peripherals` | 6 kinds, 3 requests, 2 threads | 293,822 | faults only with a cause, own data, in order, answered, closed at exit |

TLC's deadlock check is on for the streams, events, process, timers and the socket: there
a process or loop that has come to its end is an explicit stuttering action (`Done`,
`Crashed`). It is off for `dgram`, `http`, `https`, `fs`, `buffer` and
`peripherals`, where the program may simply stop calling and nothing is under way.

The configuration `modules.cfg` of `MCModuleLoader` is kept beside these runs, because the
three results that matter most of the loader are proved: it checks `FilenameIsFile`,
`ExportsComplete`, `SameModule` and `NativeOnce` with 3 module objects, 6 ids, 2 native
modules and 2 current directories (28,324 states, no error).

### What the properties say

- `writable`: `NothingLost` (accepted = flushed, in flight, queued, in that order),
  `Backpressure` (at the mark the user has been told), `NobodyWaitsForever` (a refused
  `write()` leads to 'drain', except at a mark of 0 with a `_write()` that answers at once, what
  was accepted is flushed, `end()` leads to 'finish'),
  `ImplementsSink`. `TypeOK`, `LengthIsPending`, `NoStall`, `DrainToCome` and
  `FinishUnlessLate` are stated and proved as parts of the inductive invariant.
- `readable`: `BytesInOrder`, `EndAfterData`, `EofLeadsToEnd`.
- `events`: `CalledInOrder` (each emission calls exactly what was registered when it began,
  in that order), `OnceIsRemoved`.
- `process`: `TicksInOrder`; `ExitIsFinal` ('exit' at most once, at most one more piece of
  user code starts in state kExiting, a failure is not reported as code 0);
  `EndsUnlessJobs`; `ExitCompletes`.
- `timers`: `WrapOutlivesHandle`; `HandlesAccounted` (a handle without an owner comes only
  from `ref()`, none is left idle, a one-shot is called once); `NoCallAfterClear` (of
  `clearTimeout()` and `clearInterval()`; nothing is said of `unref()`, see section 4);
  `NothingHangs` (a timeout is called unless it is cleared or `unref()`ed, and the process ends
  without them).
- `net`: `ClosedIsDone` (no null handle, no timer, nothing dropped, the server's count),
  `ConnectIsAnswered`, `LeadsToClose` (socket and server).
- `dgram`: `QueueWaitsForBind`, `SendIsAnswered`, `CloseIsEmitted`, each but for a bind that
  failed or never comes back and an exception.
- `http`: `SlotsInBounds`, `MessagesExact`, `OutOrTold` (what was written is out when the
  connection closes; a server is told by 'close', once, exactly if it has not ended its
  response), `Closes`.
- `https`: `FaultHasCause`, `ChunksInOrder`, `ReleasedOnce` (the handles are counted exactly,
  the struct is released once, 'close' is emitted once and kept back only while a response that
  was cut is unread), `EndLeadsToRelease`.
- `fs`: `OwnDescriptor`, `WholeFile`, `CallCompletes`.
- `buffer`: `InBounds` (every access inside its memory), `BytesExact` (exact copies and slices,
  numbers read back, `compare()` a total order, and the way through hexadecimal and back).
- `peripherals`: `FaultHasCause`, `RequestsFaithful` (own data, at most once, in order),
  `ExitCloses`, `Answered`. That a request which reports an error has not reached the device is
  not true of the code and not claimed.
- `ModuleLoader` (`modules.cfg`): `FilenameIsFile` (the file that was tested is the one that is
  cached), `ExportsComplete`, `SameModule` (one object for a file not required in a circle),
  `NativeOnce`.

### The bounds, and why they are enough

- *Streams*: four chunks are one in flight, one queued, one from a listener and one
  after `end()`. A high water mark of 2 has sizes below, at and above it; 0 is the mark that
  nothing is below. A nesting
  of three 'data' listeners has an outer, a middle and an inner one. The proofs
  remove these bounds for the safety properties.
- *EventEmitter*: three registrations let a listener before, at and after the one
  that runs be removed; three nested emissions are one more than any property
  tells apart.
- *Process*: with three ticks one runs, one is in the batch and one in the queue.
  One handle and one job suffice to lose one. Two listeners are one that calls
  `process.exit()` and one behind it.
- *Timers*: two Timer objects are the least for which `ref()` replaces one, and two
  Timeouts the least for which one can disturb another. The delays are below, in
  and above the clamp's range, and NaN. At the bound of Timers no further one is
  created.
- *Socket*: two writes are one in flight and one buffered, so that destroying,
  ending and failing meet both; one chunk of data is enough to be buffered at the
  end of the data. Two calls of the server are two closes, or a close and a new
  `listen()` before its tick; one more socket makes this one the last or not the last.
- *Datagram socket*: three sends are one before, one behind and one after a queued
  `close()`; two binds are a second one after one that failed.
- *HTTP*: arrays of two slots are full after one header, so that two headers meet the
  flush, with and without a cut. Two messages are the least in which one can leave
  something to the other, and two responses the least that can be pipelined. `write()` is
  called while no other write is pending and the socket is not ending, so that with the `end()`
  of each message there are up to three writes, one in flight and two queued.
- *HTTPS*: with two chunks one is being read and one waits in the stream.
- *File system*: two calls are enough for one to open a descriptor between two closes of
  the other. A file of two units needs a second read and a second write; lengths 0 and 2
  are the empty file and one of several pieces. A second path is free or a directory.
- *Module loader*: three module objects are the main module and two that may form a circle,
  or be the same file twice. The ids name files by './', '../', plain and absolute paths, a
  package, a file below the root, and a file that another directory has too.
- *Buffer*: bytes of two bits (`HexBase` 2) make SIZE_MAX 255 on a 32-bit target; the indices
  are negative inside and outside a buffer, 0, 1, in the middle and above every length, and
  `>>>` makes the greatest number of -1. Three calls make two buffers and change one. The
  proofs of `MemorySafe` and `BytesAreExact` remove these bounds.
- *Peripherals*: the open and two more requests, on two threads, so that any two overlap.

### Fairness

- *Writable*: the underlying system gets ready and answers, suspended calls return,
  the tick queue runs. `_readyToWrite()` is called once by every concrete stream
  when it is connected; if it never is, nothing is promised.
- *Readable*: listeners return and the user resumes a paused stream (a user who
  never does gets no 'end'; that is what paused means).
- *Process*: user code and the C code go on (`Script`, `Runtime`); no event of the
  loop has to happen.
- *Timers*: turns end, the loop goes on, time passes, closing callbacks come: uv
  runs a close callback in the iteration in which the handle was closed.
- *Socket*: callbacks return and ticks run (`Loop`); uv answers every request it
  took, strongly fair, since other callbacks may always come between. Nothing has
  to arrive from the peer and the user has to do nothing. That a write is answered
  is an assumption about the peer: it reads, or the connection fails.

- *Datagram socket*: uv answers every lookup and every datagram it took, ticks run,
  handles close. Nothing has to arrive.
- *HTTP*: the parser returns, ticks run, a handle that is closed says so, and the system
  answers every write (strongly fair: data may go on arriving). As for the socket, the last is
  an assumption about the peer: `destroy()` waits for 'finish', so with a peer that never reads
  a connection with a write in flight stays, timeouts or not.
- *HTTPS*: ticks, timers and close callbacks run; libcurl runs when it has something to
  do, asks for data until it is told that there is no more, and a transfer that has sent
  everything is over some time. That is what libcurl promises when it is called as the
  code does, with its own timeouts.
- *File system, peripherals*: the threads of the pool and the loop go on.

The user's actions are never fair, except `Resume` in the readable stream.

## 4. Findings and deviations

Each line names a property that the documentation, a comment, an assertion or the use of the
code suggests, and that TLC finds violated; the properties of the runs exclude exactly these
cases. The configuration is that of the run named, with its properties replaced by this one and the
constants changed as said.

| Run (module), changes | Property | What happens |
|---|---|---|
| run `writable` (`MCWritableStream`) | `FinishMeansFlushed` | a `write()` between `end()` and the tick of 'finish' is accepted, and 'finish' comes with it unflushed (`docs/api/IoT.js-API-Stream.md:326`) |
| run `writable` (`MCWritableStream`) | `RefusedLeadsToDrain` | with `highWaterMark` 0 and a `_write()` that answers before it returns, `write()` says that the user has to wait when everything is written already, and 'drain' never comes (`docs/api/IoT.js-API-Stream.md:290-292`) |
| run `events` (`MCEventEmitter`) | `OnceAtMostOnce` | a listener that emits its own event makes a `once` listener behind it run in both emissions (`docs/api/IoT.js-API-Events.md:132`) |
| run `process` (`MCProcess`), `MaxTicks = 2` | `EndsWithoutWork` | `more` is computed before the promise jobs run, so what a job of the last iteration starts is dropped (`docs/api/IoT.js-API-Process.md:126`) |
| run `process` (`MCProcess`), `MaxTicks = 2`, `MaxJobs = 0`, `Asserts = TRUE` | `NoAssertionFails` | `process.exit()` in a tick makes `iotjs_jhelper_call_ok` fail its assertion, in an 'exit' listener that of `iotjs_environment_go_state_exiting` |
| run `timers` (`MCTimers`), `Timeouts <- MCTimeouts1` | `NoZombieTimer` | `ref()` on an active `Timeout` starts a second timer and forgets the first, which `clearInterval()` then does not stop |
| run `timers` (`MCTimers`), `Timeouts <- MCTimeouts1` | `UnrefKeepsTimeout` | `unref()` stops the timer and drops the callback as `clearTimeout()` does, so in a loop that goes on the callback is never called (`docs/api/IoT.js-API-Timers.md:90-92`) |
| run `net` (`MCNetSocket`) | `EndsLeadToClose` | after 'finish', a peer's end that arrives while data is buffered leaves the socket open for ever; `destroySoon()` tests a property that no stream has (comment at `js/net.js:214`) |
| run `fs` (`MCFs`), `Kinds <- MCReads`, `MaxFaults <- MCNoFaults` | `ErrorIsReported` | the callback given to `close()` shadows `err` (`js/fs.js:197`), so a read that fails (of a directory, say) is reported as `null` without data, and the missing `return` closes the descriptor, by then perhaps another call's, a second time (`docs/api/IoT.js-API-File-System.md:390-394`) |
| run `buffer` (`MCBuffer`) | `FirstByteDecides` | where char is signed, a byte of the upper half compares as lower than one of the lower half (`docs/api/IoT.js-API-Buffer.md:237-239`) |
| run `peripherals` (`MCPeripherals`) | `EdgeOpenSucceeds` | `gpio_set_edge()` returns false when it has succeeded, so the open of a pin with an edge reports an error (`docs/api/IoT.js-API-GPIO.md:70-72`) |
| run `http` (`MCHttp`) | `UrlIsOwn` | `_url` is never reset (`this.url` is), so a second request whose headers were flushed has both urls (`docs/api/IoT.js-API-HTTP.md:326-327`) |
| run `http` (`MCHttp`) | `NothingThrown` | after input that is not HTTP the client drops the parser and `destroy()` waits for the writes in flight: data that arrives meanwhile calls `null.execute()` (`js/http_client.js:147`); a write queued `late` finds no handle |
| run `https` (`MCHttps`) | `EndLeadsToClose` | a transfer that is over before libcurl asked for the first chunk is never released (`docs/api/IoT.js-API-HTTPS.md:90-91`) |

Further facts met while modelling, without a run of their own: a main script that
throws with a handler installed leaves its ticks to the first iteration of the
loop; an 'exit' listener that calls `process.exit()` keeps those behind it from
being called; a timer counts from the loop's cached time and may so fire early;
a socket without a timeout emits 'timeout' after 1 ms of every activity, since `_timeout` 0 becomes 1; a timeout set by a 'timeout'
listener is cleared as soon as the listener returns; `end()` before the
connection has begun emits 'finish' and never shuts the connection down;
`connect()`, `end()` and then `destroy()` in the 'connect' listener make the tick
that starts to read use a null handle; a lookup that fails while chunks wait leaves
a socket that never emits 'close'.

*Server*: a second `listen()` on a running server closes its handle; a server closed
twice emits 'close' twice; a connection that `uv_accept` refuses leaks its handle.
*Datagram socket*: a bind that fails leaves a queued `close()` waiting; a listener that
throws in 'listening' strands the queue, and one in 'error' leaves the socket binding, as does
a lookup that throws or that `uv_getaddrinfo` refuses, whose result `dns.js` ignores; a
send whose lookup ends after `close()` is dropped silently; `exceptionWithHostPort` and
`errnoException` are undefined names, so a refused send and a receive error throw.
*HTTP*: trailers open the headers of the next message; `flushed` is never reset; a
response that is not HTTP gives 'error' twice; the status of a write is ignored, so 'finish'
of a response is emitted though its write failed; pipelined responses go out in the order in
which they are ended, whatever the order of the requests, and the first that is ended closes the
connection; a response that is ended between the end of an idle socket and the tick of 'finish'
may be cut; `res.end()` after 'finish' throws, because `socket._server` is null by then.
*HTTPS*: the callback of the last chunk is called twice; `abort()` after the end, inside a
listener or with a chunk buffered cleans up twice or uses a curl handle that is gone; 'close'
of a response that was cut comes only when the program has read the rest; a
`curl_global_init()` that fails leaves a request without a struct, which is used then. *File system*: after a write that fails the
position is NaN, and the next write depends on an undefined conversion; `writeFile()` of
empty data throws in the callback of the open and leaks the descriptor; the synchronous
functions swallow errors and return part of the data. *Module loader*: a circle of user
modules makes a second object of a file and, unless a module stops it, goes on without end; a
native module whose code threw stays half made in the cache; a module that requires an id
equal to its own is told that it is not found; a path with more '..' than it has
segments throws, though the operating system accepts it. *Buffer*: a copy onto a later part of
the same buffer repeats bytes; with noAssert on a 32-bit target an offset of 0xFFFFFFFF means
byte 0; `new Buffer(string, 'hex')` ignores an odd last digit; `toString('hex')` of an empty
buffer throws; elements of an array outside a byte are converted by undefined behaviour, so
the model takes arrays of bytes. *Peripherals*: transfers of SPI and
writes of UART share one buffer of the struct; `device_fd` of SPI is 0 until it is opened,
so a close or a transfer before that, or after an open whose path does not exist, acts on
descriptor 0; the callback of a failed SPI transfer throws; a call made in the callback of
`close()` passes the guard and its object may be freed under the worker; a setter of PWM reads
the path while the open writes it; a write that fails may have reached the device;
I2C and ADC are freed by hand while requests may use them; the edge thread of GPIO calls
JavaScript from its own thread and outlives the pin; UART calls `uv_poll_init`,
`uv_poll_start` and `uv_close` from a worker.

## 5. The proofs

All theorems are checked by TLAPS to the last leaf, with the backends SMT, Zenon
and, for the temporal steps, LS4. They hold for every value of the constants that
satisfies the assumption of the module concerned (`ConstantsAssumption`, `NetAssumption`,
`HttpsAssumption`, `HeaderMaxAssumption`, `BoundsAssumption`, `PoolAssumption`,
`NumbersAssumption`), which says only that the constants have their types and are told apart,
that the high water mark of a stream is an integer, the number of writes of an HTTPS request and
the threads of the pool are at least 1 and the parser's arrays have at least 2 slots, that the sockets of
libcurl are finitely many, and that an index is below SIZE_MAX when it comes to C (`~~` leaves
a number below 2^31).

A module of proofs may be about several specifications. Where it extends more than one, the
specifications other than the first keep the name of their component: `ReadSpec`,
`NetSpec`, `DgramSpec`, `PeripheralsSpec`. Only `ModuleLoader` is an instance, `L`.

| Theorem | States |
|---|---|
| `WritableStreamProofs!TypeCorrect` | `Spec => []TypeOK` |
| `...!Lossless` | `Spec => []NothingLost` |
| `...!ExactLength` | `Spec => []LengthIsPending` |
| `...!FlowControl` | `NoStall`, `DrainToCome`, `Backpressure` |
| `...!FinishSound` | `Spec => []FinishUnlessLate` |
| `...!SinkRefinement` | `Spec => ImplementsSink` |
| `HttpProofs!ReadTypeCorrect` | `ReadSpec => []TypeOK` |
| `HttpProofs!ReadLossless` | `ReadSpec => []BytesInOrder` |
| `HttpProofs!ReadEndCorrect` | `ReadSpec => [](EndAfterData /\ EndNotForgotten)` |
| `EventEmitterProofs!EmissionIsExact` | `Spec => []CalledInOrder` |
| `EventEmitterProofs!OnceLeavesTheList` | `Spec => []OnceIsRemoved` |
| `EventEmitterProofs!ClosedSocketIsDone` | `NetSpec => []ClosedIsDone` |
| `ProcessProofs!ExitFinal` | `Spec => []ExitIsFinal` |
| `ProcessProofs!TicksRunInOrder` | `Spec => []TicksInOrder` |
| `ProcessProofs!LoopEndsWithoutWork` | `Spec => []EndsUnlessJobs` |
| `TimersProofs!HandleSafety` | `Spec => []WrapOutlivesHandle` |
| `TimersProofs!ClearIsFinal` | `Spec => NoCallAfterClear` |
| `TimersProofs!AllHandlesAccounted` | `Spec => []HandlesAccounted` |
| `HttpProofs!ParserSlotsInBounds` | `Spec => []SlotsInBounds` |
| `HttpProofs!MessagesArriveExactly` | `Spec => []MessagesExact` |
| `HttpProofs!EndedIsOutOrTold` | `Spec => []OutOrTold` |
| `NetworkProofs!StructReleasedOnce` | `Spec => []ReleasedOnce` |
| `NetworkProofs!ChunksReachCurlInOrder` | `Spec => []ChunksInOrder` |
| `NetworkProofs!FaultsHaveCauses` | `Spec => []FaultHasCause` |
| `NetworkProofs!DatagramsWaitForBind` | `DgramSpec => []QueueWaitsForBind` |
| `BufferProofs!MemorySafe` | `Spec => [](TypeOK /\ InBounds)` |
| `BufferProofs!BytesAreExact` | `Spec => []BytesExact` |
| `PoolProofs!OwnDescriptors` | `Spec => []OwnDescriptor` (of `Fs`) |
| `PoolProofs!WholeFiles` | `Spec => WholeFile` (of `Fs`) |
| `PoolProofs!DeviceFaultsHaveCauses` | `PeripheralsSpec => []FaultHasCause` |
| `PoolProofs!EachRequestItsOwn` | `PeripheralsSpec => []RequestsFaithful` |
| `PoolProofs!ExitLeavesNoDevice` | `PeripheralsSpec => []ExitCloses` |
| `PoolProofs!OneModuleOfAFile` | `L!Spec => []L!SameModule`, `L` being `ModuleLoader` |
| `PoolProofs!NothingHalfMade` | `L!Spec => []L!ExportsComplete` |
| `PoolProofs!NativeRunsOnce` | `L!Spec => []L!NativeOnce` |

*Writable.* None of the properties is inductive alone. The invariant `IInv` is the
conjunction of `TypeOK`, `TotalsInv` (the prefix sums belong to the accepted
chunks), `InflightInv` (exactly one chunk in flight while `writing`, otherwise
none), `NestedInv` (a call is suspended in the write of the chunk in flight, as long as no
answer came before its `_write()` returned; `DrainToCome` needs it for a mark of zero or
less), and the properties themselves with `FinishInv` (an
`emitFinish` is scheduled only when, without late writes, nothing is pending). The
crux is that `writeBuffered()` and `writeOrBuffer()` reach `doWrite()` only when
`writing` is false, at every nesting; `InflightInv` says it. Bytes are counted by
prefix sums kept as history, so no induction over sequences is needed. There is one
lemma for each action and the refinement theorem maps `finished` to
`ended /\ ~late`, each step to a step of the sink or a stutter.

*Readable.* `BytesInOrder` (pushed = got followed by buffer), `FlowingIsDrained`
and the two facts about 'end' are inductive together with `TypeOK`; the proof looks
at each action and each way `emitData()` may be suspended.

*Events.* The invariant says of the list and of every copy on the stack the same thing
(`Good`): the registrations in it are ordered, made already, and wrapped exactly when
`once()` made them. To it belong `NotCalledYet` (a registration to come was never
called) and that the loop of `emit()` never steps over an entry. `OnceIsRemoved` depends on
the wrapper, which removes one entry, the last that it finds: that no second entry of the same
registration is left behind is what the order of the registrations gives.

*Process.* Everything hangs on which calls may be active in which place of the C code.
`StackInv` gives that shape: a call that ends in `process.doExit()` (the 'finally' of
`process.exit()`) is on the stack once 'exit' was emitted and until kExiting is reached, in
the places that run no JavaScript the stack is empty, and nothing but a listener is below
the 'exit' of the end of the loop. `GraceInv` counts the branches the engine may still
pass, so at most one piece of user code starts afterwards. `ExitInv` carries `ExitIsFinal`.
`TickInv` adds to `TicksInOrder` that there is no batch outside `_onNextTick()`, so taking
a new one from the queue loses nothing, and an exception in a tick leaves the rest of its batch
to the loop that called it. `WorkInv` says that `more`, taken
before the promise jobs, tells the truth as long as no job was ever enqueued. There is one
lemma for each operator that pushes, pops or unwinds the stack and one for each action.

*Timers.* `WrapOutlivesHandle` needs that a wrap's reference is dropped exactly
when its handle is closed (`WrapInv`), and that the clean-up reaches `final` only
when no handle is idle or active any more (`FinalInv`). `NoCallAfterClear` needs that a cleared
Timeout has no callback and is never given one again (`ClearInv`); then no Timer
that still points to it can call. `HandlesAccounted` needs `AccountInv`: a Timeout that was
not made is known to nobody (`UnmadeInv`), each Timer object belongs to the Timeout that
points to it unless `ref()` replaced it, and a running handle has a callback (`OwnerInv`),
uv repeats exactly the intervals (`RepeatInv`), a handle that has stopped belongs to the callback
that runs or to an excused Timeout (`IdleInv`), and the single call of a one-shot is over or
cannot come again (`OneShotInv`). The proof showed that `None` must not be a Boolean, since
`isrepeat` is one or `None`; the assumption says so now.

*Sockets.* The lemmas speak of a socket `k`, the ticks left of the batch and the history as
arguments, because a function of `net.js` runs in the middle of a step, with the record half
changed. `NetInv` has two parts. `Base` holds whatever the user does: the fields fit together
(`Fits`: a destroyed socket has ended, has no timer and does not read), each tick that waits has
its reason (`TicksFit`), nothing is left to write once 'finish' was emitted or is about to be
(`Written`), and the server counts (`Served`). `Orderly` holds until the user ends a socket before
it is connected or writes after `end()`: no lookup is under way on a socket that ends; a connect
that is under way on one that ends still has chunks to write, or a 'finish' in this turn that will
destroy it; and the tick that starts to read comes before any 'finish', so it finds the handle.
`Orderly` is what keeps a null handle from being used. There is one lemma for each function of
`net.js` that says how it changes the record (`Calm`: it only ends and destroys, and that is
transitive, so it passes through `destroySocket()`, `emitFinish()` and the listeners), one that it
keeps `Sound`, and one for each action. TLC had checked `NetInv` on the `net` run first.

*HTTP.* `HttpInv` is about the parser (`ParserInv`) and the connection (`ConnInv`). The crux of
the first is `SlotsHold`: the headers flushed to JavaScript followed by those in the C arrays are,
one by one, what the peer has sent of this message so far, the last of them as a prefix if the
input was cut within it. It holds as long as no earlier message had trailers (`Plain`), since
trailers stay in the slots for the next message; `SlotPart`, that the arrays do not overflow and
that a value follows its field, holds always. `OpenPart`, `RestPart` and `UrlPart` say what of
this is true before, within and after the header of a message. `ConnInv` is about the socket
(`SocketInv`): one that is ending is waited for by a `destroy()`, so its 'finish' and the close
of its handle are one step; when 'finish' is due or was emitted nothing is pending unless it was
written in that tick. `OwnerInv` says that the response to a single request owns the socket
exactly until it is ended, which decides whether 'close' is emitted.

*HTTPS.* The invariant `IInv` is a predicate `Sound` of the record that holds between
any two calls whatever the program does, and `CleanPart`, which holds as long as it did
nothing that the code does not stand. The parts of `Sound`: the count `closing_handles` is
the cardinality of the handles not closed, all timers are open before the clean-up and none
after it (`HandlePart`); one clean-up, one 'close' emitted or due, and due only while a cut
response is unread (`ClosePart`); libcurl is gone exactly
after the clean-up and not entered after the end of the transfer (`CurlPart`); the
chunk in C and those in the stream are consecutive numbers up to the last that was written
(`BufferPart`); a chunk is in C while the stream waits for it, and what went over the wire
follows from that (`ChunkPart`); a request without body never touches the stream (`GetPart`).
Every operator has a lemma that says which fields it changes and one that says that it keeps
`Sound`; each action is then a few steps. `FaultHasCause` is the part that needs all the others:
with `use = {}` the stream has ended, with an empty buffer, before the clean-up can come.

*Buffer.* `TypeOK` and `InBounds` are inductive together: an access of the next call is
inside because the length of a buffer is the size of its memory. The lemmas follow the
path of a number: `ToSize` and `BoundRange` give a position not above the upper limit
whatever the number, the ranges of copy, write and slice are then inside their source, and
the loop's own test keeps the target. The case that needs care is `length - 1` of an empty
buffer, which is SIZE_MAX; the handler reads nothing then.
`BytesAreExact` goes the same path once more with values: an index is clamped to exactly the
position the documentation names (`ClampExact`, `SliceIndexExact`; here `NumbersAssumption` is
needed), the loop of `copy()` is a splice of the bytes, a number that is written digit by digit is
read back (`DivTwice`, `DigitsOfNumber`), `compare()` decides at the first position that
differs, which exists because the positions are well-founded, and hexadecimal text comes back.

*Files.* The property says nothing once a read or write failed, so the invariant `FsInv` has a
part that always holds (shapes; the pool has only requests of asynchronous calls, and a
synchronous call after a failure only its `close()`, so `failed` is never taken back) and one
that holds while all is `Quiet` (`OwnPart`): a call has at most one request under way
(`OneRequest`), a request that waits uses a descriptor its call owns (`Held`), and one that was
executed has left it to the call (`HeldDone`). Then `close()` takes nothing from another call and
`open()` finds its descriptor free, though its number was used before.
`WholeFile` is about one call while others fail, so it needs a second invariant, `WholeInv`, that
follows each call by itself. A call is `Clean` while none of its reads and writes has failed and
nobody disturbs it. The request of a clean call finds descriptor, position and file as the call has
left them (`Waiting`) and leaves them so to the continuation (`Ended`): what was read is a prefix
of the file and the position stands behind it, what was written is the beginning of the data. The
kernel and the record of the call are arguments of both, because a synchronous step executes
a request and continues at once. Each system call is described exactly (`OpenDoes`, `ReadDoes`,
`WriteDoes`, `CloseDoes`, `NamesDoes`); one of a call that neither writes nor strays leaves the
files and the descriptors of the others alone (`OthersSpared`); and the calls under way know of each
other (`OverlapInv`), so whoever could touch a clean call is in its history. `SingleInv` gives one
request at a time to a call that has not failed, and `InodeInv` counts the inodes, so that
`open()` finds a free one. The attempt to prove `WholeFile` refuted an earlier form of it: with three
calls, a failed one closes the descriptor of the second, which has not failed itself, and
that one then reads through the descriptor of the third and moves its position. `Disturbing`
therefore names the calls that have strayed, too; TLC confirmed both the counterexample and, with
three calls, the new form.

*Datagrams.* `SocketInv` says of the record that the sends marked as queued are those in the
queue and that a queue belongs to an open socket; it holds within a step too, since
`clearQueue()` and the listeners run in the middle of one. `ClearPart`, that somebody will clear
the queue unless a listener threw or a lookup never calls back, holds between steps.

*Peripherals.* The three properties are proved together, by `DeviceInv`, for all six
peripherals. `Lists` says that the queue of the pool and the list of finished requests hold exactly
requests in that state, each once; `AlonePart` what a program that does not overlap its calls
gains: only its last request is pending, and a pending `close()`, which is one until its
callback has returned, is alone. `FreedPart` and
`ClosedPart` follow the struct: who has forgotten or freed a device has no request pending, and
forgets only a closed one; `UartPart`, `OpenPart` and `EdgePart` are about single peripherals.
`DataPart` says where the data of a request is until it is answered, field by field of the struct
(`InPlace`), and `WirePart` that a request that is to be executed comes after all that is on the
wire. Submitting, executing and ending a request are done alike
everywhere, so there is one lemma for each with side conditions, and each peripheral only
has to show these of its own operations.

*Module loader.* `ExportsComplete` needs that the cache holds only complete modules
(`CacheInv`), and that a module on the stack is being compiled and is there once
(`StackInv`), so that the end of one call completes no module that is still running and
spoils none that is cached. `NativeOnce` needs that a module not in the native cache was never
started (`NativeInv`). `SameModule` needs that a file required in no circle is compiled in one
frame only and is not in the cache meanwhile (`AloneInv`), so that the end of its code enters it
for the first time (`GotInv`). Nothing is assumed of files, paths or ids.

*Only model-checked*: every liveness property (fairness is out of the prover's
reach), and of `ModuleLoader` `FilenameIsFile`, because paths are walked by recursive functions,
and what such a function computes is shown by induction over the path.

## 6. The plan

Done, in this order: writable and readable streams, events, process, timers, socket and
server, peripherals, HTTP, HTTPS, datagram sockets, files, buffers, module loader. Next:

1. `Fs`: a user's own sequence of `open()`, `read()`, `write()` and `close()`, `fstat()`.
2. Socket options and memberships of `Dgram`.

## 7. What is not modelled

- *In the modelled components*: strings and encodings of chunks, a `highWaterMark` that is no
  number, the callbacks of single writes (which are taken not to throw), the end marker NuttX puts into streams, command line parsing and the debugger,
  the text of sources, addresses, families and keep-alive of sockets, options of
  datagram sockets, heads and chunked encoding of HTTP as text, certificates, `fstat()`,
  lengths of the buffers of SPI and UART, several objects on one bus.
- *A listener's own calls* are taken to come after the step that called it, except where a
  function goes on after its listeners or callback: there the model has a step or a choice
  between.
- *The platforms NuttX, TizenRT and Tizen*: the same operations on other devices; the
  models follow the Linux files.
- *The table of native bindings* (`iotjs_module.c`): filled once at the start.
- *Bluetooth LE*: a port of another project; its GATT state may become a module.
- *The engine binding, strings, logging, assertions, constants, test driver*: wrappers and
  helpers without state of their own.
- *libtuv, JerryScript, http-parser, mbedtls, libcurl*: outside the repository. Their
  behaviour is modelled from how the code uses them.
