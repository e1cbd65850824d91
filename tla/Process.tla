------------------------------- MODULE Process -------------------------------
(***************************************************************************)
(* The life of an IoT.js process: the start and the event loop of iotjs.c, *)
(* the state of iotjs_env.c, the calls into JavaScript of                  *)
(* iotjs_binding_helper.c and the next-tick queue, exit and uncaught       *)
(* exceptions of js/iotjs.js.                                              *)
(*                                                                         *)
(* C code runs step by step (pc).  Where it calls JavaScript, js holds the *)
(* active calls, innermost first: user code that may do anything the       *)
(* process API offers, and the emission of 'exit' between its listeners.   *)
(* Once the state is kExiting, the virtual machine aborts the script at a  *)
(* backward branch: at the second one at the latest (the stop callback is  *)
(* polled at every second branch), and from then on no try block helps.    *)
(***************************************************************************)
EXTENDS Integers, Sequences

CONSTANTS
    Code,          \* exit codes a user may give
    Listeners,     \* number of 'exit' listeners
    MaxTicks,      \* bound: process.nextTick() calls
    MaxWork,       \* bound: handles and requests started
    MaxJobs,       \* bound: promise jobs enqueued
    Asserts        \* TRUE: IOTJS_ASSERT is compiled in (no NDEBUG)

ASSUME ConstantsAssumption ==
    /\ Code \subseteq Nat
    /\ Listeners \in Nat
    /\ MaxTicks \in Nat
    /\ MaxWork \in Nat
    /\ MaxJobs \in Nat
    /\ Asserts \in BOOLEAN

VARIABLES
    env,         \* iotjs_environment_t.state
    pc,          \* where the C code is
    js,          \* the active JavaScript calls, innermost first
    queue,       \* nextTickQueue; ticks are numbered in the order of the calls
    batch,       \* what is left of _onNextTick's copy of the queue
    more,        \* more, of iotjs_start's loop
    polled,      \* this uv_run has handled an event
    work,        \* active handles and requests of the uv loop
    jobs,        \* jobs in the promise queue
    exiting,     \* process._exiting
    exitCode,    \* process.exitCode
    left,        \* 'exit' listeners still to be called
    grace,       \* backward branches the VM lets pass once kExiting
    handler,     \* 'uncaughtException' has a listener
    crashed,     \* an IOTJS_ASSERT failed
    started,     \* numbers of work and jobs started so far (for the bounds)
    scheduled,   \* history: ticks scheduled
    ran,         \* history: ticks started
    exits,       \* history: times 'exit' was emitted
    after,       \* history: ticks, listeners and handlers started in state kExiting
    failed       \* history: an exception with no handler started the exit

loop == <<more, polled>>
tickVars == <<queue, batch, scheduled, ran>>
workVars == <<work, jobs, started>>
exitVars == <<exiting, exitCode, left, exits, failed>>
vars == <<env, pc, js, loop, tickVars, workVars, exitVars, grace, handler, crashed, after>>

Exiting == env = "kExiting"

\* Frames in which user code runs.
UserFrame == {"script", "handler", "listener"}
\* Where iotjs_start runs the main script or a callback, and where _onNextTick.
ScriptPc == {"main", "mainThrew", "callback"}
TicksPc == {"mainTicks", "callbackTicks", "loopTicks"}
Init ==
    /\ env = "kInitializing"
    /\ pc = "start"
    /\ js = <<>>
    /\ queue = <<>>
    /\ batch = <<>>
    /\ more = FALSE
    /\ polled = FALSE
    /\ work = 0
    /\ jobs = 0
    /\ exiting = FALSE
    /\ exitCode = 0
    /\ left = 0
    /\ grace \in {0, 1}
    /\ handler \in BOOLEAN
    /\ crashed = FALSE
    /\ started = [work |-> 0, jobs |-> 0]
    /\ scheduled = 0
    /\ ran = 0
    /\ exits = 0
    /\ after = 0
    /\ failed = FALSE

\* A backward branch of iotjs.js or events.js, or a catch block: not aborted.
Branch == ~Exiting \/ grace > 0
SpendBranch == grace' = IF Exiting THEN grace - 1 ELSE grace
CountCallback == after' = IF Exiting THEN after + 1 ELSE after

-----------------------------------------------------------------------------
(***************************************************************************)
(* Process functions of js/iotjs.js.                                       *)
(***************************************************************************)

\* process.doExit(), with the frames rest below: js and env.  The exit code is the
\* one process.exitCode has already.
DoExit(rest) ==
    /\ env' = "kExiting"
    /\ js' = rest
    /\ UNCHANGED <<exiting, left, exits>>

\* process.emitExit() the first time it is called: exiting, left, exits.
EmitExit ==
    /\ exiting' = TRUE
    /\ left' = Listeners
    /\ exits' = exits + 1

\* Mutant of Exit: 'exit' is emitted again by a listener that calls process.exit().
ExitAgain(c, rest) ==
    /\ exitCode' = c
    /\ js' = <<"emit", "finally">> \o rest
    /\ EmitExit
    /\ UNCHANGED env

\* process.exit(c): 'exit' is emitted unless it already was, then doExit().
Exit(c, rest) ==
    \/ /\ ~exiting
       /\ exitCode' = c
       /\ js' = <<"emit", "finally">> \o rest
       /\ EmitExit
       /\ UNCHANGED env
    \/ /\ exiting
       /\ UNCHANGED exitCode
       /\ DoExit(rest)

\* process._onUncaughtException(), with the frames rest below: env, js, exitVars,
\* grace, after.
OnUncaughtException(rest) ==
    \/ /\ handler
       /\ Branch
       /\ SpendBranch
       /\ CountCallback
       /\ js' = <<"handler">> \o rest
       /\ UNCHANGED <<env, exitVars>>
    \/ /\ ~handler
       /\ failed' = (failed \/ ~exiting)
       /\ Exit(1, rest)
       /\ UNCHANGED <<grace, after>>

-----------------------------------------------------------------------------
(***************************************************************************)
(* User code.                                                              *)
(***************************************************************************)

InUserCode == js # <<>> /\ Head(js) \in UserFrame

\* process.nextTick().
NextTick ==
    /\ InUserCode
    /\ scheduled < MaxTicks
    /\ scheduled' = scheduled + 1
    /\ queue' = Append(queue, scheduled + 1)
    /\ UNCHANGED <<env, pc, js, loop, batch, ran, workVars, exitVars, grace, handler,
                   crashed, after>>

\* A timer, a socket, a file operation... keeps the uv loop alive.
StartWork ==
    /\ InUserCode
    /\ started.work < MaxWork
    /\ started' = [started EXCEPT !.work = @ + 1]
    /\ work' = work + 1
    /\ UNCHANGED <<env, pc, js, loop, tickVars, jobs, exitVars, grace, handler, crashed,
                   after>>

\* A promise is settled or then() is called on a settled one.
EnqueueJob ==
    /\ InUserCode
    /\ started.jobs < MaxJobs
    /\ started' = [started EXCEPT !.jobs = @ + 1]
    /\ jobs' = jobs + 1
    /\ UNCHANGED <<env, pc, js, loop, tickVars, work, exitVars, grace, handler, crashed,
                   after>>

\* process.exitCode = c.  (Users do not change their mind while 'exit' is emitted.)
SetExitCode ==
    /\ InUserCode
    /\ ~exiting
    /\ exitCode' \in Code
    /\ UNCHANGED <<env, pc, js, loop, tickVars, workVars, exiting, left, exits, failed,
                   grace, handler, crashed, after>>

\* process.exit(code), or process.exit() which keeps process.exitCode.
CallExit ==
    /\ InUserCode
    /\ \E c \in Code \union {exitCode} : Exit(c, js)
    /\ UNCHANGED <<pc, loop, tickVars, workVars, grace, handler, crashed, after, failed>>

\* The user code returns.
Return ==
    /\ InUserCode
    /\ js' = Tail(js)
    /\ UNCHANGED <<env, pc, loop, tickVars, workVars, exitVars, grace, handler, crashed,
                   after>>

\* The main script, a callback or a tick throws: _onUncaughtException is called by
\* iotjs_run, iotjs_make_callback or _onNextTick.  (A tick that throws in state
\* kExiting changes no more than one that returns or is aborted.)
ThrowInScript ==
    /\ js # <<>>
    /\ Head(js) = "script"
    /\ pc \in ScriptPc \/ (pc \in TicksPc /\ ~Exiting)
    /\ OnUncaughtException(Tail(js))
    /\ pc' = IF pc = "main" THEN "mainThrew" ELSE pc
    /\ UNCHANGED <<loop, tickVars, workVars, handler, crashed>>

\* A promise job throws: its promise is rejected and nobody else hears of it.
ThrowInJob ==
    /\ js = <<"script">>
    /\ pc = "jobs"
    /\ js' = <<>>
    /\ UNCHANGED <<env, pc, loop, tickVars, workVars, exitVars, grace, handler, crashed,
                   after>>

\* The handler of 'uncaughtException' throws: process.exit(1).
ThrowInHandler ==
    /\ js # <<>>
    /\ Head(js) = "handler"
    /\ ~Exiting
    /\ Exit(1, Tail(js))
    /\ UNCHANGED <<pc, loop, tickVars, workVars, grace, handler, crashed, after, failed>>

\* An 'exit' listener throws: process.exit() catches it; iotjs_process_emit_exit,
\* which emits 'exit' at the end of the loop, reports it by the exit code.
ThrowInListener ==
    /\ js # <<>>
    /\ Head(js) = "listener"
    /\ \/ /\ Len(js) > 2
          /\ Branch
          /\ SpendBranch
          /\ exitCode' = 1
          /\ \/ /\ handler /\ ~Exiting
                /\ js' = <<"handler">> \o Tail(Tail(js))
                /\ UNCHANGED <<env, exiting, left, exits>>
             \/ /\ ~handler \/ Exiting
                /\ DoExit(Tail(Tail(js)))
       \/ /\ Len(js) = 2
          /\ exitCode' = 2
          /\ js' = <<>>
          /\ UNCHANGED <<env, exiting, left, exits, grace>>
    /\ UNCHANGED <<pc, loop, tickVars, workVars, handler, crashed, after, failed>>

-----------------------------------------------------------------------------
(***************************************************************************)
(* The JavaScript of iotjs.js between the pieces of user code.             *)
(***************************************************************************)

\* emit('exit') calls the next listener.
CallListener ==
    /\ js # <<>>
    /\ Head(js) = "emit"
    /\ left > 0
    /\ Branch
    /\ SpendBranch
    /\ CountCallback
    /\ left' = left - 1
    /\ js' = <<"listener">> \o js
    /\ UNCHANGED <<env, pc, loop, tickVars, workVars, exiting, exitCode, exits, failed,
                   handler, crashed>>

\* emit('exit') has called all its listeners.
EmitDone ==
    /\ js # <<>>
    /\ Head(js) = "emit"
    /\ left = 0
    /\ Branch
    /\ SpendBranch
    /\ js' = Tail(js)
    /\ UNCHANGED <<env, pc, loop, tickVars, workVars, exitVars, handler, crashed, after>>

\* Mutant of FinallyDoExit: process.exit() only emits 'exit'.
FinallyNothing ==
    /\ js # <<>>
    /\ Head(js) = "finally"
    /\ js' = Tail(js)
    /\ UNCHANGED <<env, exiting, left, exits>>
    /\ UNCHANGED <<pc, loop, tickVars, workVars, exitCode, grace, handler, crashed, after,
                   failed>>

\* process.exit() reaches its finally block.
FinallyDoExit ==
    /\ js # <<>>
    /\ Head(js) = "finally"
    /\ DoExit(Tail(js))
    /\ UNCHANGED <<pc, loop, tickVars, workVars, exitCode, grace, handler, crashed, after,
                   failed>>

\* Mutant of RunTick: the last of the batch first.
RunTickLast ==
    /\ pc \in TicksPc
    /\ js = <<>>
    /\ batch # <<>>
    /\ Branch
    /\ SpendBranch
    /\ CountCallback
    /\ ran' = batch[Len(batch)]
    /\ batch' = SubSeq(batch, 1, Len(batch) - 1)
    /\ js' = <<"script">>
    /\ UNCHANGED <<env, pc, loop, queue, scheduled, workVars, exitVars, handler, crashed>>

\* _onNextTick calls the next callback of its copy of the queue.
RunTick ==
    /\ pc \in TicksPc
    /\ js = <<>>
    /\ batch # <<>>
    /\ Branch
    /\ SpendBranch
    /\ CountCallback
    /\ ran' = Head(batch)
    /\ batch' = Tail(batch)
    /\ js' = <<"script">>
    /\ UNCHANGED <<env, pc, loop, queue, scheduled, workVars, exitVars, handler, crashed>>

-----------------------------------------------------------------------------
(***************************************************************************)
(* iotjs_start and what it calls.                                          *)
(***************************************************************************)

\* iotjs_start up to the call of the main script.
StartMain ==
    /\ pc = "start"
    /\ env' = "kRunningMain"
    /\ pc' = "main"
    /\ js' = <<"script">>
    /\ UNCHANGED <<loop, tickVars, workVars, exitVars, grace, handler, crashed, after>>

\* _onNextTick copies and clears the queue: queue, batch.
BeginTicks ==
    /\ batch' = queue
    /\ queue' = <<>>
    /\ UNCHANGED <<scheduled, ran>>

\* iotjs_run returns: into the loop, or out if process.exit() was called.
LeaveMain ==
    \/ /\ ~Exiting
       /\ env' = "kRunningLoop"
       /\ pc' = "poll"
    \/ /\ Exiting
       /\ pc' = "cleanup"
       /\ UNCHANGED env

\* The main script is through: module.runMain runs the ticks.
MainEnded ==
    /\ pc = "main"
    /\ js = <<>>
    /\ pc' = "mainTicks"
    /\ BeginTicks
    /\ UNCHANGED <<env, js, loop, workVars, exitVars, grace, handler, crashed, after>>

\* The main script threw: the rest of module.runMain, its ticks, is skipped.
MainThrew ==
    /\ pc = "mainThrew"
    /\ js = <<>>
    /\ LeaveMain
    /\ UNCHANGED <<js, loop, tickVars, workVars, exitVars, grace, handler, crashed, after>>

\* The batch of runMain's "while (process._onNextTick());" is through.
MainTicksDone ==
    /\ pc = "mainTicks"
    /\ js = <<>>
    /\ batch = <<>>
    /\ Branch
    /\ SpendBranch
    /\ \/ /\ queue # <<>>
          /\ BeginTicks
          /\ UNCHANGED <<env, pc>>
       \/ /\ queue = <<>>
          /\ LeaveMain
          /\ UNCHANGED tickVars
    /\ UNCHANGED <<js, loop, workVars, exitVars, handler, crashed, after>>

\* uv_run handles an event through iotjs_make_callback; a one-shot handle is done.
PollEvent ==
    /\ pc = "poll"
    /\ work > 0
    /\ ~Exiting
    /\ work' \in {work - 1, work}
    /\ pc' = "callback"
    /\ js' = <<"script">>
    /\ polled' = TRUE
    /\ UNCHANGED <<env, more, tickVars, jobs, started, exitVars, grace, handler, crashed,
                   after>>

\* In state kExiting iotjs_make_callback returns at once.
PollSkip ==
    /\ pc = "poll"
    /\ work > 0
    /\ Exiting
    /\ work' = work - 1
    /\ UNCHANGED <<env, pc, js, loop, tickVars, jobs, started, exitVars, grace, handler,
                   crashed, after>>

\* The callback is through: iotjs_make_callback runs the ticks once.
CallbackEnded ==
    /\ pc = "callback"
    /\ js = <<>>
    /\ \/ /\ ~Exiting
          /\ pc' = "callbackTicks"
          /\ BeginTicks
       \/ /\ Exiting
          /\ pc' = "poll"
          /\ UNCHANGED tickVars
    /\ UNCHANGED <<env, js, loop, workVars, exitVars, grace, handler, crashed, after>>

\* ... and goes back to uv_run.
CallbackTicksDone ==
    /\ pc = "callbackTicks"
    /\ js = <<>>
    /\ batch = <<>>
    /\ Branch
    /\ SpendBranch
    /\ pc' = "poll"
    /\ UNCHANGED <<env, js, loop, tickVars, workVars, exitVars, handler, crashed, after>>

\* uv_run(UV_RUN_ONCE) returns: with nothing to wait for, or after an event.
PollReturn ==
    /\ pc = "poll"
    /\ work = 0 \/ polled
    /\ more' = (work > 0)
    /\ \/ /\ ~Exiting
          /\ pc' = "loopTicks"
          /\ BeginTicks
       \/ /\ Exiting
          /\ pc' = "jobs"
          /\ UNCHANGED tickVars
    /\ UNCHANGED <<env, js, polled, workVars, exitVars, grace, handler, crashed, after>>

\* Mutant of StillMore: what the ticks started is not looked at.
StillMoreBefore == more

\* more |= iotjs_process_next_tick(); if it is false, uv_loop_alive() decides.
StillMore == more \/ queue # <<>> \/ work > 0

LoopTicksDone ==
    /\ pc = "loopTicks"
    /\ js = <<>>
    /\ batch = <<>>
    /\ Branch
    /\ SpendBranch
    /\ more' = StillMore
    /\ pc' = "jobs"
    /\ UNCHANGED <<env, js, polled, tickVars, workVars, exitVars, handler, crashed, after>>

\* jerry_run_all_enqueued_jobs() takes the next job, whatever the state.
RunJob ==
    /\ pc = "jobs"
    /\ js = <<>>
    /\ jobs > 0
    /\ jobs' = jobs - 1
    /\ js' = <<"script">>
    /\ UNCHANGED <<env, pc, loop, tickVars, work, started, exitVars, grace, handler,
                   crashed, after>>

\* The end of an iteration, on the value more had before the jobs.
IterationDone ==
    /\ pc = "jobs"
    /\ js = <<>>
    /\ jobs = 0
    /\ pc' = IF more /\ ~Exiting THEN "poll" ELSE "loopEnd"
    /\ polled' = FALSE
    /\ UNCHANGED <<env, js, more, tickVars, workVars, exitVars, grace, handler, crashed,
                   after>>

\* After the loop: iotjs_process_emit_exit unless the exit was asked for.
LoopEnd ==
    /\ pc = "loopEnd"
    /\ \/ /\ ~Exiting
          /\ pc' = "exitEvent"
          /\ js' = <<"emit">>
          /\ EmitExit
       \/ /\ Exiting
          /\ pc' = "cleanup"
          /\ UNCHANGED <<js, exiting, left, exits>>
    /\ UNCHANGED <<env, loop, tickVars, workVars, exitCode, grace, handler, crashed, after,
                   failed>>

\* iotjs_environment_go_state_exiting asserts that it is not exiting already.
GoStateExiting ==
    /\ pc = "exitEvent"
    /\ js = <<>>
    /\ env' = "kExiting"
    /\ crashed' = (crashed \/ (Asserts /\ Exiting))
    /\ pc' = "cleanup"
    /\ UNCHANGED <<js, loop, tickVars, workVars, exitVars, grace, handler, after>>

\* iotjs_entry closes every handle and runs the loop to its end; iotjs_make_callback
\* lets no script run.
Cleanup ==
    /\ pc = "cleanup"
    /\ work' = 0
    /\ pc' = "done"
    /\ UNCHANGED <<env, js, loop, tickVars, jobs, started, exitVars, grace, handler,
                   crashed, after>>

\* The VM aborts the script: at a loop of user code, or at a loop of iotjs.js that is
\* out of grace.  The abort reaches the C code, which takes it for an exception:
\* iotjs_jhelper_call_ok asserts that _onNextTick throws none,
\* iotjs_process_emit_exit sets the exit code to 2, and the jobs are abandoned.
Abort ==
    /\ Exiting
    /\ \/ InUserCode
       \/ js # <<>> /\ Head(js) = "emit" /\ ~Branch
       \/ js = <<>> /\ pc \in TicksPc /\ ~Branch
    /\ grace' = 0
    /\ js' = <<>>
    /\ batch' = <<>>
    /\ jobs' = IF pc = "jobs" THEN 0 ELSE jobs
    /\ exitCode' = IF pc = "exitEvent" THEN 2 ELSE exitCode
    /\ crashed' = (crashed \/ (Asserts /\ pc \in {"callbackTicks", "loopTicks"}))
    /\ pc' = CASE pc \in {"main", "mainThrew", "mainTicks"} -> "cleanup"
               [] pc = "callbackTicks" -> "poll"
               [] pc = "loopTicks" -> "jobs"
               [] OTHER -> pc
    /\ UNCHANGED <<env, loop, queue, scheduled, ran, work, started, exiting, left, exits,
                   failed, handler, after>>

\* The process is gone.
Done ==
    /\ pc = "done"
    /\ UNCHANGED vars

-----------------------------------------------------------------------------
User == NextTick \/ StartWork \/ EnqueueJob \/ SetExitCode \/ CallExit
Script == Return \/ ThrowInScript \/ ThrowInJob \/ ThrowInHandler \/ ThrowInListener
Runtime ==
    \/ CallListener \/ EmitDone \/ FinallyDoExit \/ RunTick
    \/ StartMain \/ MainEnded \/ MainThrew \/ MainTicksDone
    \/ PollSkip \/ CallbackEnded \/ CallbackTicksDone \/ PollReturn
    \/ LoopTicksDone \/ RunJob \/ IterationDone
    \/ LoopEnd \/ GoStateExiting \/ Cleanup \/ Abort

Next == User \/ Script \/ Runtime \/ PollEvent \/ Done

Spec == Init /\ [][Next]_vars

\* User code comes to its end and the runtime goes on; events need not happen.
FairSpec == Spec /\ WF_vars(Script) /\ WF_vars(Runtime)

-----------------------------------------------------------------------------
(***************************************************************************)
(* Properties.                                                             *)
(***************************************************************************)

\* The state of iotjs_env.c and the flag of iotjs.js agree: kExiting is only reached
\* after 'exit' was emitted, and the event is emitted once, however process.exit(),
\* exceptions and the end of the loop meet.
ExitEmittedOnce ==
    /\ exits = IF exiting THEN 1 ELSE 0
    /\ Exiting => exiting
    /\ pc \in {"cleanup", "done"} => Exiting

\* Ticks run once each and in the order of the nextTick() calls, over all the places
\* that run them: what is left of the batch and the queue are the ticks ran + 1 on.
TicksInOrder ==
    ~Exiting => batch \o queue = [i \in 1 .. scheduled - ran |-> ran + i]

\* In state kExiting at most one more tick, listener or handler starts; no callback of
\* the event loop does.
AtMostOneAfterExit == after <= 1

\* The loop ends by itself only when there is nothing left to do: the last iteration
\* leaves no handle, no request and no tick, whoever started it.
EndsWithoutWork == pc = "loopEnd" /\ ~Exiting => work = 0 /\ queue = <<>>

\* ... at least as long as no promise job is involved.
EndsUnlessJobs == started.jobs = 0 => EndsWithoutWork

\* A process that ended because of an unhandled exception says so by its exit code.
FailureReported == failed => exitCode # 0

\* Once process.exit() has emitted 'exit' the process comes to its end.
ExitCompletes == exiting ~> (pc = "done")

\* The assertions of iotjs_env.c and iotjs_binding.c hold.
NoAssertionFails == ~crashed

\* Exit is final (iotjs.js:146-166): 'exit' is emitted once and before kExiting is reached, at
\* most one piece of user code starts after that, and a failure stays a failure.
ExitIsFinal == ExitEmittedOnce /\ AtMostOneAfterExit /\ FailureReported

=============================================================================
