------------------------------- MODULE Timers -------------------------------
(***************************************************************************)
(* setTimeout() and its relatives: the Timeout objects of js/timers.js,    *)
(* the timer wraps of iotjs_module_timer.c, and the life of a wrapped uv   *)
(* handle of iotjs_handlewrap.c and iotjs_objectwrap.c, up to the clean-up *)
(* at the end of iotjs_entry.                                              *)
(*                                                                         *)
(* Time is counted in ms.  The uv loop looks at the clock only between     *)
(* callbacks: lag is how far its cached time is behind, due how far a      *)
(* timer is from it.                                                       *)
(***************************************************************************)
EXTENDS Integers, FiniteSets

CONSTANTS
    Timeouts,      \* Timeout objects the user can create
    Timers,        \* Timer objects, each with its wrap and its uv handle
    None,          \* undefined, or NULL
    NaN,           \* the delay that is no number
    Delays,        \* delays a user may give
    TimeoutMax,    \* TIMEOUT_MAX
    MaxLag         \* bound: ms between two looks at the clock

ASSUME ConstantsAssumption ==
    /\ None \notin Timeouts \union Timers \union BOOLEAN
    /\ Delays \subseteq Int \union {NaN}
    /\ NaN \notin Int
    /\ TimeoutMax \in Nat \ {0}
    /\ MaxLag \in Nat

VARIABLES
    isrepeat,     \* Timeout.isrepeat; None before the Timeout is made
    after,        \* Timeout.after
    callback,     \* Timeout.callback is set
    handler,      \* Timeout.handler
    timeoutObj,   \* Timer.timeoutObj
    wrap,         \* the memory of the timerwrap: unused, alive or freed
    jref,         \* the wrap holds its reference to the Timer object
    uv,           \* the uv_timer_t: its state and, while active, its due time and repeat
                  \* interval
    lag,          \* the clock minus the loop's cached time
    pc,           \* main, callback, ticks: JavaScript runs; loop; exit or walk, final, done
    current,      \* the Timeout whose callback runs
    cleared,      \* history: clearTimeout() or clearInterval() was called on the Timeout
    calls,        \* history: times the callback was called, up to 2
    threw,        \* history: the callback threw
    reffed,       \* history: ref() was called on the Timeout by the user
    unreffed      \* history: unref() was called on the Timeout by the user

timeoutVars == <<isrepeat, after, callback, handler>>
timerVars == <<timeoutObj, wrap, jref, uv>>
history == <<cleared, calls, threw, reffed, unreffed>>
vars == <<timeoutVars, timerVars, lag, pc, current, history>>

\* Further away than any delay.
Never == TimeoutMax + MaxLag + 1

\* A uv_timer_t that runs, and one that does not.
Running(delay, rep) == [state |-> "active", due |-> delay, repeat |-> rep]
Resting(state) == [state |-> state, due |-> 0, repeat |-> 0]
UvState(h) == uv[h].state

\* A new Timer object; None at the bound.
Unused == {h \in Timers : wrap[h] = "unused"}
NewTimer == IF Unused = {} THEN None ELSE CHOOSE h \in Unused : TRUE

Init ==
    /\ isrepeat = [t \in Timeouts |-> None]
    /\ after = [t \in Timeouts |-> 1]
    /\ callback = [t \in Timeouts |-> FALSE]
    /\ handler = [t \in Timeouts |-> None]
    /\ timeoutObj = [h \in Timers |-> None]
    /\ wrap = [h \in Timers |-> "unused"]
    /\ jref = [h \in Timers |-> FALSE]
    /\ uv = [h \in Timers |-> Resting("unused")]
    /\ lag = 0
    /\ pc = "main"
    /\ current = None
    /\ cleared = [t \in Timeouts |-> FALSE]
    /\ calls = [t \in Timeouts |-> 0]
    /\ threw = [t \in Timeouts |-> FALSE]
    /\ reffed = [t \in Timeouts |-> FALSE]
    /\ unreffed = [t \in Timeouts |-> FALSE]

-----------------------------------------------------------------------------
(***************************************************************************)
(* iotjs_handlewrap.c and iotjs_module_timer.c.                            *)
(***************************************************************************)

\* iotjs_handlewrap_initialize: the wrap keeps the Timer object alive.
WrapInitialize(h) ==
    /\ wrap' = [wrap EXCEPT ![h] = "alive"]
    /\ jref' = [jref EXCEPT ![h] = TRUE]

\* Start's conversion of a JavaScript number to uint64_t; NaN has no defined value.
ToUint64(d) == IF d = NaN THEN {0, Never} ELSE {d}

\* Mutant of CreateAndStart: the timer is made but not started.
CreateOnly(h, delay, rep) ==
    /\ WrapInitialize(h)
    /\ uv' = [uv EXCEPT ![h] = Resting("idle")]

\* new Timer() and handler.start(): wrap, jref, uv.
CreateAndStart(h, delay, rep) ==
    /\ WrapInitialize(h)
    /\ \E n \in ToUint64(delay) :
          uv' = [uv EXCEPT ![h] = Running(n, IF rep THEN n ELSE 0)]

\* iotjs_timerwrap_stop and iotjs_handlewrap_close: the uv handle starts to close unless
\* it already does.
Stopped(h) == IF h \in Timers /\ UvState(h) \in {"idle", "active"}
                  THEN [uv EXCEPT ![h] = Resting("closing")]
                  ELSE uv

-----------------------------------------------------------------------------
(***************************************************************************)
(* js/timers.js.                                                           *)
(***************************************************************************)

InUserCode == pc \in {"main", "callback", "ticks"}

\* timeoutConfigurator: NaN passes both comparisons.
ClampDelay(d) == IF d # NaN /\ (d < 1 \/ d > TimeoutMax) THEN 1 ELSE d

\* Timeout.ref(), which makes a Timer object and a handle.
Ref(t, delay, rep) == \E h \in {NewTimer} \intersect Timers :
    /\ timeoutObj' = [timeoutObj EXCEPT ![h] = t]
    /\ handler' = [handler EXCEPT ![t] = h]
    /\ CreateAndStart(h, delay, rep)

\* Mutant of Unref: the callback stays.
UnrefKeepsCallback(t) ==
    /\ handler' = [handler EXCEPT ![t] = None]
    /\ timeoutObj' = [h \in Timers |-> IF h = handler[t] THEN None ELSE timeoutObj[h]]
    /\ uv' = Stopped(handler[t])
    /\ UNCHANGED callback

\* Mutant of Unref: the uv handle is left alone.
UnrefNoStop(t) ==
    /\ callback' = [callback EXCEPT ![t] = FALSE]
    /\ handler' = [handler EXCEPT ![t] = None]
    /\ timeoutObj' = [h \in Timers |-> IF h = handler[t] THEN None ELSE timeoutObj[h]]
    /\ UNCHANGED uv

\* Timeout.unref(): callback, handler, timeoutObj, uv.
Unref(t) ==
    /\ callback' = [callback EXCEPT ![t] = FALSE]
    /\ handler' = [handler EXCEPT ![t] = None]
    /\ timeoutObj' = [h \in Timers |-> IF h = handler[t] THEN None ELSE timeoutObj[h]]
    /\ uv' = Stopped(handler[t])

\* setTimeout(callback, delay) and setInterval(callback, delay).
SetTimer(t, rep, delay) ==
    /\ InUserCode
    /\ isrepeat[t] = None
    /\ isrepeat' = [isrepeat EXCEPT ![t] = rep]
    /\ after' = [after EXCEPT ![t] = ClampDelay(delay)]
    /\ callback' = [callback EXCEPT ![t] = TRUE]
    /\ Ref(t, ClampDelay(delay), rep)
    /\ UNCHANGED <<lag, pc, current, history>>

\* timeout.ref(), called by the user.
UserRef(t) ==
    /\ InUserCode
    /\ isrepeat[t] # None
    /\ Ref(t, after[t], isrepeat[t])
    /\ reffed' = [reffed EXCEPT ![t] = TRUE]
    /\ UNCHANGED <<isrepeat, after, callback, lag, pc, current, cleared, calls, threw,
                   unreffed>>

\* clearTimeout(timeout) and clearInterval(timeout), which are Timeout.unref().
Clear(t) ==
    /\ InUserCode
    /\ isrepeat[t] # None
    /\ Unref(t)
    /\ cleared' = [cleared EXCEPT ![t] = TRUE]
    /\ UNCHANGED <<isrepeat, after, wrap, jref, lag, pc, current, calls, threw, reffed,
                   unreffed>>

\* timeout.unref(), called by the user.
UserUnref(t) ==
    /\ InUserCode
    /\ isrepeat[t] # None
    /\ Unref(t)
    /\ unreffed' = [unreffed EXCEPT ![t] = TRUE]
    /\ UNCHANGED <<isrepeat, after, wrap, jref, lag, pc, current, cleared, calls, threw, reffed>>

\* The callback returns: handleTimeout disposes of a timeout that does not repeat.
CallbackReturn ==
    /\ pc = "callback"
    /\ \/ /\ isrepeat[current]
          /\ UNCHANGED <<callback, handler, timeoutObj, uv>>
       \/ /\ ~isrepeat[current]
          /\ Unref(current)
    /\ pc' = "ticks"
    /\ current' = None
    /\ UNCHANGED <<isrepeat, after, wrap, jref, lag, history>>

\* The callback throws: the rest of handleTimeout is skipped, and a handler of
\* 'uncaughtException' lets the process go on.
CallbackThrow ==
    /\ pc = "callback"
    /\ threw' = [threw EXCEPT ![current] = TRUE]
    /\ pc' = "ticks"
    /\ current' = None
    /\ UNCHANGED <<timeoutVars, timerVars, lag, cleared, calls, reffed, unreffed>>

\* The main script, or the ticks after a callback, are through.
EndTurn ==
    /\ pc \in {"main", "ticks"}
    /\ pc' = "loop"
    /\ UNCHANGED <<timeoutVars, timerVars, lag, current, history>>

\* process.exit(), or an exception nobody handles.
ExitProcess ==
    /\ InUserCode
    /\ pc' = "exit"
    /\ current' = None
    /\ UNCHANGED <<timeoutVars, timerVars, lag, history>>

-----------------------------------------------------------------------------
(***************************************************************************)
(* The uv loop, as the timers see it.                                      *)
(***************************************************************************)

Active == {h \in Timers : UvState(h) = "active"}
DueNow == {h \in Active : uv[h].due <= 0}
Later(n, d) == IF n = Never THEN Never ELSE n - d

\* A millisecond passes.
TimePasses ==
    /\ InUserCode \/ pc = "loop"
    /\ lag < MaxLag
    /\ lag' = lag + 1
    /\ UNCHANGED <<timeoutVars, timerVars, pc, current, history>>

\* uv__update_time, when uv__run_timers has run all that is due.
UpdateTime ==
    /\ pc = "loop"
    /\ lag > 0
    /\ Active # {}
    /\ DueNow = {}
    /\ lag' = 0
    /\ uv' = [h \in Timers |-> IF h \in Active
                                   THEN [uv[h] EXCEPT !.due = Later(@, lag)]
                                   ELSE uv[h]]
    /\ UNCHANGED <<timeoutVars, timeoutObj, wrap, jref, pc, current,
                   history>>

\* uv__run_timers stops or restarts the timer that is due longest and calls
\* TimeoutHandler: handleTimeout calls the callback of the Timeout, if it has one.
Fire(h) ==
    /\ pc = "loop"
    /\ h \in DueNow
    /\ \A g \in DueNow : uv[h].due <= uv[g].due
    /\ uv' = [uv EXCEPT ![h] = IF @.repeat = 0 THEN Resting("idle")
                                              ELSE Running(@.repeat, @.repeat)]
    /\ LET t == timeoutObj[h]
           called == t # None /\ callback[t]
       IN  \/ /\ called
              /\ pc' = "callback"
              /\ current' = t
              /\ calls' = [calls EXCEPT ![t] = IF @ = 2 THEN 2 ELSE @ + 1]
           \/ /\ ~called
              /\ pc' = "ticks"
              /\ UNCHANGED <<current, calls>>
    /\ UNCHANGED <<timeoutVars, timeoutObj, wrap, jref, lag, cleared, threw, reffed,
                   unreffed>>

\* iotjs_on_handle_closed: the wrap lets go of the uv handle and the Timer object.
OnHandleClosed(h) ==
    /\ pc \in {"loop", "final"}
    /\ UvState(h) = "closing"
    /\ uv' = [uv EXCEPT ![h] = Resting("closed")]
    /\ jref' = [jref EXCEPT ![h] = FALSE]
    /\ UNCHANGED <<timeoutVars, timeoutObj, wrap, lag, pc, current,
                   history>>

\* The garbage collector frees an unreachable Timer object, and with it the wrap.
Collect(h) ==
    /\ pc # "done"
    /\ wrap[h] = "alive"
    /\ ~jref[h]
    /\ \A t \in Timeouts : handler[t] # h
    /\ wrap' = [wrap EXCEPT ![h] = "freed"]
    /\ UNCHANGED <<timeoutVars, timeoutObj, jref, uv, lag, pc, current,
                   history>>

\* Nothing keeps the loop alive: iotjs_start comes to its end by itself.
LoopEnds ==
    /\ pc = "loop"
    /\ \A h \in Timers : UvState(h) \notin {"active", "closing"}
    /\ pc' = "walk"
    /\ UNCHANGED <<timeoutVars, timerVars, lag, current, history>>

\* Mutant of Walk: only the timers that still run are closed.
WalkActive ==
    /\ pc \in {"exit", "walk"}
    /\ uv' = [h \in Timers |-> IF UvState(h) = "active" THEN Resting("closing") ELSE uv[h]]
    /\ pc' = "final"
    /\ UNCHANGED <<timeoutVars, timeoutObj, wrap, jref, lag, current,
                   history>>

\* iotjs_entry closes every handle of the loop, idle ones too.
Walk ==
    /\ pc \in {"exit", "walk"}
    /\ uv' = [h \in Timers |-> IF UvState(h) \in {"idle", "active"}
                                   THEN Resting("closing") ELSE uv[h]]
    /\ pc' = "final"
    /\ UNCHANGED <<timeoutVars, timeoutObj, wrap, jref, lag, current,
                   history>>

\* ... runs the loop until they are closed, and releases the engine and all objects.
Release ==
    /\ pc = "final"
    /\ \A h \in Timers : UvState(h) # "closing"
    /\ wrap' = [h \in Timers |-> IF wrap[h] = "alive" THEN "freed" ELSE wrap[h]]
    /\ pc' = "done"
    /\ UNCHANGED <<timeoutVars, timeoutObj, jref, uv, lag, current,
                   history>>

\* The process is gone.
Done ==
    /\ pc = "done"
    /\ UNCHANGED vars

-----------------------------------------------------------------------------
User ==
    \/ \E t \in Timeouts :
          \/ \E rep \in BOOLEAN, delay \in Delays : SetTimer(t, rep, delay)
          \/ UserRef(t)
          \/ Clear(t)
          \/ UserUnref(t)
    \/ ExitProcess
Turn == CallbackReturn \/ CallbackThrow \/ EndTurn
Loop ==
    \/ UpdateTime \/ LoopEnds \/ Walk \/ Release
    \/ \E h \in Timers : Fire(h) \/ OnHandleClosed(h)

Next == User \/ Turn \/ Loop \/ TimePasses \/ (\E h \in Timers : Collect(h)) \/ Done

Spec == Init /\ [][Next]_vars

\* User code comes to its end, time passes and the loop goes on.
FairSpec ==
    /\ Spec
    /\ WF_vars(Turn)
    /\ WF_vars(Loop)
    /\ WF_vars(TimePasses)
    /\ \A h \in Timers : WF_vars(OnHandleClosed(h))

-----------------------------------------------------------------------------
(***************************************************************************)
(* Properties.                                                             *)
(***************************************************************************)

\* uv never meets a wrap that is gone: until the handle is closed the wrap is alive and
\* holds the Timer object, whatever the garbage collector does; and, as
\* iotjs_handlewrap_destroy asserts, a wrap is freed only after its handle was closed.
WrapOutlivesHandle ==
    \A h \in Timers :
        /\ UvState(h) \in {"idle", "active", "closing"} => wrap[h] = "alive" /\ jref[h]
        /\ wrap[h] = "freed" => UvState(h) = "closed"

\* Once clearTimeout() or clearInterval() has been called on a Timeout its callback is not
\* called again, also when ref() has made several Timer objects that point to it, of which
\* the clear stops one (timers.js:58-65, 96-107).  What unref() does is another matter: see
\* UnrefKeepsTimeout.
NoCallAfterClear ==
    [][\A t \in Timeouts : cleared[t] => calls'[t] = calls[t]]_vars

\* The callback of setTimeout() is called at most once, unless ref() made a second timer
\* for it and the first call threw.
OneShotOnce ==
    \A t \in Timeouts :
        isrepeat[t] = FALSE /\ ~(reffed[t] /\ threw[t]) => calls[t] <= 1

\* No timer keeps the loop alive for nothing: an active one has a Timeout to call.
NoZombieTimer ==
    \A h \in Active : timeoutObj[h] # None /\ callback[timeoutObj[h]]

\* ... at least as long as the user does not call ref() on the Timeout.
NoZombieUnlessRef ==
    \A h \in Active :
        timeoutObj[h] # None /\ (callback[timeoutObj[h]] \/ reffed[timeoutObj[h]])

\* A Timer object whose timeout is over is being closed, unless the callback threw, the
\* delay was no number or ref() made another one: handles do not pile up.
NoIdleHandle ==
    pc = "loop" =>
        \A h \in Timers : UvState(h) = "idle" =>
            /\ timeoutObj[h] # None
            /\ \/ threw[timeoutObj[h]]
               \/ after[timeoutObj[h]] = NaN
               \/ reffed[timeoutObj[h]]

\* A Timeout with a proper delay is called, unless it is cleared, unref() is called on it or
\* process.exit() is called: the loop does not end before.
TimeoutIsCalled ==
    \A t \in Timeouts :
        ((InUserCode \/ pc = "loop") /\ isrepeat[t] # None /\ after[t] # NaN)
            ~> (calls[t] > 0 \/ cleared[t] \/ unreffed[t] \/ pc = "exit")

\* docs/api/IoT.js-API-Timers.md:90-92: after unref() the active Timeout will not force the
\* loop to remain active, and the process may exit before it is called.  A Timeout that is
\* not cleared is so called, or the process ends.  Not so in the code, where unref() is what
\* clearTimeout() does (timers.js:58-65, 96-107): a run that looks for the violation.
UnrefKeepsTimeout ==
    \A t \in Timeouts :
        (unreffed[t] /\ after[t] # NaN)
            ~> (calls[t] > 0 \/ cleared[t] \/ pc \in {"exit", "walk", "final", "done"})

\* When all Timeouts are disposed of, and ref() was called on none of them, the process
\* comes to its end.
EndsWithoutTimeouts ==
    (<>[](\A t \in Timeouts : ~callback[t] /\ ~reffed[t])) => <>(pc = "done")

\* Every handle is accounted for (timers.js:31-65): none runs with nothing to call, none is
\* left idle, and a one-shot is not called twice, apart from what ref() and exceptions do.
HandlesAccounted == NoZombieUnlessRef /\ NoIdleHandle /\ OneShotOnce

\* Nothing hangs (iotjs.c:149-159): timeouts that are set are called, and when all of them are
\* disposed of the process ends.
NothingHangs == TimeoutIsCalled /\ EndsWithoutTimeouts

=============================================================================
