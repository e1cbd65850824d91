---------------------------- MODULE TimersProofs ----------------------------
(***************************************************************************)
(* Proofs about Timers: the memory safety of handle wraps and the effect   *)
(* of clearTimeout(), for any number of timeouts and timers, any delays    *)
(* and any use of ref() and unref().                                       *)
(***************************************************************************)
EXTENDS Timers, TLAPS

\* A wrap and its uv handle are made together; the wrap holds its reference to the Timer
\* object exactly as long as the uv handle is not closed.
WrapInv ==
    /\ wrap \in [Timers -> {"unused", "alive", "freed"}]
    /\ jref \in [Timers -> BOOLEAN]
    /\ DOMAIN uv = Timers
    /\ \A h \in Timers :
          \/ wrap[h] = "unused" /\ UvState(h) = "unused"
          \/ wrap[h] = "alive" /\ jref[h] /\ UvState(h) \in {"idle", "active", "closing"}
          \/ wrap[h] \in {"alive", "freed"} /\ ~jref[h] /\ UvState(h) = "closed"

\* When iotjs_entry runs the loop for the last time, every handle is closing or closed.
FinalInv ==
    /\ pc \in {"main", "callback", "ticks", "loop", "exit", "walk", "final", "done"}
    /\ pc \in {"final", "done"} =>
          \A h \in Timers : UvState(h) \notin {"idle", "active"}

\* A Timeout that was cleared exists and has no callback.
ClearInv ==
    /\ callback \in [Timeouts -> BOOLEAN]
    /\ cleared \in [Timeouts -> BOOLEAN]
    /\ DOMAIN isrepeat = Timeouts
    /\ DOMAIN calls = Timeouts
    /\ \A t \in Timeouts : cleared[t] => isrepeat[t] # None /\ ~callback[t]

-----------------------------------------------------------------------------
\* The invariant of the wraps implies what the code relies on.
LEMMA WrapInvImplies == WrapInv => WrapOutlivesHandle
BY DEF WrapInv, WrapOutlivesHandle

LEMMA NewTimerUnused ==
    ASSUME NEW h \in {NewTimer} \intersect Timers
    PROVE  wrap[h] = "unused"
<1>1. CASE Unused = {}
    BY <1>1, ConstantsAssumption DEF NewTimer
<1>2. CASE Unused # {}
    BY <1>2 DEF NewTimer, Unused
<1> QED BY <1>1, <1>2

\* Closing some handles that are not closed yet keeps the invariant of the wraps.
LEMMA ClosingKeeps ==
    ASSUME WrapInv, UNCHANGED <<wrap, jref>>, DOMAIN uv' = Timers,
           \A h \in Timers :
              \/ uv'[h].state = uv[h].state
              \/ /\ uv[h].state \in {"idle", "active", "closing"}
                 /\ uv'[h].state \in {"idle", "active", "closing"}
    PROVE  WrapInv'
BY DEF WrapInv, UvState

LEMMA StoppedKeeps ==
    ASSUME WrapInv, NEW g, uv' = Stopped(g), UNCHANGED <<wrap, jref>>
    PROVE  WrapInv'
<1>1. DOMAIN uv' = Timers
    BY DEF WrapInv, Stopped
<1>2. ASSUME NEW h \in Timers
      PROVE  \/ uv'[h].state = uv[h].state
             \/ /\ uv[h].state \in {"idle", "active", "closing"}
                /\ uv'[h].state \in {"idle", "active", "closing"}
    BY DEF WrapInv, Stopped, Resting, UvState
<1> QED BY <1>1, <1>2, ClosingKeeps

LEMMA RefKeeps ==
    ASSUME WrapInv, NEW t, NEW delay, NEW rep, Ref(t, delay, rep)
    PROVE  WrapInv'
<1>1. PICK h \in {NewTimer} \intersect Timers : CreateAndStart(h, delay, rep)
    BY DEF Ref
<1>2. PICK n \in ToUint64(delay) : uv' = [uv EXCEPT ![h] = Running(n, IF rep THEN n ELSE 0)]
    BY <1>1 DEF CreateAndStart
<1>3. wrap' = [wrap EXCEPT ![h] = "alive"] /\ jref' = [jref EXCEPT ![h] = TRUE]
    BY <1>1 DEF CreateAndStart, WrapInitialize
<1>4. DOMAIN uv' = Timers /\ uv'[h].state = "active"
    BY <1>2 DEF WrapInv, Running
<1>5. \A g \in Timers : g # h => uv'[g] = uv[g] /\ wrap'[g] = wrap[g] /\ jref'[g] = jref[g]
    BY <1>2, <1>3 DEF WrapInv
<1>6. wrap'[h] = "alive" /\ jref'[h]
    BY <1>3 DEF WrapInv
<1>7. wrap' \in [Timers -> {"unused", "alive", "freed"}] /\ jref' \in [Timers -> BOOLEAN]
    BY <1>3 DEF WrapInv
<1> QED BY <1>4, <1>5, <1>6, <1>7 DEF WrapInv, UvState

LEMMA WrapStep == WrapInv /\ FinalInv /\ [Next]_vars => WrapInv'
<1> SUFFICES ASSUME WrapInv, FinalInv, [Next]_vars PROVE WrapInv'
    OBVIOUS
<1>1. ASSUME NEW t \in Timeouts, NEW rep \in BOOLEAN, NEW delay \in Delays,
             SetTimer(t, rep, delay)
      PROVE  WrapInv'
    BY <1>1, RefKeeps DEF SetTimer
<1>2. ASSUME NEW t \in Timeouts, UserRef(t) PROVE WrapInv'
    BY <1>2, RefKeeps DEF UserRef
<1>4. ASSUME NEW t \in Timeouts, Clear(t) \/ UserUnref(t) PROVE WrapInv'
    BY <1>4, StoppedKeeps DEF Clear, UserUnref, Unref
<1>5. CASE CallbackReturn
    <2>1. CASE UNCHANGED uv
        BY <1>5, <2>1 DEF CallbackReturn, WrapInv, UvState
    <2>2. CASE Unref(current)
        BY <1>5, <2>2, StoppedKeeps DEF CallbackReturn, Unref
    <2> QED BY <1>5, <2>1, <2>2 DEF CallbackReturn
<1>6. CASE CallbackThrow \/ EndTurn \/ ExitProcess \/ LoopEnds \/ TimePasses
    BY <1>6 DEF CallbackThrow, EndTurn, ExitProcess, LoopEnds, TimePasses, timerVars,
                WrapInv, UvState
<1>7. CASE UpdateTime
    <2>1. DOMAIN uv' = Timers
        BY <1>7 DEF UpdateTime
    <2>2. \A h \in Timers : uv'[h].state = uv[h].state
        BY <1>7 DEF UpdateTime, Active, UvState
    <2>3. UNCHANGED <<wrap, jref>>
        BY <1>7 DEF UpdateTime
    <2> QED BY <2>1, <2>2, <2>3, ClosingKeeps
<1>8. ASSUME NEW h \in Timers, Fire(h) PROVE WrapInv'
    <2>1. DOMAIN uv' = Timers /\ UNCHANGED <<wrap, jref>>
        BY <1>8 DEF Fire, WrapInv
    <2>2. uv[h].state = "active" /\ uv'[h].state \in {"idle", "active"}
        BY <1>8 DEF Fire, DueNow, Active, UvState, Resting, Running, WrapInv
    <2>3. \A g \in Timers : g # h => uv'[g] = uv[g]
        BY <1>8 DEF Fire, WrapInv
    <2> QED BY <2>1, <2>2, <2>3, ClosingKeeps
<1>9. ASSUME NEW h \in Timers, OnHandleClosed(h) PROVE WrapInv'
    <2>1. uv'[h].state = "closed" /\ jref'[h] = FALSE /\ DOMAIN uv' = Timers
        BY <1>9 DEF OnHandleClosed, Resting, WrapInv
    <2>2. \A g \in Timers : g # h => uv'[g] = uv[g] /\ jref'[g] = jref[g]
        BY <1>9 DEF OnHandleClosed, WrapInv
    <2>3. wrap' = wrap /\ wrap[h] = "alive" /\ jref' \in [Timers -> BOOLEAN]
        BY <1>9 DEF OnHandleClosed, WrapInv, UvState
    <2> QED BY <2>1, <2>2, <2>3 DEF WrapInv, UvState
<1>10. ASSUME NEW h \in Timers, Collect(h) PROVE WrapInv'
    BY <1>10 DEF Collect, WrapInv, UvState
<1>11. CASE Walk
    <2>1. DOMAIN uv' = Timers /\ UNCHANGED <<wrap, jref>>
        BY <1>11 DEF Walk
    <2>2. ASSUME NEW h \in Timers
          PROVE  \/ uv'[h].state = uv[h].state
                 \/ /\ uv[h].state \in {"idle", "active", "closing"}
                    /\ uv'[h].state \in {"idle", "active", "closing"}
        BY <1>11 DEF Walk, Resting, UvState
    <2> QED BY <2>1, <2>2, ClosingKeeps
<1>12. CASE Release
    <2>1. \A h \in Timers : UvState(h) \notin {"idle", "active", "closing"}
        BY <1>12 DEF Release, FinalInv
    <2> QED BY <1>12, <2>1 DEF Release, WrapInv, UvState
<1>13. CASE UNCHANGED vars
    BY <1>13 DEF vars, timerVars, WrapInv, UvState
<1> QED
    BY <1>1, <1>2, <1>4, <1>5, <1>6, <1>7, <1>8, <1>9, <1>10, <1>11, <1>12, <1>13
    DEF Next, User, Turn, Loop, Done

\* User code is over for good when the handles are closed for the last time.
LEMMA FinalStep == WrapInv /\ FinalInv /\ [Next]_vars => FinalInv'
<1> SUFFICES ASSUME WrapInv, FinalInv, [Next]_vars PROVE FinalInv'
    OBVIOUS
<1>1. CASE User \/ Turn
    BY <1>1 DEF User, SetTimer, UserRef, Clear, UserUnref, ExitProcess, Turn,
                CallbackReturn, CallbackThrow, EndTurn, InUserCode, FinalInv
<1>2. ASSUME NEW h \in Timers, Fire(h) PROVE FinalInv'
    BY <1>2 DEF Fire, FinalInv
<1>3. ASSUME NEW h \in Timers, OnHandleClosed(h) PROVE FinalInv'
    <2>1. \A g \in Timers : uv'[g].state \in {"closed", uv[g].state}
        BY <1>3 DEF OnHandleClosed, Resting, WrapInv
    <2> QED BY <1>3, <2>1 DEF OnHandleClosed, FinalInv, UvState
<1>4. CASE Walk
    <2>1. \A h \in Timers : uv'[h].state \notin {"idle", "active"}
        BY <1>4 DEF Walk, Resting, UvState
    <2> QED BY <1>4, <2>1 DEF Walk, FinalInv, UvState
<1>5. CASE UpdateTime \/ LoopEnds
    BY <1>5 DEF UpdateTime, LoopEnds, FinalInv
<1>6. CASE Release \/ TimePasses \/ (\E h \in Timers : Collect(h)) \/ UNCHANGED vars
    BY <1>6 DEF Release, TimePasses, Collect, vars, timerVars, FinalInv, UvState
<1> QED
    BY <1>1, <1>2, <1>3, <1>4, <1>5, <1>6 DEF Next, Loop, Done

\* Memory safety of iotjs_handlewrap.c: uv never calls into a wrap the garbage collector
\* has freed, and no wrap is freed before its handle was closed.
THEOREM HandleSafety == Spec => []WrapOutlivesHandle
<1>1. Init => WrapInv /\ FinalInv
    BY DEF Init, WrapInv, FinalInv, UvState, Resting
<1>2. WrapInv /\ FinalInv /\ [Next]_vars => WrapInv' /\ FinalInv'
    BY WrapStep, FinalStep
<1> QED
    BY <1>1, <1>2, WrapInvImplies, PTL DEF Spec

-----------------------------------------------------------------------------
\* A cleared Timeout stays without callback: only setTimeout() and setInterval() set
\* one, on a Timeout they make.
LEMMA ClearStep == ClearInv /\ [Next]_vars => ClearInv'
<1> SUFFICES ASSUME ClearInv, [Next]_vars PROVE ClearInv'
    OBVIOUS
<1>1. ASSUME NEW t \in Timeouts, NEW rep \in BOOLEAN, NEW delay \in Delays,
             SetTimer(t, rep, delay)
      PROVE  ClearInv'
    BY <1>1 DEF SetTimer, ClearInv, history
<1>2. ASSUME NEW t \in Timeouts, Clear(t) \/ UserUnref(t) PROVE ClearInv'
    BY <1>2 DEF Clear, UserUnref, Unref, ClearInv
<1>3. CASE CallbackReturn
    BY <1>3 DEF CallbackReturn, Unref, ClearInv, history
<1>4. ASSUME NEW h \in Timers, Fire(h) PROVE ClearInv'
    BY <1>4 DEF Fire, ClearInv, timeoutVars
<1>5. ASSUME NEW t \in Timeouts, UserRef(t) PROVE ClearInv'
    BY <1>5 DEF UserRef, ClearInv
<1>6. CASE \/ CallbackThrow \/ EndTurn \/ ExitProcess \/ LoopEnds \/ TimePasses
           \/ UpdateTime \/ Walk \/ Release \/ UNCHANGED vars
           \/ \E h \in Timers : OnHandleClosed(h) \/ Collect(h)
    BY <1>6 DEF CallbackThrow, EndTurn, ExitProcess, LoopEnds, TimePasses, UpdateTime, Walk,
                Release, vars, OnHandleClosed, Collect, timeoutVars, history, ClearInv
<1> QED
    BY <1>1, <1>2, <1>3, <1>4, <1>5, <1>6 DEF Next, User, Turn, Loop, Done

\* Only a Timeout with a callback is called.
LEMMA NoCallStep ==
    ASSUME ClearInv, [Next]_vars, NEW t \in Timeouts, cleared[t]
    PROVE  calls'[t] = calls[t]
<1>1. ASSUME NEW h \in Timers, Fire(h) PROVE calls'[t] = calls[t]
    <2>1. CASE timeoutObj[h] = t
        BY <1>1, <2>1 DEF Fire, ClearInv
    <2>2. CASE timeoutObj[h] # t
        BY <1>1, <2>2 DEF Fire, ClearInv
    <2> QED BY <2>1, <2>2
<1>2. ASSUME NEW s \in Timeouts, NEW rep \in BOOLEAN, NEW delay \in Delays,
             SetTimer(s, rep, delay)
      PROVE  UNCHANGED calls
    BY <1>2 DEF SetTimer, history
<1>3. ASSUME NEW s \in Timeouts, UserRef(s) \/ Clear(s) \/ UserUnref(s)
      PROVE  UNCHANGED calls
    BY <1>3 DEF UserRef, Clear, UserUnref
<1>4. CASE \/ Turn \/ ExitProcess \/ LoopEnds \/ TimePasses
           \/ UpdateTime \/ Walk \/ Release \/ UNCHANGED vars
           \/ \E h \in Timers : OnHandleClosed(h) \/ Collect(h)
    BY <1>4 DEF Turn, CallbackReturn, CallbackThrow, EndTurn, ExitProcess, LoopEnds,
                TimePasses, UpdateTime, Walk, Release, vars, OnHandleClosed, Collect, history
<1> QED
    BY <1>1, <1>2, <1>3, <1>4 DEF Next, User, Loop, Done

\* clearTimeout() and clearInterval() are final: the callback is never called again, also
\* when ref() has made several Timer objects for the same Timeout.
THEOREM ClearIsFinal == Spec => NoCallAfterClear
<1>1. Init => ClearInv
    BY DEF Init, ClearInv
<1>2. ClearInv /\ [Next]_vars => ClearInv'
    BY ClearStep
<1>3. ClearInv /\ [Next]_vars
          => [\A t \in Timeouts : cleared[t] => calls'[t] = calls[t]]_vars
    BY NoCallStep
<1> QED
    BY <1>1, <1>2, <1>3, PTL DEF Spec, NoCallAfterClear

-----------------------------------------------------------------------------
(***************************************************************************)
(* Every handle is accounted for.                                          *)
(***************************************************************************)

AccountTypes ==
    /\ isrepeat \in [Timeouts -> BOOLEAN \union {None}]
    /\ after \in [Timeouts -> Int \union {NaN}]
    /\ \A t \in Timeouts : after[t] = NaN \/ after[t] >= 1
    /\ callback \in [Timeouts -> BOOLEAN]
    /\ handler \in [Timeouts -> Timers \union {None}]
    /\ timeoutObj \in [Timers -> Timeouts \union {None}]
    /\ DOMAIN uv = Timers
    /\ calls \in [Timeouts -> 0 .. 2]
    /\ threw \in [Timeouts -> BOOLEAN]
    /\ reffed \in [Timeouts -> BOOLEAN]

\* A Timeout that was not made has no Timer object and was not called.
UnmadeInv ==
    /\ \A t \in Timeouts : isrepeat[t] = None =>
          calls[t] = 0 /\ \A h \in Timers : timeoutObj[h] # t
    /\ pc = "callback" => current \in Timeouts /\ isrepeat[current] # None

\* Without ref() a Timeout has one Timer object; a handle that is open has a Timeout, and
\* one that runs has something to call.
OwnerInv ==
    \A h \in Timers :
        /\ timeoutObj[h] # None =>
              handler[timeoutObj[h]] = h \/ reffed[timeoutObj[h]]
        /\ UvState(h) \in {"idle", "active"} => timeoutObj[h] # None
        /\ UvState(h) = "active" =>
              callback[timeoutObj[h]] \/ reffed[timeoutObj[h]]

\* uv restarts the timer of an interval, unless its delay is no number, and no other.
RepeatInv ==
    \A h \in Timers : UvState(h) = "active" =>
        /\ isrepeat[timeoutObj[h]] = FALSE => uv[h].repeat = 0
        /\ isrepeat[timeoutObj[h]] = TRUE /\ after[timeoutObj[h]] # NaN => uv[h].repeat # 0

\* Until the process exits, a handle that is over belongs to the callback that runs or is
\* one that is never closed: the callback threw, the delay is no number, ref() was called.
IdleInv ==
    InUserCode \/ pc = "loop" =>
        \A h \in Timers : UvState(h) = "idle" =>
            \/ threw[timeoutObj[h]]
            \/ after[timeoutObj[h]] = NaN
            \/ reffed[timeoutObj[h]]
            \/ pc = "callback" /\ current = timeoutObj[h] /\ isrepeat[current] = FALSE

OneShot(t) == isrepeat[t] = FALSE
Excused(t) == reffed[t] /\ threw[t]
NotActive(t) == \A h \in Timers : UvState(h) = "active" => timeoutObj[h] # t

\* A one-shot that was called is running, was disposed of, or has thrown and has no timer.
OneShotInv ==
    \A t \in Timeouts : OneShot(t) /\ ~Excused(t) =>
        /\ calls[t] <= 1
        /\ calls[t] = 1 /\ (InUserCode \/ pc = "loop") =>
              \/ ~callback[t]
              \/ pc = "callback" /\ current = t
              \/ threw[t] /\ NotActive(t)
        /\ pc = "callback" /\ current = t /\ ~reffed[t] => NotActive(t)

AccountInv ==
    /\ AccountTypes
    /\ UnmadeInv
    /\ OwnerInv
    /\ RepeatInv
    /\ IdleInv
    /\ OneShotInv

-----------------------------------------------------------------------------
\* Timeout.ref(): a new Timer object h runs for t.
LEMMA RefFacts ==
    ASSUME AccountInv, NEW t \in Timeouts, NEW delay, NEW rep \in BOOLEAN, Ref(t, delay, rep),
           delay = NaN \/ (delay \in Int /\ delay >= 1)
    PROVE  \E h \in Timers :
              /\ timeoutObj' = [timeoutObj EXCEPT ![h] = t]
              /\ handler' = [handler EXCEPT ![t] = h]
              /\ DOMAIN uv' = Timers
              /\ uv'[h].state = "active"
              /\ ~rep => uv'[h].repeat = 0
              /\ rep /\ delay # NaN => uv'[h].repeat # 0
              /\ \A g \in Timers : g # h => uv'[g] = uv[g]
<1>1. PICK h \in Timers : /\ timeoutObj' = [timeoutObj EXCEPT ![h] = t]
                          /\ handler' = [handler EXCEPT ![t] = h]
                          /\ CreateAndStart(h, delay, rep)
  BY DEF Ref
<1>2. PICK n \in ToUint64(delay) : uv' = [uv EXCEPT ![h] = Running(n, IF rep THEN n ELSE 0)]
  BY <1>1 DEF CreateAndStart
<1>3. DOMAIN uv = Timers
  BY DEF AccountInv, AccountTypes
<1>4. uv'[h] = Running(n, IF rep THEN n ELSE 0) /\ DOMAIN uv' = Timers
      /\ \A g \in Timers : g # h => uv'[g] = uv[g]
  BY <1>2, <1>3
<1>5. uv'[h].state = "active" /\ uv'[h].repeat = IF rep THEN n ELSE 0
  BY <1>4 DEF Running
<1>6. delay # NaN => n # 0
  BY <1>2 DEF ToUint64
<1> QED
  BY <1>1, <1>4, <1>5, <1>6

\* setTimeout(), setInterval() and the user's ref().
LEMMA RefStep ==
    ASSUME AccountInv, NEW t \in Timeouts,
           \/ \E rep \in BOOLEAN, delay \in Delays : SetTimer(t, rep, delay)
           \/ UserRef(t)
    PROVE  AccountInv'
<1>1. /\ isrepeat'[t] \in BOOLEAN /\ isrepeat'[t] # None
      /\ after'[t] = NaN \/ (after'[t] \in Int /\ after'[t] >= 1)
      /\ Ref(t, after'[t], isrepeat'[t])
      /\ isrepeat' \in [Timeouts -> BOOLEAN \union {None}]
      /\ after' \in [Timeouts -> Int \union {NaN}]
      /\ callback' \in [Timeouts -> BOOLEAN]
      /\ reffed' \in [Timeouts -> BOOLEAN]
      /\ \A s \in Timeouts : s # t => /\ isrepeat'[s] = isrepeat[s] /\ after'[s] = after[s]
                                     /\ callback'[s] = callback[s] /\ reffed'[s] = reffed[s]
      /\ callback'[t] \/ reffed'[t]
      /\ \/ isrepeat[t] = None
         \/ /\ reffed'[t] /\ isrepeat'[t] = isrepeat[t] /\ after'[t] = after[t]
            /\ callback'[t] = callback[t]
      /\ UNCHANGED <<pc, current, calls, threw>> /\ InUserCode
  <2>1. CASE UserRef(t)
    <3>1. /\ UNCHANGED <<isrepeat, after, callback, pc, current, calls, threw>> /\ InUserCode
          /\ reffed' = [reffed EXCEPT ![t] = TRUE] /\ isrepeat[t] # None
          /\ Ref(t, after[t], isrepeat[t])
      BY <2>1 DEF UserRef
    <3> QED
      BY <3>1 DEF AccountInv, AccountTypes
  <2>2. ASSUME NEW rep \in BOOLEAN, NEW delay \in Delays, SetTimer(t, rep, delay)
        PROVE  <1>1!:
    <3>1. /\ isrepeat[t] = None /\ isrepeat' = [isrepeat EXCEPT ![t] = rep]
          /\ after' = [after EXCEPT ![t] = ClampDelay(delay)]
          /\ callback' = [callback EXCEPT ![t] = TRUE]
          /\ Ref(t, ClampDelay(delay), rep) /\ InUserCode
          /\ UNCHANGED <<pc, current, calls, threw, reffed>>
      BY <2>2 DEF SetTimer, history
    <3>2. ClampDelay(delay) = NaN \/ (ClampDelay(delay) \in Int /\ ClampDelay(delay) >= 1)
      BY ConstantsAssumption DEF ClampDelay
    <3>3. ClampDelay(delay) \in Int \union {NaN}
      BY <3>2
    <3>4. rep # None /\ isrepeat'[t] = rep /\ after'[t] = ClampDelay(delay) /\ callback'[t]
      BY <3>1, ConstantsAssumption DEF AccountInv, AccountTypes
    <3> HIDE DEF ClampDelay
    <3> QED
      BY <3>1, <3>2, <3>3, <3>4 DEF AccountInv, AccountTypes
  <2> QED
    BY <2>1, <2>2
<1>2. PICK h \in Timers :
         /\ timeoutObj' = [timeoutObj EXCEPT ![h] = t]
         /\ handler' = [handler EXCEPT ![t] = h]
         /\ DOMAIN uv' = Timers
         /\ uv'[h].state = "active"
         /\ ~isrepeat'[t] => uv'[h].repeat = 0
         /\ isrepeat'[t] /\ after'[t] # NaN => uv'[h].repeat # 0
         /\ \A g \in Timers : g # h => uv'[g] = uv[g]
  <2>1. PICK rep \in BOOLEAN, delay \in {after'[t]} : rep = isrepeat'[t] /\ delay = after'[t]
    BY <1>1
  <2>2. Ref(t, delay, rep) /\ (delay = NaN \/ (delay \in Int /\ delay >= 1))
    BY <1>1, <2>1
  <2>3. PICK h \in Timers :
              /\ timeoutObj' = [timeoutObj EXCEPT ![h] = t]
              /\ handler' = [handler EXCEPT ![t] = h]
              /\ DOMAIN uv' = Timers
              /\ uv'[h].state = "active"
              /\ ~rep => uv'[h].repeat = 0
              /\ rep /\ delay # NaN => uv'[h].repeat # 0
              /\ \A g \in Timers : g # h => uv'[g] = uv[g]
    BY <2>2, RefFacts
  <2> QED
    BY <2>1, <2>3
<1>3. /\ timeoutObj'[h] = t /\ handler'[t] = h
      /\ \A g \in Timers : g # h => timeoutObj'[g] = timeoutObj[g] /\ uv'[g] = uv[g]
      /\ \A s \in Timeouts : s # t => handler'[s] = handler[s]
      /\ timeoutObj' \in [Timers -> Timeouts \union {None}]
      /\ handler' \in [Timeouts -> Timers \union {None}]
      /\ t # None
  BY <1>2, ConstantsAssumption DEF AccountInv, AccountTypes
<1>4. AccountTypes'
  BY <1>1, <1>2, <1>3 DEF AccountInv, AccountTypes
<1>5. UnmadeInv'
  BY <1>1, <1>3 DEF AccountInv, AccountTypes, UnmadeInv
\* A Timer object that t had before is one more than its own: ref() was called.
<1>6. \A g \in Timers : g # h /\ timeoutObj[g] = t =>
        reffed'[t] /\ isrepeat'[t] = isrepeat[t] /\ after'[t] = after[t]
  BY <1>1 DEF AccountInv, UnmadeInv
<1>7. OwnerInv'
  <2> SUFFICES ASSUME NEW g \in Timers
               PROVE  /\ timeoutObj'[g] # None =>
                            handler'[timeoutObj'[g]] = g \/ reffed'[timeoutObj'[g]]
                      /\ uv'[g].state \in {"idle", "active"} => timeoutObj'[g] # None
                      /\ uv'[g].state = "active" =>
                            callback'[timeoutObj'[g]] \/ reffed'[timeoutObj'[g]]
    BY DEF OwnerInv, UvState
  <2>1. CASE g = h
    BY <2>1, <1>1, <1>3
  <2>2. CASE g # h
    <3>1. timeoutObj[g] \in Timeouts \union {None} /\ timeoutObj'[g] = timeoutObj[g] /\ uv'[g] = uv[g]
      BY <2>2, <1>3 DEF AccountInv, AccountTypes
    <3> QED
      BY <3>1, <2>2, <1>1, <1>3, <1>6 DEF AccountInv, OwnerInv, UvState
  <2> QED
    BY <2>1, <2>2
<1>8. RepeatInv'
  <2> SUFFICES ASSUME NEW g \in Timers, uv'[g].state = "active"
               PROVE  /\ isrepeat'[timeoutObj'[g]] = FALSE => uv'[g].repeat = 0
                      /\ isrepeat'[timeoutObj'[g]] = TRUE /\ after'[timeoutObj'[g]] # NaN
                            => uv'[g].repeat # 0
    BY DEF RepeatInv, UvState
  <2>1. CASE g = h
    BY <2>1, <1>2, <1>3
  <2>2. CASE g # h
    <3>1. timeoutObj[g] \in Timeouts /\ timeoutObj'[g] = timeoutObj[g] /\ uv'[g] = uv[g]
      BY <2>2, <1>3 DEF AccountInv, AccountTypes, OwnerInv, UvState
    <3>2. isrepeat'[timeoutObj[g]] = isrepeat[timeoutObj[g]] /\ after'[timeoutObj[g]] = after[timeoutObj[g]]
      BY <3>1, <2>2, <1>1, <1>6
    <3> QED
      BY <3>1, <3>2 DEF AccountInv, RepeatInv, UvState
  <2> QED
    BY <2>1, <2>2, Zenon
<1>9. IdleInv'
  <2> SUFFICES ASSUME NEW g \in Timers, uv'[g].state = "idle"
               PROVE  \/ threw[timeoutObj'[g]]
                      \/ after'[timeoutObj'[g]] = NaN
                      \/ reffed'[timeoutObj'[g]]
                      \/ pc = "callback" /\ current = timeoutObj'[g] /\ isrepeat'[current] = FALSE
    BY <1>1 DEF IdleInv, UvState
  <2>1. g # h
    BY <1>2
  <2>2. timeoutObj[g] \in Timeouts /\ timeoutObj'[g] = timeoutObj[g] /\ uv'[g] = uv[g]
    BY <2>1, <1>3 DEF AccountInv, AccountTypes, OwnerInv, UvState
  <2>3. \/ reffed'[timeoutObj[g]]
        \/ /\ isrepeat'[timeoutObj[g]] = isrepeat[timeoutObj[g]]
           /\ after'[timeoutObj[g]] = after[timeoutObj[g]]
           /\ reffed'[timeoutObj[g]] = reffed[timeoutObj[g]]
    BY <2>1, <2>2, <1>1, <1>6
  <2> QED
    BY <2>2, <2>3, <1>1 DEF AccountInv, IdleInv, UvState
<1>10. OneShotInv'
  <2> SUFFICES ASSUME NEW s \in Timeouts, OneShot(s)', ~Excused(s)'
               PROVE  /\ calls[s] <= 1
                      /\ calls[s] = 1 => \/ ~callback'[s]
                                         \/ pc = "callback" /\ current = s
                                         \/ threw[s] /\ NotActive(s)'
                      /\ pc = "callback" /\ current = s /\ ~reffed'[s] => NotActive(s)'
    BY <1>1, Zenon DEF OneShotInv
  <2>0. InUserCode
    BY <1>1
  <2>1. CASE s = t /\ isrepeat[t] = None
    BY <2>1, <1>1 DEF AccountInv, UnmadeInv
  <2>2. CASE s = t /\ isrepeat[t] # None
    <3>1. OneShot(s) /\ ~Excused(s) /\ ~threw[s]
      BY <2>2, <1>1 DEF OneShot, Excused
    <3>2. /\ calls[s] <= 1
          /\ calls[s] = 1 => \/ ~callback[s]
                             \/ pc = "callback" /\ current = s
                             \/ threw[s] /\ NotActive(s)
          /\ pc = "callback" /\ current = s /\ ~reffed[s] => NotActive(s)
      BY <3>1, <2>0, Zenon DEF AccountInv, OneShotInv
    <3>3. callback'[s] = callback[s] /\ reffed'[s]
      BY <2>2, <1>1
    <3> QED
      BY <3>1, <3>2, <3>3
  <2>3. CASE s # t
    <3>1. NotActive(s) => NotActive(s)'
      BY <2>3, <1>3 DEF NotActive, UvState
    <3>2. OneShot(s) /\ ~Excused(s)
      BY <2>3, <1>1 DEF OneShot, Excused
    <3>3. /\ calls[s] <= 1
          /\ calls[s] = 1 => \/ ~callback[s]
                             \/ pc = "callback" /\ current = s
                             \/ threw[s] /\ NotActive(s)
          /\ pc = "callback" /\ current = s /\ ~reffed[s] => NotActive(s)
      BY <3>2, <2>0, Zenon DEF AccountInv, OneShotInv
    <3>4. callback'[s] = callback[s] /\ reffed'[s] = reffed[s]
      BY <2>3, <1>1
    <3> QED
      BY <3>1, <3>3, <3>4, Zenon
  <2> QED
    BY <2>1, <2>2, <2>3
<1> QED
  BY <1>4, <1>5, <1>7, <1>8, <1>9, <1>10 DEF AccountInv

\* Timeout.unref(), by the user or at the end of a one-shot's callback.
LEMMA UnrefStep ==
    ASSUME AccountInv, NEW t \in Timeouts, isrepeat[t] # None, Unref(t), InUserCode,
           UNCHANGED <<isrepeat, after, calls, threw, reffed>>,
           \/ UNCHANGED <<pc, current>>
           \/ pc = "callback" /\ current = t /\ pc' = "ticks"
    PROVE  AccountInv'
<1>1. /\ callback' \in [Timeouts -> BOOLEAN] /\ ~callback'[t]
      /\ \A s \in Timeouts : s # t => callback'[s] = callback[s]
      /\ \A s \in Timeouts : callback'[s] => callback[s]
      /\ handler' \in [Timeouts -> Timers \union {None}]
      /\ \A s \in Timeouts : s # t => handler'[s] = handler[s]
      /\ timeoutObj' \in [Timers -> Timeouts \union {None}]
      /\ \A g \in Timers : timeoutObj'[g] = IF g = handler[t] THEN None ELSE timeoutObj[g]
      /\ DOMAIN uv' = Timers
  BY DEF Unref, Stopped, AccountInv, AccountTypes
\* A handle that is still open is not the one t had.
<1>2. ASSUME NEW g \in Timers, uv'[g].state \in {"idle", "active"}
      PROVE  /\ g # handler[t] /\ uv'[g] = uv[g] /\ timeoutObj'[g] = timeoutObj[g]
             /\ timeoutObj[g] \in Timeouts
  <2>1. g # handler[t] /\ uv'[g] = uv[g]
    BY <1>2 DEF Unref, Stopped, Resting, UvState, AccountInv, AccountTypes
  <2> QED
    BY <2>1, <1>1, <1>2 DEF AccountInv, AccountTypes, OwnerInv, UvState
<1>3. \A g \in Timers : timeoutObj[g] = t => g = handler[t] \/ reffed[t]
  BY ConstantsAssumption DEF AccountInv, OwnerInv
<1>4. AccountTypes'
  BY <1>1 DEF AccountInv, AccountTypes
<1>5. UnmadeInv'
  BY <1>1, ConstantsAssumption DEF AccountInv, UnmadeInv
<1>6. OwnerInv'
  <2> SUFFICES ASSUME NEW g \in Timers
               PROVE  /\ timeoutObj'[g] # None =>
                            handler'[timeoutObj'[g]] = g \/ reffed[timeoutObj'[g]]
                      /\ uv'[g].state \in {"idle", "active"} => timeoutObj'[g] # None
                      /\ uv'[g].state = "active" =>
                            callback'[timeoutObj'[g]] \/ reffed[timeoutObj'[g]]
    BY DEF OwnerInv, UvState
  <2>1. ASSUME timeoutObj'[g] # None
        PROVE  handler'[timeoutObj'[g]] = g \/ reffed[timeoutObj'[g]]
    <3>1. timeoutObj'[g] = timeoutObj[g] /\ g # handler[t] /\ timeoutObj[g] \in Timeouts
      BY <2>1, <1>1 DEF AccountInv, AccountTypes
    <3>2. handler[timeoutObj[g]] = g \/ reffed[timeoutObj[g]]
      BY <3>1, <2>1 DEF AccountInv, OwnerInv
    <3>3. CASE timeoutObj[g] = t
      BY <3>1, <3>2, <3>3
    <3>4. CASE timeoutObj[g] # t
      <4>1. handler'[timeoutObj[g]] = handler[timeoutObj[g]]
        BY <3>1, <3>4, <1>1
      <4> QED
        BY <3>1, <3>2, <4>1
    <3> QED
      BY <3>3, <3>4
  <2>2. ASSUME uv'[g].state \in {"idle", "active"}
        PROVE  timeoutObj'[g] # None
    BY <2>2, <1>2, ConstantsAssumption
  <2>3. ASSUME uv'[g].state = "active"
        PROVE  callback'[timeoutObj'[g]] \/ reffed[timeoutObj'[g]]
    <3>1. g # handler[t] /\ uv[g].state = "active" /\ timeoutObj'[g] = timeoutObj[g]
          /\ timeoutObj[g] \in Timeouts
      BY <2>3, <1>2
    <3>2. callback[timeoutObj[g]] \/ reffed[timeoutObj[g]]
      BY <3>1 DEF AccountInv, OwnerInv, UvState
    <3> QED
      BY <3>1, <3>2, <1>1, <1>3
  <2> QED
    BY <2>1, <2>2, <2>3
<1>7. RepeatInv'
  BY <1>2, Zenon DEF AccountInv, RepeatInv, UvState
<1>8. IdleInv'
  <2> SUFFICES ASSUME NEW g \in Timers, uv'[g].state = "idle"
               PROVE  \/ threw[timeoutObj'[g]]
                      \/ after[timeoutObj'[g]] = NaN
                      \/ reffed[timeoutObj'[g]]
                      \/ pc' = "callback" /\ current' = timeoutObj'[g] /\ isrepeat[current'] = FALSE
    BY DEF IdleInv, UvState
  <2>1. g # handler[t] /\ uv[g].state = "idle" /\ timeoutObj'[g] = timeoutObj[g]
    BY <1>2
  <2>2. \/ threw[timeoutObj[g]]
        \/ after[timeoutObj[g]] = NaN
        \/ reffed[timeoutObj[g]]
        \/ pc = "callback" /\ current = timeoutObj[g] /\ isrepeat[current] = FALSE
    BY <2>1 DEF AccountInv, IdleInv, UvState
  <2> QED
    BY <2>1, <2>2, <1>3
<1>9. OneShotInv'
  <2> SUFFICES ASSUME NEW s \in Timeouts, OneShot(s), ~Excused(s)
               PROVE  /\ calls[s] <= 1
                      /\ calls[s] = 1 => \/ ~callback'[s]
                                         \/ pc' = "callback" /\ current' = s
                                         \/ threw[s] /\ NotActive(s)'
                      /\ pc' = "callback" /\ current' = s /\ ~reffed[s] => NotActive(s)'
    BY DEF OneShotInv, OneShot, Excused
  <2>1. /\ calls[s] <= 1
        /\ calls[s] = 1 => \/ ~callback[s]
                           \/ pc = "callback" /\ current = s
                           \/ threw[s] /\ NotActive(s)
        /\ pc = "callback" /\ current = s /\ ~reffed[s] => NotActive(s)
    BY Zenon DEF AccountInv, OneShotInv
  <2>2. NotActive(s) => NotActive(s)'
    BY <1>2 DEF NotActive, UvState
  <2>3. s = t => ~callback'[s]
    BY <1>1
  <2>4. ~callback[s] => ~callback'[s]
    BY <1>1
  <2> QED
    BY <2>1, <2>2, <2>3, <2>4
<1> QED
  BY <1>4, <1>5, <1>6, <1>7, <1>8, <1>9 DEF AccountInv

\* A timer that is due calls its Timeout.
LEMMA FireStep ==
    ASSUME AccountInv, NEW h \in Timers, Fire(h)
    PROVE  AccountInv'
<1> DEFINE t == timeoutObj[h]
<1>1. /\ pc = "loop" /\ uv[h].state = "active" /\ DOMAIN uv' = Timers
      /\ \A g \in Timers : g # h => uv'[g] = uv[g]
      /\ UNCHANGED <<isrepeat, after, callback, handler, timeoutObj, threw, reffed>>
  BY DEF Fire, DueNow, Active, UvState, timeoutVars, AccountInv, AccountTypes
<1>2. \/ uv[h].repeat = 0 /\ uv'[h].state = "idle"
      \/ uv[h].repeat # 0 /\ uv'[h].state = "active" /\ uv'[h].repeat = uv[h].repeat
  BY DEF Fire, Resting, Running, AccountInv, AccountTypes
<1>3. t \in Timeouts /\ (callback[t] \/ reffed[t]) /\ isrepeat[t] \in BOOLEAN
  BY <1>1 DEF AccountInv, AccountTypes, OwnerInv, UnmadeInv, UvState
<1>4. \/ /\ callback[t] /\ pc' = "callback" /\ current' = t
         /\ calls' = [calls EXCEPT ![t] = IF calls[t] = 2 THEN 2 ELSE calls[t] + 1]
      \/ ~callback[t] /\ pc' = "ticks" /\ UNCHANGED <<current, calls>>
  BY <1>3, ConstantsAssumption DEF Fire
<1> HIDE DEF t
<1>5. AccountTypes'
  <2>1. calls' \in [Timeouts -> 0 .. 2]
    BY <1>3, <1>4 DEF AccountInv, AccountTypes
  <2> QED
    BY <2>1, <1>1 DEF AccountInv, AccountTypes
<1>6. UnmadeInv'
  <2>1. isrepeat[t] # None
    BY <1>3, ConstantsAssumption
  <2>2. \A s \in Timeouts : s # t => calls'[s] = calls[s]
    BY <1>4 DEF AccountInv, AccountTypes
  <2> QED
    BY <2>1, <2>2, <1>1, <1>3, <1>4 DEF AccountInv, UnmadeInv
<1>7. OwnerInv'
  BY <1>1, <1>2 DEF AccountInv, OwnerInv, UvState
<1>8. RepeatInv'
  <2> SUFFICES ASSUME NEW g \in Timers, uv'[g].state = "active"
               PROVE  /\ isrepeat[timeoutObj[g]] = FALSE => uv'[g].repeat = 0
                      /\ isrepeat[timeoutObj[g]] = TRUE /\ after[timeoutObj[g]] # NaN
                            => uv'[g].repeat # 0
    BY <1>1 DEF RepeatInv, UvState
  <2>1. uv[g].state = "active" /\ uv'[g].repeat = uv[g].repeat
    BY <1>1, <1>2
  <2> QED
    BY <2>1 DEF AccountInv, RepeatInv, UvState
<1>9. uv'[h].state = "idle" => isrepeat[t] = FALSE \/ after[t] = NaN
  BY <1>1, <1>2, <1>3 DEF AccountInv, RepeatInv, UvState, t
<1>10. IdleInv'
  <2> SUFFICES ASSUME NEW g \in Timers, uv'[g].state = "idle"
               PROVE  \/ threw[timeoutObj[g]]
                      \/ after[timeoutObj[g]] = NaN
                      \/ reffed[timeoutObj[g]]
                      \/ pc' = "callback" /\ current' = timeoutObj[g] /\ isrepeat[current'] = FALSE
    BY <1>1 DEF IdleInv, UvState
  <2>1. CASE g = h
    BY <2>1, <1>3, <1>4, <1>9 DEF t
  <2>2. CASE g # h
    <3>1. uv[g].state = "idle"
      BY <2>2, <1>1
    <3> QED
      BY <3>1, <1>1 DEF AccountInv, IdleInv, UvState
  <2> QED
    BY <2>1, <2>2
<1>11. \A s \in Timeouts : NotActive(s) => NotActive(s)'
  BY <1>1, <1>2 DEF NotActive, UvState
<1>12. OneShotInv'
  <2> SUFFICES ASSUME NEW s \in Timeouts, OneShot(s), ~Excused(s)
               PROVE  /\ calls'[s] <= 1
                      /\ calls'[s] = 1 => \/ ~callback[s]
                                          \/ pc' = "callback" /\ current' = s
                                          \/ threw[s] /\ NotActive(s)'
                      /\ pc' = "callback" /\ current' = s /\ ~reffed[s] => NotActive(s)'
    BY <1>1 DEF OneShotInv, OneShot, Excused
  <2>1. /\ calls[s] <= 1
        /\ calls[s] = 1 => ~callback[s] \/ (threw[s] /\ NotActive(s))
    BY <1>1 DEF AccountInv, OneShotInv
  <2>2. CASE s = t /\ callback[t]
    <3>1. ~NotActive(t)
      BY <1>1, <1>3 DEF NotActive, UvState, t
    <3>2. calls[t] = 0 /\ calls'[t] = 1
      BY <3>1, <2>1, <2>2, <1>3, <1>4 DEF AccountInv, AccountTypes
    <3>3. ASSUME ~reffed[t]
          PROVE  NotActive(s)'
      <4>1. \A g \in Timers : timeoutObj[g] = t => g = handler[t]
        BY <3>3, <1>3, ConstantsAssumption DEF AccountInv, OwnerInv
      <4>2. uv[h].repeat = 0
        BY <2>2, <1>1 DEF AccountInv, RepeatInv, OneShot, UvState, t
      <4>3. h = handler[t] /\ uv'[h].state = "idle"
        BY <4>1, <4>2, <1>2 DEF t
      <4>4. ASSUME NEW g \in Timers, uv'[g].state = "active" PROVE timeoutObj[g] # t
        BY <4>1, <4>3, <4>4
      <4> QED
        BY <4>4, <2>2, <1>1 DEF NotActive, UvState
    <3> QED
      BY <3>2, <3>3, <2>2, <1>4
  <2>3. CASE ~(s = t /\ callback[t])
    <3>1. calls'[s] = calls[s] /\ ~(pc' = "callback" /\ current' = s)
      BY <2>3, <1>4 DEF AccountInv, AccountTypes
    <3> QED
      BY <3>1, <2>1, <1>11
  <2> QED
    BY <2>2, <2>3
<1> QED
  BY <1>5, <1>6, <1>7, <1>8, <1>10, <1>12 DEF AccountInv

\* The callback returns.
LEMMA ReturnStep ==
    ASSUME AccountInv, CallbackReturn
    PROVE  AccountInv'
<1>1. /\ pc = "callback" /\ pc' = "ticks" /\ current \in Timeouts /\ isrepeat[current] # None
      /\ UNCHANGED <<isrepeat, after, calls, threw, reffed>>
  BY DEF CallbackReturn, history, AccountInv, UnmadeInv
<1>2. CASE ~isrepeat[current] /\ Unref(current)
  <2>1. PICK t \in Timeouts : t = current
    BY <1>1
  <2>2. InUserCode
    BY <1>1 DEF InUserCode
  <2> QED
    BY <1>1, <1>2, <2>1, <2>2, UnrefStep
<1>3. CASE isrepeat[current] /\ UNCHANGED <<callback, handler, timeoutObj, uv>>
  <2>1. isrepeat[current] \in BOOLEAN
    BY <1>1 DEF AccountInv, AccountTypes
  <2>2. isrepeat[current] # FALSE
    BY <1>3
  <2>3. AccountTypes' /\ UnmadeInv' /\ OwnerInv' /\ RepeatInv'
    BY <1>1, <1>3 DEF AccountInv, AccountTypes, UnmadeInv, OwnerInv, RepeatInv, UvState
  <2>4. IdleInv'
    BY <1>1, <1>3, <2>2 DEF AccountInv, IdleInv, UvState, InUserCode
  <2>5. OneShotInv'
    <3>1. ~OneShot(current)
      BY <2>2 DEF OneShot
    <3>2. \A s \in Timeouts : (OneShot(s)' <=> OneShot(s)) /\ (Excused(s)' <=> Excused(s))
                              /\ (NotActive(s)' <=> NotActive(s))
      BY <1>1, <1>3 DEF OneShot, Excused, NotActive, UvState
    <3> QED
      BY <1>1, <1>3, <3>1, <3>2 DEF AccountInv, OneShotInv, InUserCode
  <2> QED
    BY <2>3, <2>4, <2>5 DEF AccountInv
<1> QED
  BY <1>2, <1>3 DEF CallbackReturn

\* The callback throws: its timer is left as it is.
LEMMA ThrowStep ==
    ASSUME AccountInv, CallbackThrow
    PROVE  AccountInv'
<1>1. /\ pc = "callback" /\ pc' = "ticks" /\ current \in Timeouts
      /\ threw' = [threw EXCEPT ![current] = TRUE]
      /\ UNCHANGED <<isrepeat, after, callback, handler, timeoutObj, uv, calls, reffed>>
  BY DEF CallbackThrow, timeoutVars, timerVars, AccountInv, UnmadeInv
<1>2. /\ threw' \in [Timeouts -> BOOLEAN] /\ threw'[current]
      /\ \A s \in Timeouts : s # current => threw'[s] = threw[s]
      /\ \A s \in Timeouts : threw[s] => threw'[s]
  BY <1>1 DEF AccountInv, AccountTypes
<1>3. AccountTypes' /\ UnmadeInv' /\ OwnerInv' /\ RepeatInv'
  BY <1>1, <1>2 DEF AccountInv, AccountTypes, UnmadeInv, OwnerInv, RepeatInv, UvState
<1>4. IdleInv'
  <2> SUFFICES ASSUME NEW g \in Timers, uv[g].state = "idle"
               PROVE  \/ threw'[timeoutObj[g]]
                      \/ after[timeoutObj[g]] = NaN
                      \/ reffed[timeoutObj[g]]
    BY <1>1 DEF IdleInv, UvState
  <2>1. timeoutObj[g] \in Timeouts
    BY DEF AccountInv, AccountTypes, OwnerInv, UvState
  <2> QED
    BY <1>1, <1>2, <2>1 DEF AccountInv, IdleInv, UvState, InUserCode
<1>5. OneShotInv'
  <2> SUFFICES ASSUME NEW s \in Timeouts, OneShot(s), ~Excused(s)'
               PROVE  /\ calls[s] <= 1
                      /\ calls[s] = 1 => ~callback[s] \/ (threw'[s] /\ NotActive(s))
    BY <1>1 DEF OneShotInv, OneShot, NotActive, UvState
  <2>1. ~Excused(s) /\ (reffed[s] => ~threw'[s])
    BY <1>1, <1>2 DEF Excused
  <2>2. /\ calls[s] <= 1
        /\ calls[s] = 1 => \/ ~callback[s]
                           \/ pc = "callback" /\ current = s
                           \/ threw[s] /\ NotActive(s)
        /\ pc = "callback" /\ current = s /\ ~reffed[s] => NotActive(s)
    BY <1>1, <2>1 DEF AccountInv, OneShotInv, InUserCode
  <2> QED
    BY <1>1, <1>2, <2>1, <2>2
<1> QED
  BY <1>3, <1>4, <1>5 DEF AccountInv

\* The steps of the loop and of the collector: no handle starts to run, none becomes idle,
\* and the Timeouts stay as they are.
LEMMA QuietStep ==
    ASSUME AccountInv,
           UNCHANGED <<isrepeat, after, callback, handler, timeoutObj, calls, threw, reffed>>,
           DOMAIN uv' = Timers,
           \A h \in Timers : /\ uv'[h].state = "active" => /\ uv[h].state = "active"
                                                           /\ uv'[h].repeat = uv[h].repeat
                             /\ uv'[h].state = "idle" => uv[h].state = "idle",
           \/ UNCHANGED <<pc, current>>
           \/ pc # "callback" /\ pc' = "loop" /\ InUserCode
           \/ pc' \in {"exit", "walk", "final", "done"}
    PROVE  AccountInv'
<1>1. AccountTypes'
  BY DEF AccountInv, AccountTypes
<1>2. UnmadeInv'
  BY DEF AccountInv, UnmadeInv
<1>3. OwnerInv'
  BY DEF AccountInv, OwnerInv, UvState
<1>4. RepeatInv'
  <2> SUFFICES ASSUME NEW g \in Timers, uv'[g].state = "active"
               PROVE  /\ isrepeat[timeoutObj[g]] = FALSE => uv'[g].repeat = 0
                      /\ isrepeat[timeoutObj[g]] = TRUE /\ after[timeoutObj[g]] # NaN
                            => uv'[g].repeat # 0
    BY DEF RepeatInv, UvState
  <2> QED
    BY DEF AccountInv, RepeatInv, UvState
<1>5. IdleInv'
  BY DEF AccountInv, IdleInv, UvState, InUserCode
<1>6. OneShotInv'
  <2>1. \A s \in Timeouts : /\ OneShot(s)' <=> OneShot(s)
                            /\ Excused(s)' <=> Excused(s)
                            /\ NotActive(s) => NotActive(s)'
    BY DEF OneShot, Excused, NotActive, UvState
  <2> QED
    BY <2>1 DEF AccountInv, OneShotInv, InUserCode
<1> QED
  BY <1>1, <1>2, <1>3, <1>4, <1>5, <1>6 DEF AccountInv

\* Every step keeps the accounts.
LEMMA AccountStep ==
    ASSUME AccountInv, [Next]_vars
    PROVE  AccountInv'
<1>0. DOMAIN uv = Timers
  BY DEF AccountInv, AccountTypes
<1> DEFINE Kept == UNCHANGED <<isrepeat, after, callback, handler, timeoutObj, calls, threw, reffed>>
<1>1. CASE \E t \in Timeouts : \E rep \in BOOLEAN, delay \in Delays : SetTimer(t, rep, delay)
  BY <1>1, RefStep
<1>2. CASE \E t \in Timeouts : UserRef(t)
  BY <1>2, RefStep
<1>3. ASSUME NEW t \in Timeouts, Clear(t) \/ UserUnref(t)
      PROVE  AccountInv'
  BY <1>3, UnrefStep DEF Clear, UserUnref
<1>4. CASE CallbackReturn
  BY <1>4, ReturnStep
<1>5. CASE CallbackThrow
  BY <1>5, ThrowStep
<1>6. CASE EndTurn \/ ExitProcess \/ LoopEnds \/ TimePasses \/ Release \/ Done \/ UNCHANGED vars
  <2>1. Kept /\ uv' = uv
    BY <1>6 DEF EndTurn, ExitProcess, LoopEnds, TimePasses, Release, Done, vars, timeoutVars,
                timerVars, history
  <2>2. \/ UNCHANGED <<pc, current>>
        \/ pc # "callback" /\ pc' = "loop" /\ InUserCode
        \/ pc' \in {"exit", "walk", "final", "done"}
    BY <1>6 DEF EndTurn, ExitProcess, LoopEnds, TimePasses, Release, Done, vars, InUserCode
  <2> QED
    BY <1>0, <2>1, <2>2, QuietStep
<1>7. CASE Walk
  <2>1. Kept /\ pc' = "final"
    BY <1>7 DEF Walk, timeoutVars, history
  <2>2. DOMAIN uv' = Timers
    BY <1>7 DEF Walk
  <2>3. \A h \in Timers : uv'[h].state \notin {"idle", "active"}
    BY <1>7 DEF Walk, Resting, UvState
  <2> QED
    BY <2>1, <2>2, <2>3, QuietStep
<1>8. CASE UpdateTime
  <2>1. Kept /\ UNCHANGED <<pc, current>>
    BY <1>8 DEF UpdateTime, timeoutVars, history
  <2>2. DOMAIN uv' = Timers
    BY <1>8 DEF UpdateTime
  <2>3. \A h \in Timers : uv'[h].state = uv[h].state /\ uv'[h].repeat = uv[h].repeat
    BY <1>8 DEF UpdateTime
  <2> QED
    BY <2>1, <2>2, <2>3, QuietStep
<1>9. ASSUME NEW h \in Timers, OnHandleClosed(h)
      PROVE  AccountInv'
  <2>1. Kept /\ UNCHANGED <<pc, current>>
    BY <1>9 DEF OnHandleClosed, timeoutVars, history
  <2>2. DOMAIN uv' = Timers /\ uv'[h].state = "closed"
        /\ \A g \in Timers : g # h => uv'[g] = uv[g]
    BY <1>0, <1>9 DEF OnHandleClosed, Resting
  <2> QED
    BY <2>1, <2>2, QuietStep
<1>10. ASSUME NEW h \in Timers, Collect(h)
       PROVE  AccountInv'
  <2>1. Kept /\ UNCHANGED <<uv, pc, current>>
    BY <1>10 DEF Collect, timeoutVars, history
  <2> QED
    BY <1>0, <2>1, QuietStep
<1>11. ASSUME NEW h \in Timers, Fire(h)
       PROVE  AccountInv'
  BY <1>11, FireStep
<1> QED
  BY <1>1, <1>2, <1>3, <1>4, <1>5, <1>6, <1>7, <1>8, <1>9, <1>10, <1>11
  DEF Next, User, Turn, Loop

\* Every handle is accounted for in every reachable state: an open handle belongs to a
\* Timeout, one that runs has something to call, none that is over is left open and no
\* one-shot is called twice, apart from what ref(), an exception or a delay that is no
\* number do (timers.js:31-65).
THEOREM AllHandlesAccounted == Spec => []HandlesAccounted
<1>1. Init => AccountInv
  <2> SUFFICES ASSUME Init PROVE AccountInv
    OBVIOUS
  <2>1. AccountTypes
    BY DEF Init, AccountTypes
  <2>2. UnmadeInv /\ OwnerInv /\ RepeatInv /\ IdleInv
    BY ConstantsAssumption DEF Init, UnmadeInv, OwnerInv, RepeatInv, IdleInv, UvState, Resting
  <2>3. OneShotInv
    BY DEF Init, OneShotInv
  <2> QED
    BY <2>1, <2>2, <2>3 DEF AccountInv
<1>2. AccountInv /\ [Next]_vars => AccountInv'
  BY AccountStep
<1>3. AccountInv => HandlesAccounted
  <2> SUFFICES ASSUME AccountInv PROVE HandlesAccounted
    OBVIOUS
  <2>1. NoZombieUnlessRef
    BY DEF AccountInv, OwnerInv, NoZombieUnlessRef, Active
  <2>2. NoIdleHandle
    BY DEF AccountInv, OwnerInv, IdleInv, NoIdleHandle
  <2>3. OneShotOnce
    BY DEF AccountInv, OneShotInv, OneShotOnce, OneShot, Excused
  <2> QED
    BY <2>1, <2>2, <2>3 DEF HandlesAccounted
<1> QED
  BY <1>1, <1>2, <1>3, PTL DEF Spec

=============================================================================
