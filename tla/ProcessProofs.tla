------------------------------ MODULE ProcessProofs ------------------------------
(***************************************************************************)
(* Proofs about Process: an exit is final, ticks run in the order of the   *)
(* nextTick() calls, and the loop ends with nothing left to do.            *)
(***************************************************************************)
EXTENDS Process, SequenceTheorems, TLAPS

Frames == {"script", "handler", "listener", "emit", "finally"}

TypeOK ==
    /\ env \in {"kInitializing", "kRunningMain", "kRunningLoop", "kExiting"}
    /\ pc \in ScriptPc \union TicksPc \union
              {"start", "poll", "jobs", "loopEnd", "exitEvent", "cleanup", "done"}
    /\ js \in Seq(Frames)
    /\ queue \in Seq(Nat) /\ batch \in Seq(Nat)
    /\ more \in BOOLEAN /\ polled \in BOOLEAN
    /\ work \in Nat /\ jobs \in Nat
    /\ started \in [work : Nat, jobs : Nat]
    /\ exiting \in BOOLEAN /\ failed \in BOOLEAN
    /\ exitCode \in Nat /\ left \in Nat /\ exits \in Nat
    /\ handler \in BOOLEAN /\ crashed \in BOOLEAN
    /\ scheduled \in Nat /\ ran \in Nat

\* What starts in state kExiting takes a backward branch that the VM has let pass.
GraceInv ==
    /\ grace \in {0, 1}
    /\ after \in Nat
    /\ after + grace <= 1
    /\ ~Exiting => after = 0

\* Where the C code runs no JavaScript.
QuietPc == {"start", "poll", "loopEnd", "cleanup", "done"}

HasFinally(s) == \E i \in DOMAIN s : s[i] = "finally"

\* The calls on a stack: a listener was called by the emission below it, which belongs
\* to a process.exit() unless the end of the loop made it (atEnd).
Stacked(s, atEnd) ==
    \A i \in DOMAIN s :
       /\ s[i] = "listener" => i = 1 /\ Len(s) >= 2 /\ s[2] = "emit"
       /\ s[i] = "emit" => i = 1 \/ (i = 2 /\ s[1] = "listener")
       /\ s[i] = "emit" /\ i < Len(s) => s[i + 1] = "finally"
       /\ s[i] = "emit" /\ i = Len(s) => atEnd

\* Only user code is on the stack.
Plain(s) == \A i \in DOMAIN s : s[i] \in {"script", "handler"}

\* Before 'exit' is emitted there is only user code; an exit that has begun goes on until
\* the state is kExiting.
StackInv ==
    /\ Stacked(js, pc = "exitEvent")
    /\ exiting \/ Plain(js)
    /\ exiting /\ ~Exiting => pc = "exitEvent" \/ HasFinally(js)
    /\ pc = "exitEvent" => exiting /\ \A i \in DOMAIN js : js[i] \in {"listener", "emit"}
    /\ pc \in QuietPc => js = <<>>

\* 'exit' is emitted once, and a failure stays a failure.
ExitInv ==
    /\ exits = IF exiting THEN 1 ELSE 0
    /\ Exiting => exiting
    /\ pc \in {"cleanup", "done"} => Exiting
    /\ pc = "start" => ~Exiting
    /\ failed => exiting /\ exitCode # 0

\* Outside _onNextTick there is no batch; the ticks to come are numbered without a gap.
TickInv ==
    /\ pc \notin TicksPc => batch = <<>>
    /\ ~Exiting => ran <= scheduled
    /\ TicksInOrder

\* As long as no job was enqueued none runs, and more tells of all the work there is.
WorkInv ==
    /\ jobs <= started.jobs
    /\ pc = "jobs" /\ started.jobs = 0 => js = <<>>
    /\ pc = "jobs" /\ started.jobs = 0 /\ ~Exiting => more \/ (work = 0 /\ queue = <<>>)
    /\ EndsUnlessJobs

IInv == TypeOK /\ GraceInv /\ StackInv /\ ExitInv /\ TickInv /\ WorkInv

-----------------------------------------------------------------------------
(***************************************************************************)
(* Pushing and popping.                                                    *)
(***************************************************************************)

LEMMA TailFacts ==
    ASSUME NEW S, NEW s \in Seq(S), s # <<>>
    PROVE  /\ Len(s) \in Nat /\ Len(s) >= 1 /\ 1 \in DOMAIN s
           /\ DOMAIN s = 1 .. Len(s)
           /\ Head(s) = s[1]
           /\ Tail(s) \in Seq(S)
           /\ Len(Tail(s)) = Len(s) - 1
           /\ DOMAIN Tail(s) = 1 .. Len(s) - 1
           /\ \A i \in 1 .. Len(s) - 1 : Tail(s)[i] = s[i + 1]
  OBVIOUS

LEMMA PushFacts ==
    ASSUME NEW S, NEW s \in Seq(S), NEW x \in S
    PROVE  /\ Len(s) \in Nat
           /\ <<x>> \o s \in Seq(S)
           /\ Len(<<x>> \o s) = Len(s) + 1
           /\ DOMAIN (<<x>> \o s) = 1 .. Len(s) + 1
           /\ (<<x>> \o s)[1] = x
           /\ \A i \in 2 .. Len(s) + 1 : (<<x>> \o s)[i] = s[i - 1]
<1>1. <<x>> \in Seq(S) /\ Len(<<x>>) = 1 /\ <<x>>[1] = x /\ Len(s) \in Nat
  OBVIOUS
<1>2. /\ <<x>> \o s \in Seq(S)
      /\ Len(<<x>> \o s) = Len(<<x>>) + Len(s)
      /\ \A i \in 1 .. Len(<<x>>) + Len(s) :
            (<<x>> \o s)[i] = IF i <= Len(<<x>>) THEN <<x>>[i] ELSE s[i - Len(<<x>>)]
  BY <1>1, ConcatProperties
<1> QED
  BY <1>1, <1>2

\* A call that returns or is given up.
LEMMA Pop ==
    ASSUME NEW s \in Seq(Frames), s # <<>>, NEW e, Stacked(s, e)
    PROVE  /\ Tail(s) \in Seq(Frames)
           /\ Stacked(Tail(s), e)
           /\ \A i \in DOMAIN Tail(s) : i + 1 \in DOMAIN s /\ Tail(s)[i] = s[i + 1]
           /\ Plain(s) => Plain(Tail(s))
           /\ HasFinally(s) /\ Head(s) # "finally" => HasFinally(Tail(s))
<1> DEFINE t == Tail(s)
<1>1. /\ Len(s) \in Nat /\ DOMAIN s = 1 .. Len(s) /\ Head(s) = s[1]
      /\ t \in Seq(Frames) /\ Len(t) = Len(s) - 1 /\ DOMAIN t = 1 .. Len(s) - 1
      /\ \A i \in 1 .. Len(s) - 1 : t[i] = s[i + 1]
  BY TailFacts
<1> HIDE DEF t
<1>2. \A i \in DOMAIN t : i + 1 \in DOMAIN s /\ t[i] = s[i + 1]
  BY <1>1
<1>3. Stacked(t, e)
  <2> SUFFICES ASSUME NEW i \in DOMAIN t
               PROVE  /\ t[i] # "listener"
                      /\ t[i] = "emit" => i = 1
                      /\ t[i] = "emit" /\ i < Len(t) => t[i + 1] = "finally"
                      /\ t[i] = "emit" /\ i = Len(t) => e
    BY DEF Stacked
  <2>1. i \in Nat /\ i >= 1 /\ i + 1 \in DOMAIN s /\ t[i] = s[i + 1]
    BY <1>1, <1>2
  <2>2. t[i] # "listener" /\ (t[i] = "emit" => i = 1)
    BY <2>1 DEF Stacked
  <2>3. ASSUME t[i] = "emit", i < Len(t)
        PROVE  t[i + 1] = "finally"
    <3>1. i + 1 < Len(s) /\ i + 1 \in 1 .. Len(s) - 1
      BY <2>1, <2>3, <1>1
    <3>2. s[i + 1 + 1] = "finally"
      BY <3>1, <2>1, <2>3 DEF Stacked
    <3> QED
      BY <3>1, <3>2, <1>1
  <2>4. ASSUME t[i] = "emit", i = Len(t)
        PROVE  e
    BY <2>1, <2>4, <1>1 DEF Stacked
  <2> QED
    BY <2>2, <2>3, <2>4
<1>4. Plain(s) => Plain(t)
  BY <1>2 DEF Plain
<1>5. ASSUME HasFinally(s), Head(s) # "finally"
      PROVE  HasFinally(t)
  <2>1. PICK i \in DOMAIN s : s[i] = "finally"
    BY <1>5 DEF HasFinally
  <2>2. i - 1 \in 1 .. Len(s) - 1 /\ t[i - 1] = s[i]
    BY <2>1, <1>1, <1>5
  <2> QED
    BY <2>1, <2>2, <1>1 DEF HasFinally
<1> QED
  BY <1>1, <1>2, <1>3, <1>4, <1>5 DEF t

\* A frame that is pushed.
LEMMA Push ==
    ASSUME NEW s \in Seq(Frames), NEW e, Stacked(s, e), NEW x \in Frames,
           \/ x = "handler" /\ \A i \in DOMAIN s : s[i] # "emit" /\ s[i] # "listener"
           \/ x = "finally" /\ Plain(s)
           \/ x = "emit" /\ s # <<>> /\ Head(s) = "finally"
                         /\ \A i \in DOMAIN s : s[i] # "emit" /\ s[i] # "listener"
           \/ x = "listener" /\ s # <<>> /\ Head(s) = "emit"
                             /\ \A i \in DOMAIN s : s[i] # "listener" 
    PROVE  /\ <<x>> \o s \in Seq(Frames)
           /\ Stacked(<<x>> \o s, e)
           /\ \A i \in DOMAIN (<<x>> \o s) :
                 (<<x>> \o s)[i] = x \/ (\E j \in DOMAIN s : (<<x>> \o s)[i] = s[j])
           /\ x = "finally" \/ HasFinally(s) => HasFinally(<<x>> \o s)
<1> DEFINE t == <<x>> \o s
<1>1. /\ Len(s) \in Nat /\ t \in Seq(Frames) /\ Len(t) = Len(s) + 1
      /\ DOMAIN t = 1 .. Len(s) + 1 /\ t[1] = x
      /\ \A i \in 2 .. Len(s) + 1 : t[i] = s[i - 1]
  BY PushFacts
<1>2. DOMAIN s = 1 .. Len(s) /\ (s # <<>> => Len(s) >= 1 /\ Head(s) = s[1])
  OBVIOUS
<1> HIDE DEF t
<1>3. \A i \in DOMAIN t : i # 1 => i - 1 \in DOMAIN s /\ t[i] = s[i - 1]
  BY <1>1, <1>2
<1>4. Stacked(t, e)
  <2> SUFFICES ASSUME NEW i \in DOMAIN t
               PROVE  /\ t[i] = "listener" => i = 1 /\ Len(t) >= 2 /\ t[2] = "emit"
                      /\ t[i] = "emit" => i = 1 \/ (i = 2 /\ t[1] = "listener")
                      /\ t[i] = "emit" /\ i < Len(t) => t[i + 1] = "finally"
                      /\ t[i] = "emit" /\ i = Len(t) => e
    BY DEF Stacked
  <2>1. CASE i = 1
    <3>1. s # <<>> => t[2] = Head(s) /\ Len(t) >= 2
      BY <1>1, <1>2
    <3> QED
      BY <3>1, <2>1, <1>1
  <2>2. CASE i # 1
    <3>1. i - 1 \in DOMAIN s /\ t[i] = s[i - 1] /\ i \in Nat
      BY <2>2, <1>1, <1>3
    <3>2. t[i] # "listener"
      BY <3>1 DEF Plain
    <3>3. ASSUME t[i] = "emit"
          PROVE  i = 2 /\ x = "listener"
      BY <3>1, <3>3, <1>1, <1>2 DEF Plain, Stacked
    <3>4. ASSUME t[i] = "emit", i < Len(t)
          PROVE  t[i + 1] = "finally"
      <4>1. i - 1 < Len(s) /\ i + 1 \in 2 .. Len(s) + 1 /\ (i - 1) + 1 = i /\ (i + 1) - 1 = i
        BY <3>1, <3>4, <1>1
      <4>2. s[(i - 1) + 1] = "finally"
        BY <4>1, <3>1, <3>4 DEF Stacked
      <4> QED
        BY <4>1, <4>2, <1>1
    <3>5. ASSUME t[i] = "emit", i = Len(t)
          PROVE  e
      <4>1. i - 1 = Len(s)
        BY <3>5, <1>1
      <4> QED
        BY <4>1, <3>1, <3>5 DEF Stacked
    <3> QED
      BY <3>2, <3>3, <3>4, <3>5, <1>1
  <2> QED
    BY <2>1, <2>2
<1>5. \A i \in DOMAIN t : t[i] = x \/ (\E j \in DOMAIN s : t[i] = s[j])
  BY <1>1, <1>3
<1>6. x = "finally" \/ HasFinally(s) => HasFinally(t)
  <2>1. CASE x = "finally"
    BY <2>1, <1>1 DEF HasFinally
  <2>2. ASSUME HasFinally(s)
        PROVE  HasFinally(t)
    <3>1. PICK j \in DOMAIN s : s[j] = "finally"
      BY <2>2 DEF HasFinally
    <3>2. j + 1 \in DOMAIN t /\ t[j + 1] = s[j]
      BY <1>1, <1>2
    <3> QED
      BY <3>1, <3>2 DEF HasFinally
  <2> QED
    BY <2>1, <2>2
<1> QED
  BY <1>1, <1>4, <1>5, <1>6 DEF t

\* process.exit(): the emission of 'exit' is pushed, or kExiting is reached.
LEMMA ExitStack ==
    ASSUME NEW c, NEW rest \in Seq(Frames), NEW e, Stacked(rest, e), exiting \/ Plain(rest),
           exiting \in BOOLEAN, Exit(c, rest)
    PROVE  /\ js' \in Seq(Frames) /\ Stacked(js', e) /\ exiting'
           /\ ~Exiting' => HasFinally(js')
           /\ exiting => js' = rest
<1>1. CASE exiting
  BY <1>1 DEF Exit, DoExit, Exiting
<1>2. CASE ~exiting
  <2> DEFINE f == <<"finally">> \o rest
  <2>1. js' = <<"emit", "finally">> \o rest /\ exiting'
    BY <1>2 DEF Exit, EmitExit
  <2>2. <<"emit", "finally">> \o rest = <<"emit">> \o f
    <3>1. <<"emit">> \in Seq(Frames) /\ <<"finally">> \in Seq(Frames)
      BY DEF Frames
    <3>2. <<"emit">> \o <<"finally">> = <<"emit", "finally">>
      <4> DEFINE a == <<"emit">>
                 d == <<"finally">>
                 w == <<"emit", "finally">>
      <4>1. w \in Seq(Frames) /\ Len(w) = 2 /\ w[1] = "emit" /\ w[2] = "finally"
        BY DEF Frames
      <4>2. a[1] = "emit" /\ d[1] = "finally" /\ Len(a) = 1 /\ Len(d) = 1
        OBVIOUS
      <4> HIDE DEF a, d, w
      <4>3. /\ a \o d \in Seq(Frames) /\ Len(a \o d) = Len(a) + Len(d)
            /\ \A i \in 1 .. Len(a) + Len(d) :
                  (a \o d)[i] = IF i <= Len(a) THEN a[i] ELSE d[i - Len(a)]
        BY <3>1, ConcatProperties DEF a, d
      <4>4. Len(a \o d) = 2 /\ (a \o d)[1] = "emit" /\ (a \o d)[2] = "finally"
        BY <4>2, <4>3
      <4>5. \A i \in 1 .. Len(a \o d) : (a \o d)[i] = w[i]
        BY <4>1, <4>4
      <4>6. a \o d = w
        BY <4>1, <4>3, <4>4, <4>5, SeqEqual
      <4> QED
        BY <4>6 DEF a, d, w
    <3>3. (<<"emit">> \o <<"finally">>) \o rest = <<"emit">> \o (<<"finally">> \o rest)
      BY <3>1, ConcatAssociative
    <3> QED
      BY <3>2, <3>3
  <2>3. "finally" \in Frames /\ "emit" \in Frames
    BY DEF Frames
  <2>4. Plain(rest)
    BY <1>2
  <2>5. /\ f \in Seq(Frames) /\ Stacked(f, e) /\ HasFinally(f)
        /\ \A i \in DOMAIN f : f[i] = "finally" \/ (\E j \in DOMAIN rest : f[i] = rest[j])
    BY <2>3, <2>4, Push
  <2>6. f # <<>> /\ Head(f) = "finally"
    <3>1. Len(f) = Len(rest) + 1 /\ f[1] = "finally" /\ Len(rest) \in Nat
      BY <2>3, PushFacts
    <3> HIDE DEF f
    <3> QED
      BY <3>1, <2>5
  <2>7. \A i \in DOMAIN f : f[i] # "emit" /\ f[i] # "listener"
    BY <2>4, <2>5 DEF Plain
  <2> HIDE DEF f
  <2>8. /\ <<"emit">> \o f \in Seq(Frames) /\ Stacked(<<"emit">> \o f, e)
        /\ HasFinally(<<"emit">> \o f)
    BY <2>3, <2>5, <2>6, <2>7, Push
  <2> QED
    BY <2>1, <2>2, <2>8, <1>2
<1> QED
  BY <1>1, <1>2

\* The stack, over a step.
LEMMA StackStep ==
    ASSUME IInv, Next
    PROVE  js' \in Seq(Frames) /\ StackInv'
<1>1. CASE NextTick
  BY <1>1 DEF NextTick, exitVars, IInv, TypeOK, StackInv, Exiting
<1>2. CASE StartWork
  BY <1>2 DEF StartWork, exitVars, IInv, TypeOK, StackInv, Exiting
<1>3. CASE EnqueueJob
  BY <1>3 DEF EnqueueJob, exitVars, IInv, TypeOK, StackInv, Exiting
<1>4. CASE SetExitCode
  BY <1>4 DEF SetExitCode, IInv, TypeOK, StackInv
<1>5. CASE CallExit
  <2>1. /\ js \in Seq(Frames) /\ js # <<>> /\ Head(js) = js[1] /\ 1 \in DOMAIN js
        /\ exiting \in BOOLEAN /\ pc \notin QuietPc
    BY <1>5, TailFacts DEF CallExit, InUserCode, IInv, TypeOK, StackInv
  <2>2. UNCHANGED pc
    BY <1>5 DEF CallExit
  <2>3. PICK c : Exit(c, js)
    BY <1>5 DEF CallExit
  <2>4. Stacked(js, pc = "exitEvent") /\ (exiting \/ Plain(js))
    BY DEF IInv, StackInv
  <2>5. /\ js' \in Seq(Frames) /\ Stacked(js', pc = "exitEvent") /\ exiting'
        /\ ~Exiting' => HasFinally(js')
        /\ exiting => js' = js
    BY <2>1, <2>3, <2>4, ExitStack
  <2> QED
    BY <2>1, <2>2, <2>5 DEF IInv, StackInv
<1>6. CASE Return
  <2>1. /\ js \in Seq(Frames) /\ js # <<>> /\ Head(js) = js[1] /\ 1 \in DOMAIN js
        /\ exiting \in BOOLEAN /\ pc \notin QuietPc
    BY <1>6, TailFacts DEF Return, InUserCode, IInv, TypeOK, StackInv
  <2>2. /\ Tail(js) \in Seq(Frames) /\ Stacked(Tail(js), pc = "exitEvent")
        /\ \A i \in DOMAIN Tail(js) : i + 1 \in DOMAIN js /\ Tail(js)[i] = js[i + 1]
        /\ Plain(js) => Plain(Tail(js))
        /\ HasFinally(js) /\ Head(js) # "finally" => HasFinally(Tail(js))
    BY <2>1, Pop DEF IInv, StackInv
  <2>3. js' = Tail(js) /\ UNCHANGED <<env, pc, exiting>> /\ Head(js) # "finally"
    BY <1>6 DEF Return, InUserCode, UserFrame, exitVars
  <2> QED
    BY <2>1, <2>2, <2>3 DEF IInv, StackInv, Exiting
<1>7. CASE ThrowInScript
  <2>1. /\ js \in Seq(Frames) /\ js # <<>> /\ Head(js) = js[1] /\ 1 \in DOMAIN js
        /\ exiting \in BOOLEAN /\ pc \notin QuietPc
    BY <1>7, TailFacts DEF ThrowInScript, IInv, TypeOK, StackInv
  <2>2. /\ Tail(js) \in Seq(Frames) /\ Stacked(Tail(js), pc = "exitEvent")
        /\ \A i \in DOMAIN Tail(js) : i + 1 \in DOMAIN js /\ Tail(js)[i] = js[i + 1]
        /\ Plain(js) => Plain(Tail(js))
        /\ HasFinally(js) /\ Head(js) # "finally" => HasFinally(Tail(js))
    BY <2>1, Pop DEF IInv, StackInv
  <2>3. Head(js) = "script" /\ pc # "exitEvent" /\ OnUncaughtException(Tail(js))
        /\ pc' # "exitEvent" /\ pc' \notin QuietPc
    BY <1>7, <2>1 DEF ThrowInScript, ScriptPc, TicksPc, QuietPc
  <2>4. Stacked(Tail(js), pc' = "exitEvent") /\ (exiting \/ Plain(Tail(js)))
    BY <2>2, <2>3 DEF IInv, StackInv
  <2>5. CASE handler
    <3>1. js' = <<"handler">> \o Tail(js) /\ UNCHANGED <<env, exiting>>
      BY <2>3, <2>5 DEF OnUncaughtException, exitVars
    <3>2. \A i \in DOMAIN Tail(js) : Tail(js)[i] # "emit" /\ Tail(js)[i] # "listener"
      <4>1. \A i \in DOMAIN Tail(js) : i \in Nat /\ i >= 1
        BY <2>2
      <4> QED
        BY <4>1, <2>1, <2>2, <2>3 DEF IInv, StackInv, Stacked
    <3>3. "handler" \in Frames
      BY DEF Frames
    <3>4. /\ js' \in Seq(Frames) /\ Stacked(js', pc' = "exitEvent")
          /\ \A i \in DOMAIN js' :
                js'[i] = "handler" \/ (\E j \in DOMAIN Tail(js) : js'[i] = Tail(js)[j])
          /\ HasFinally(Tail(js)) => HasFinally(js')
      BY <3>1, <3>2, <3>3, <2>2, <2>4, Push
    <3>5. exiting \/ Plain(js')
      BY <3>4, <2>4 DEF Plain
    <3>6. exiting /\ ~Exiting => HasFinally(js')
      BY <3>4, <2>2, <2>3 DEF IInv, StackInv
    <3> QED
      BY <3>1, <3>4, <3>5, <3>6, <2>3 DEF StackInv, Exiting
  <2>6. CASE ~handler
    <3>1. Exit(1, Tail(js))
      BY <2>3, <2>6 DEF OnUncaughtException
    <3>2. /\ js' \in Seq(Frames) /\ Stacked(js', pc' = "exitEvent") /\ exiting'
          /\ ~Exiting' => HasFinally(js')
      BY <3>1, <2>1, <2>2, <2>4, ExitStack
    <3> QED
      BY <3>2, <2>3 DEF StackInv
  <2> QED
    BY <2>5, <2>6
<1>8. CASE ThrowInJob
  BY <1>8 DEF ThrowInJob, exitVars, IInv, StackInv, Stacked, Plain, HasFinally, Exiting
<1>9. CASE ThrowInHandler
  <2>1. /\ js \in Seq(Frames) /\ js # <<>> /\ Head(js) = js[1] /\ 1 \in DOMAIN js
        /\ exiting \in BOOLEAN /\ pc \notin QuietPc
    BY <1>9, TailFacts DEF ThrowInHandler, IInv, TypeOK, StackInv
  <2>2. /\ Tail(js) \in Seq(Frames) /\ Stacked(Tail(js), pc = "exitEvent")
        /\ \A i \in DOMAIN Tail(js) : i + 1 \in DOMAIN js /\ Tail(js)[i] = js[i + 1]
        /\ Plain(js) => Plain(Tail(js))
        /\ HasFinally(js) /\ Head(js) # "finally" => HasFinally(Tail(js))
    BY <2>1, Pop DEF IInv, StackInv
  <2>3. Head(js) = "handler" /\ Exit(1, Tail(js)) /\ UNCHANGED pc
    BY <1>9 DEF ThrowInHandler
  <2>4. exiting \/ Plain(Tail(js))
    BY <2>2 DEF IInv, StackInv
  <2>5. pc # "exitEvent"
    BY <2>1, <2>3 DEF IInv, StackInv
  <2>6. /\ js' \in Seq(Frames) /\ Stacked(js', pc = "exitEvent") /\ exiting'
        /\ ~Exiting' => HasFinally(js')
    BY <2>1, <2>2, <2>3, <2>4, ExitStack
  <2> QED
    BY <2>1, <2>3, <2>5, <2>6 DEF StackInv
<1>10. CASE ThrowInListener
  <2>1. /\ js \in Seq(Frames) /\ js # <<>> /\ Head(js) = js[1] /\ 1 \in DOMAIN js
        /\ exiting \in BOOLEAN /\ pc \notin QuietPc
    BY <1>10, TailFacts DEF ThrowInListener, IInv, TypeOK, StackInv
  <2>2. /\ Tail(js) \in Seq(Frames) /\ Stacked(Tail(js), pc = "exitEvent")
        /\ \A i \in DOMAIN Tail(js) : i + 1 \in DOMAIN js /\ Tail(js)[i] = js[i + 1]
        /\ Plain(js) => Plain(Tail(js))
        /\ HasFinally(js) /\ Head(js) # "finally" => HasFinally(Tail(js))
    BY <2>1, Pop DEF IInv, StackInv
  <2>3. /\ js[1] = "listener" /\ Len(js) >= 2 /\ js[2] = "emit" /\ exiting
        /\ UNCHANGED <<pc, exiting>>
    BY <1>10, <2>1 DEF ThrowInListener, DoExit, IInv, StackInv, Stacked, Plain
  <2>4. CASE Len(js) = 2
    <3>1. js' = <<>>
      BY <1>10, <2>4 DEF ThrowInListener
    <3>2. pc = "exitEvent"
      BY <2>1, <2>3, <2>4 DEF IInv, StackInv, Stacked
    <3> QED
      BY <3>1, <3>2, <2>3 DEF StackInv, Stacked
  <2>5. CASE Len(js) # 2
    <3> DEFINE t == Tail(js)
               r == Tail(t)
    <3>1. DOMAIN js = 1 .. Len(js) /\ Len(js) \in Nat /\ Len(js) > 2
      <4>1. DOMAIN js = 1 .. Len(js) /\ Len(js) \in Nat
        BY <2>1, TailFacts
      <4> QED
        BY <4>1, <2>3, <2>5
    <3>2. js[3] = "finally" /\ 3 \in DOMAIN js
      BY <3>1, <2>3 DEF IInv, StackInv, Stacked
    <3>3. pc # "exitEvent"
      BY <3>2 DEF IInv, StackInv
    <3>4. t # <<>> /\ Head(t) = "emit"
      <4>1. t \in Seq(Frames) /\ Len(t) = Len(js) - 1 /\ t[1] = js[2]
        BY <3>1, <2>1, TailFacts
      <4>2. t # <<>> => Head(t) = t[1]
        BY <4>1, TailFacts
      <4>3. t # <<>>
        BY <4>1, <3>1
      <4> QED
        BY <4>1, <4>2, <4>3, <2>3
    <3> HIDE DEF t
    <3>5. /\ r \in Seq(Frames) /\ Stacked(r, pc = "exitEvent")
          /\ \A i \in DOMAIN r : i + 1 \in DOMAIN t /\ r[i] = t[i + 1]
          /\ HasFinally(t) => HasFinally(r)
      BY <3>4, <2>2, Pop DEF t
    <3>6. HasFinally(r)
      BY <3>2, <3>5, <2>2, <2>3, <2>1 DEF HasFinally, t
    <3>7. \A i \in DOMAIN r : r[i] # "emit" /\ r[i] # "listener"
      <4>1. \A i \in DOMAIN r : i + 2 \in DOMAIN js /\ r[i] = js[i + 2] /\ i \in Nat /\ i >= 1
        BY <3>5, <2>2 DEF t
      <4>2. \A i \in DOMAIN r : i + 2 # 1 /\ i + 2 # 2
        BY <4>1
      <4> QED
        BY <4>1, <4>2 DEF IInv, StackInv, Stacked
    <3> HIDE DEF r
    <3>8. js' = r \/ js' = <<"handler">> \o r
      BY <1>10, <2>5 DEF ThrowInListener, DoExit, r, t
    <3>9. "handler" \in Frames
      BY DEF Frames
    <3>10. js' \in Seq(Frames) /\ Stacked(js', pc = "exitEvent") /\ HasFinally(js')
      BY <3>5, <3>6, <3>7, <3>8, <3>9, Push
    <3> QED
      BY <3>3, <3>10, <2>1, <2>3 DEF StackInv
  <2> QED
    BY <2>4, <2>5
<1>11. CASE CallListener
  <2>1. /\ js \in Seq(Frames) /\ js # <<>> /\ Head(js) = js[1] /\ 1 \in DOMAIN js
        /\ exiting \in BOOLEAN /\ pc \notin QuietPc
    BY <1>11, TailFacts DEF CallListener, IInv, TypeOK, StackInv
  <2>2. /\ Head(js) = "emit" /\ js' = <<"listener">> \o js
        /\ UNCHANGED <<env, pc, exiting>>
    BY <1>11 DEF CallListener
  <2>3. \A i \in DOMAIN js : js[i] # "listener"
    BY <2>1, <2>2 DEF IInv, StackInv, Stacked
  <2>4. "listener" \in Frames /\ exiting
    BY <2>1, <2>2 DEF Frames, IInv, StackInv, Plain
  <2>5. /\ js' \in Seq(Frames) /\ Stacked(js', pc = "exitEvent")
        /\ \A i \in DOMAIN js' : js'[i] = "listener" \/ (\E j \in DOMAIN js : js'[i] = js[j])
        /\ HasFinally(js) => HasFinally(js')
    BY <2>1, <2>2, <2>3, <2>4, Push DEF IInv, StackInv
  <2> QED
    BY <2>1, <2>2, <2>4, <2>5 DEF IInv, StackInv, Exiting
<1>12. CASE EmitDone
  <2>1. /\ js \in Seq(Frames) /\ js # <<>> /\ Head(js) = js[1] /\ 1 \in DOMAIN js
        /\ exiting \in BOOLEAN /\ pc \notin QuietPc
    BY <1>12, TailFacts DEF EmitDone, IInv, TypeOK, StackInv
  <2>2. /\ Tail(js) \in Seq(Frames) /\ Stacked(Tail(js), pc = "exitEvent")
        /\ \A i \in DOMAIN Tail(js) : i + 1 \in DOMAIN js /\ Tail(js)[i] = js[i + 1]
        /\ Plain(js) => Plain(Tail(js))
        /\ HasFinally(js) /\ Head(js) # "finally" => HasFinally(Tail(js))
    BY <2>1, Pop DEF IInv, StackInv
  <2>3. js' = Tail(js) /\ UNCHANGED <<env, pc, exiting>> /\ Head(js) # "finally"
    BY <1>12 DEF EmitDone, exitVars
  <2> QED
    BY <2>1, <2>2, <2>3 DEF IInv, StackInv, Exiting
<1>13. CASE FinallyDoExit
  <2>1. /\ js \in Seq(Frames) /\ js # <<>> /\ Head(js) = js[1] /\ 1 \in DOMAIN js
        /\ exiting \in BOOLEAN /\ pc \notin QuietPc
    BY <1>13, TailFacts DEF FinallyDoExit, IInv, TypeOK, StackInv
  <2>2. /\ Tail(js) \in Seq(Frames) /\ Stacked(Tail(js), pc = "exitEvent")
        /\ \A i \in DOMAIN Tail(js) : i + 1 \in DOMAIN js /\ Tail(js)[i] = js[i + 1]
        /\ Plain(js) => Plain(Tail(js))
        /\ HasFinally(js) /\ Head(js) # "finally" => HasFinally(Tail(js))
    BY <2>1, Pop DEF IInv, StackInv
  <2>3. js' = Tail(js) /\ Exiting' /\ UNCHANGED <<pc, exiting>>
    BY <1>13 DEF FinallyDoExit, DoExit, Exiting
  <2> QED
    BY <2>1, <2>2, <2>3 DEF IInv, StackInv
<1>14. CASE RunTick
  BY <1>14 DEF RunTick, exitVars, IInv, StackInv, Stacked, Plain, HasFinally, QuietPc,
       TicksPc, Exiting, ExitInv, Frames
<1>15. CASE StartMain
  BY <1>15 DEF StartMain, exitVars, IInv, StackInv, Stacked, Plain, HasFinally, QuietPc,
       ExitInv, Frames
<1>16. CASE MainEnded
  BY <1>16 DEF MainEnded, exitVars, IInv, StackInv, Exiting
<1>17. CASE MainThrew
  BY <1>17 DEF MainThrew, exitVars, LeaveMain, IInv, StackInv, Exiting
<1>18. CASE MainTicksDone
  BY <1>18 DEF MainTicksDone, exitVars, LeaveMain, IInv, StackInv, Exiting
<1>19. CASE PollEvent
  BY <1>19 DEF PollEvent, exitVars, IInv, StackInv, Stacked, Plain, HasFinally, QuietPc,
       Frames
<1>20. CASE PollSkip
  BY <1>20 DEF PollSkip, exitVars, IInv, TypeOK, StackInv, Exiting
<1>21. CASE CallbackEnded
  BY <1>21 DEF CallbackEnded, exitVars, IInv, StackInv, Exiting
<1>22. CASE CallbackTicksDone
  BY <1>22 DEF CallbackTicksDone, exitVars, IInv, StackInv, Exiting
<1>23. CASE PollReturn
  BY <1>23 DEF PollReturn, exitVars, IInv, StackInv, QuietPc, Exiting
<1>24. CASE LoopTicksDone
  BY <1>24 DEF LoopTicksDone, exitVars, IInv, StackInv, Exiting
<1>25. CASE RunJob
  BY <1>25 DEF RunJob, exitVars, IInv, StackInv, Stacked, Plain, HasFinally, QuietPc,
       Exiting, ExitInv, Frames
<1>26. CASE IterationDone
  BY <1>26 DEF IterationDone, exitVars, IInv, StackInv, Exiting
<1>27. CASE LoopEnd
  <2>1. CASE Exiting
    BY <1>27, <2>1 DEF LoopEnd, IInv, StackInv, QuietPc, Exiting
  <2>2. CASE ~Exiting
    <3>1. js' = <<"emit">> /\ pc' = "exitEvent" /\ exiting'
      BY <1>27, <2>2 DEF LoopEnd, EmitExit
    <3>2. /\ <<"emit">> \in Seq(Frames) /\ DOMAIN <<"emit">> = {1}
          /\ Len(<<"emit">>) = 1 /\ <<"emit">>[1] = "emit"
      BY DEF Frames
    <3> QED
      BY <3>1, <3>2 DEF StackInv, Stacked, QuietPc
  <2> QED
    BY <2>1, <2>2
<1>28. CASE GoStateExiting
  BY <1>28 DEF GoStateExiting, exitVars, IInv, StackInv, Stacked, Exiting
<1>29. CASE Cleanup
  BY <1>29 DEF Cleanup, exitVars, IInv, StackInv, QuietPc, Exiting
<1>30. CASE Abort
  BY <1>30 DEF Abort, IInv, StackInv, Stacked, Plain, Exiting
<1>31. CASE Done
  BY <1>31 DEF Done, exitVars, vars, IInv, TypeOK, StackInv, Exiting
<1> QED
  BY <1>1, <1>2, <1>3, <1>4, <1>5, <1>6, <1>7, <1>8, <1>9, <1>10, <1>11, <1>12, <1>13,
     <1>14, <1>15, <1>16, <1>17, <1>18, <1>19, <1>20, <1>21, <1>22, <1>23, <1>24, <1>25,
     <1>26, <1>27, <1>28, <1>29, <1>30, <1>31 DEF Next, User, Script, Runtime

\* process.exit() and the types.
LEMMA ExitTypes ==
    ASSUME IInv, NEW c \in Nat, NEW rest, Exit(c, rest)
    PROVE  /\ env' \in {"kInitializing", "kRunningMain", "kRunningLoop", "kExiting"}
           /\ exiting' \in BOOLEAN /\ exitCode' \in Nat /\ left' \in Nat /\ exits' \in Nat
<1>1. CASE exiting
  BY <1>1 DEF Exit, DoExit, IInv, TypeOK
<1>2. CASE ~exiting
  <2>1. env' = env /\ exiting' = TRUE /\ exitCode' = c /\ left' = Listeners /\ exits' = exits + 1
    BY <1>2 DEF Exit, EmitExit
  <2>2. exits + 1 \in Nat
    BY DEF IInv, TypeOK
  <2> QED
    BY <2>1, <2>2, ConstantsAssumption DEF IInv, TypeOK
<1> QED
  BY <1>1, <1>2

\* The types, over a step.
LEMMA TypeStep ==
    ASSUME IInv, Next, js' \in Seq(Frames)
    PROVE  TypeOK'
<1>1. CASE NextTick
  BY <1>1, ConstantsAssumption DEF NextTick, loop, workVars, exitVars, IInv, TypeOK
<1>2. CASE StartWork
  <2>1. started \in [work : Nat, jobs : Nat] /\ work \in Nat
    BY DEF IInv, TypeOK
  <2>2. started' \in [work : Nat, jobs : Nat] /\ work' \in Nat
    BY <1>2, <2>1 DEF StartWork
  <2> QED
    BY <1>2, <2>2 DEF StartWork, loop, tickVars, exitVars, IInv, TypeOK
<1>3. CASE EnqueueJob
  <2>1. started \in [work : Nat, jobs : Nat] /\ jobs \in Nat
    BY DEF IInv, TypeOK
  <2>2. started' \in [work : Nat, jobs : Nat] /\ jobs' \in Nat
    BY <1>3, <2>1 DEF EnqueueJob
  <2> QED
    BY <1>3, <2>2 DEF EnqueueJob, loop, tickVars, exitVars, IInv, TypeOK
<1>4. CASE SetExitCode
  BY <1>4, ConstantsAssumption DEF SetExitCode, loop, tickVars, workVars, IInv, TypeOK
<1>5. CASE CallExit
  <2>1. PICK c \in Nat : Exit(c, js)
    BY <1>5, ConstantsAssumption DEF CallExit, IInv, TypeOK
  <2>2. /\ env' \in {"kInitializing", "kRunningMain", "kRunningLoop", "kExiting"}
        /\ exiting' \in BOOLEAN /\ exitCode' \in Nat /\ left' \in Nat /\ exits' \in Nat
    BY <2>1, ExitTypes
  <2> QED
    BY <1>5, <2>2 DEF CallExit, loop, tickVars, workVars, IInv, TypeOK
<1>6. CASE Return
  BY <1>6, ConstantsAssumption DEF Return, loop, tickVars, workVars, exitVars, IInv,
       TypeOK
<1>7. CASE ThrowInScript
  <2>1. UNCHANGED <<loop, tickVars, workVars, handler, crashed>>
        /\ pc' \in {pc, "mainThrew"} /\ OnUncaughtException(Tail(js))
    BY <1>7 DEF ThrowInScript
  <2>2. /\ env' \in {"kInitializing", "kRunningMain", "kRunningLoop", "kExiting"}
        /\ exiting' \in BOOLEAN /\ exitCode' \in Nat /\ left' \in Nat /\ exits' \in Nat
        /\ failed' \in BOOLEAN
    <3>1. CASE handler
      BY <2>1, <3>1 DEF OnUncaughtException, exitVars, IInv, TypeOK
    <3>2. CASE ~handler
      <4>1. Exit(1, Tail(js)) /\ 1 \in Nat /\ failed' = (failed \/ ~exiting)
        BY <2>1, <3>2 DEF OnUncaughtException
      <4>2. failed' \in BOOLEAN
        BY <4>1
      <4> QED
        BY <4>1, <4>2, ExitTypes
    <3> QED
      BY <3>1, <3>2
  <2> QED
    BY <2>1, <2>2 DEF loop, tickVars, workVars, ScriptPc, IInv, TypeOK
<1>8. CASE ThrowInJob
  BY <1>8, ConstantsAssumption DEF ThrowInJob, loop, tickVars, workVars, exitVars, IInv,
       TypeOK
<1>9. CASE ThrowInHandler
  <2>1. Exit(1, Tail(js)) /\ 1 \in Nat
    BY <1>9 DEF ThrowInHandler
  <2>2. /\ env' \in {"kInitializing", "kRunningMain", "kRunningLoop", "kExiting"}
        /\ exiting' \in BOOLEAN /\ exitCode' \in Nat /\ left' \in Nat /\ exits' \in Nat
    BY <2>1, ExitTypes
  <2> QED
    BY <1>9, <2>2 DEF ThrowInHandler, loop, tickVars, workVars, IInv, TypeOK
<1>10. CASE ThrowInListener
  <2>1. /\ env' \in {env, "kExiting"} /\ exitCode' \in {1, 2}
        /\ UNCHANGED <<pc, loop, tickVars, workVars, exiting, left, exits, handler, crashed,
                       failed>>
    BY <1>10 DEF ThrowInListener, DoExit
  <2> QED
    BY <2>1 DEF loop, tickVars, workVars, IInv, TypeOK
<1>11. CASE CallListener
  BY <1>11, ConstantsAssumption DEF CallListener, loop, tickVars, workVars, IInv, TypeOK
<1>12. CASE EmitDone
  BY <1>12, ConstantsAssumption DEF EmitDone, loop, tickVars, workVars, exitVars, IInv,
       TypeOK
<1>13. CASE FinallyDoExit
  BY <1>13, ConstantsAssumption DEF FinallyDoExit, loop, tickVars, workVars, DoExit, IInv,
       TypeOK
<1>14. CASE RunTick
  BY <1>14, ConstantsAssumption DEF RunTick, loop, workVars, exitVars, IInv, TypeOK
<1>15. CASE StartMain
  BY <1>15, ConstantsAssumption DEF StartMain, loop, tickVars, workVars, exitVars, IInv,
       TypeOK, ScriptPc
<1>16. CASE MainEnded
  BY <1>16, ConstantsAssumption DEF MainEnded, loop, workVars, exitVars, BeginTicks, IInv,
       TypeOK, TicksPc
<1>17. CASE MainThrew
  BY <1>17, ConstantsAssumption DEF MainThrew, loop, tickVars, workVars, exitVars,
       LeaveMain, IInv, TypeOK
<1>18. CASE MainTicksDone
  BY <1>18, ConstantsAssumption DEF MainTicksDone, loop, tickVars, workVars, exitVars,
       BeginTicks, LeaveMain, IInv, TypeOK
<1>19. CASE PollEvent
  BY <1>19, ConstantsAssumption DEF PollEvent, tickVars, exitVars, IInv, TypeOK, ScriptPc
<1>20. CASE PollSkip
  BY <1>20, ConstantsAssumption DEF PollSkip, loop, tickVars, exitVars, IInv, TypeOK
<1>21. CASE CallbackEnded
  <2>1. /\ pc' \in {"callbackTicks", "poll"}
        /\ batch' \in {batch, queue} /\ queue' \in {queue, <<>>}
        /\ UNCHANGED <<scheduled, ran, env, loop, workVars, exitVars, handler, crashed>>
    BY <1>21 DEF CallbackEnded, BeginTicks, tickVars
  <2>2. batch' \in Seq(Nat) /\ queue' \in Seq(Nat)
    <3>1. batch \in Seq(Nat) /\ queue \in Seq(Nat) /\ <<>> \in Seq(Nat)
      BY EmptySeq DEF IInv, TypeOK
    <3> QED
      BY <3>1, <2>1, Zenon
  <2> QED
    BY <2>1, <2>2 DEF loop, workVars, exitVars, TicksPc, IInv, TypeOK
<1>22. CASE CallbackTicksDone
  BY <1>22, ConstantsAssumption DEF CallbackTicksDone, loop, tickVars, workVars, exitVars,
       IInv, TypeOK
<1>23. CASE PollReturn
  <2>1. /\ pc' \in {"loopTicks", "jobs"} /\ more' = (work > 0)
        /\ batch' \in {batch, queue} /\ queue' \in {queue, <<>>}
        /\ UNCHANGED <<scheduled, ran, env, polled, workVars, exitVars, handler, crashed>>
    BY <1>23 DEF PollReturn, BeginTicks, tickVars
  <2>2. batch' \in Seq(Nat) /\ queue' \in Seq(Nat)
    <3>1. batch \in Seq(Nat) /\ queue \in Seq(Nat) /\ <<>> \in Seq(Nat)
      BY EmptySeq DEF IInv, TypeOK
    <3> QED
      BY <3>1, <2>1, Zenon
  <2>3. more' \in BOOLEAN
    <3>1. (work > 0) \in BOOLEAN
      OBVIOUS
    <3> QED
      BY <3>1, <2>1, Zenon
  <2> QED
    BY <2>1, <2>2, <2>3 DEF workVars, exitVars, TicksPc, IInv, TypeOK
<1>24. CASE LoopTicksDone
  BY <1>24, ConstantsAssumption DEF LoopTicksDone, tickVars, workVars, exitVars,
       StillMore, IInv, TypeOK
<1>25. CASE RunJob
  BY <1>25, ConstantsAssumption DEF RunJob, loop, tickVars, exitVars, IInv, TypeOK
<1>26. CASE IterationDone
  BY <1>26, ConstantsAssumption DEF IterationDone, tickVars, workVars, exitVars, IInv,
       TypeOK
<1>27. CASE LoopEnd
  <2>1. /\ pc' \in {"exitEvent", "cleanup"} /\ exiting' \in {TRUE, exiting}
        /\ left' \in {Listeners, left} /\ exits' \in {exits, exits + 1}
        /\ UNCHANGED <<env, loop, tickVars, workVars, exitCode, handler, crashed, failed>>
    BY <1>27 DEF LoopEnd, EmitExit
  <2>2. exiting' \in BOOLEAN
    BY <2>1, Zenon DEF IInv, TypeOK
  <2>3. left' \in Nat /\ exits' \in Nat
    BY <2>1, ConstantsAssumption DEF IInv, TypeOK
  <2> QED
    BY <2>1, <2>2, <2>3 DEF loop, tickVars, workVars, IInv, TypeOK
<1>28. CASE GoStateExiting
  BY <1>28, ConstantsAssumption DEF GoStateExiting, loop, tickVars, workVars, exitVars,
       IInv, TypeOK
<1>29. CASE Cleanup
  BY <1>29, ConstantsAssumption DEF Cleanup, loop, tickVars, exitVars, IInv, TypeOK
<1>30. CASE Abort
  BY <1>30, ConstantsAssumption DEF Abort, loop, IInv, TypeOK
<1>31. CASE Done
  BY <1>31, ConstantsAssumption DEF Done, loop, tickVars, workVars, exitVars, vars, IInv,
       TypeOK
<1> QED
  BY <1>1, <1>2, <1>3, <1>4, <1>5, <1>6, <1>7, <1>8, <1>9, <1>10, <1>11, <1>12, <1>13,
     <1>14, <1>15, <1>16, <1>17, <1>18, <1>19, <1>20, <1>21, <1>22, <1>23, <1>24, <1>25,
     <1>26, <1>27, <1>28, <1>29, <1>30, <1>31 DEF Next, User, Script, Runtime

\* The branches left, over a step.
LEMMA GraceStep ==
    ASSUME IInv, Next
    PROVE  GraceInv'
<1>1. CASE NextTick
  BY <1>1 DEF NextTick, IInv, GraceInv, Exiting
<1>2. CASE StartWork
  BY <1>2 DEF StartWork, IInv, GraceInv, Exiting
<1>3. CASE EnqueueJob
  BY <1>3 DEF EnqueueJob, IInv, GraceInv, Exiting
<1>4. CASE SetExitCode
  BY <1>4 DEF SetExitCode, IInv, GraceInv, ExitInv
<1>5. CASE CallExit
  BY <1>5 DEF CallExit, Exit, DoExit, IInv, GraceInv, Exiting
<1>6. CASE Return
  BY <1>6 DEF Return, IInv, GraceInv, Exiting
<1>7. CASE ThrowInScript
  BY <1>7 DEF ThrowInScript, OnUncaughtException, Exit, DoExit, Branch, SpendBranch,
       CountCallback, IInv, GraceInv, Exiting
<1>8. CASE ThrowInJob
  BY <1>8 DEF ThrowInJob, IInv, GraceInv, Exiting
<1>9. CASE ThrowInHandler
  BY <1>9 DEF ThrowInHandler, IInv, GraceInv
<1>10. CASE ThrowInListener
  BY <1>10 DEF ThrowInListener, Branch, SpendBranch, IInv, GraceInv, Exiting
<1>11. CASE CallListener
  BY <1>11 DEF CallListener, Branch, SpendBranch, CountCallback, IInv, GraceInv, Exiting
<1>12. CASE EmitDone
  BY <1>12 DEF EmitDone, Branch, SpendBranch, IInv, GraceInv
<1>13. CASE FinallyDoExit
  BY <1>13 DEF FinallyDoExit, DoExit, IInv, GraceInv, Exiting
<1>14. CASE RunTick
  BY <1>14 DEF RunTick, Branch, SpendBranch, CountCallback, IInv, GraceInv, Exiting
<1>15. CASE StartMain
  BY <1>15 DEF StartMain, IInv, GraceInv, ExitInv
<1>16. CASE MainEnded
  BY <1>16 DEF MainEnded, IInv, GraceInv, Exiting
<1>17. CASE MainThrew
  BY <1>17 DEF MainThrew, LeaveMain, IInv, GraceInv, Exiting
<1>18. CASE MainTicksDone
  BY <1>18 DEF MainTicksDone, Branch, SpendBranch, IInv, GraceInv
<1>19. CASE PollEvent
  BY <1>19 DEF PollEvent, IInv, GraceInv
<1>20. CASE PollSkip
  BY <1>20 DEF PollSkip, IInv, GraceInv, Exiting
<1>21. CASE CallbackEnded
  BY <1>21 DEF CallbackEnded, IInv, GraceInv, Exiting
<1>22. CASE CallbackTicksDone
  BY <1>22 DEF CallbackTicksDone, Branch, SpendBranch, IInv, GraceInv
<1>23. CASE PollReturn
  BY <1>23 DEF PollReturn, IInv, GraceInv, Exiting
<1>24. CASE LoopTicksDone
  BY <1>24 DEF LoopTicksDone, Branch, SpendBranch, IInv, GraceInv
<1>25. CASE RunJob
  BY <1>25 DEF RunJob, IInv, GraceInv, Exiting
<1>26. CASE IterationDone
  BY <1>26 DEF IterationDone, IInv, GraceInv, Exiting
<1>27. CASE LoopEnd
  BY <1>27 DEF LoopEnd, IInv, GraceInv, Exiting
<1>28. CASE GoStateExiting
  BY <1>28 DEF GoStateExiting, IInv, GraceInv, Exiting
<1>29. CASE Cleanup
  BY <1>29 DEF Cleanup, IInv, GraceInv, Exiting
<1>30. CASE Abort
  BY <1>30 DEF Abort, IInv, GraceInv, Exiting
<1>31. CASE Done
  BY <1>31 DEF Done, vars, IInv, GraceInv, Exiting
<1> QED
  BY <1>1, <1>2, <1>3, <1>4, <1>5, <1>6, <1>7, <1>8, <1>9, <1>10, <1>11, <1>12, <1>13,
     <1>14, <1>15, <1>16, <1>17, <1>18, <1>19, <1>20, <1>21, <1>22, <1>23, <1>24, <1>25,
     <1>26, <1>27, <1>28, <1>29, <1>30, <1>31 DEF Next, User, Script, Runtime

\* The exit, over a step.
LEMMA ExitStep ==
    ASSUME IInv, Next
    PROVE  ExitInv'
<1>1. CASE NextTick
  BY <1>1 DEF NextTick, exitVars, IInv, ExitInv, Exiting
<1>2. CASE StartWork
  BY <1>2 DEF StartWork, exitVars, IInv, ExitInv, Exiting
<1>3. CASE EnqueueJob
  BY <1>3 DEF EnqueueJob, exitVars, IInv, ExitInv, Exiting
<1>4. CASE SetExitCode
  BY <1>4 DEF SetExitCode, IInv, ExitInv, Exiting
<1>5. CASE CallExit
  BY <1>5 DEF CallExit, InUserCode, Exit, DoExit, EmitExit, IInv, ExitInv, StackInv,
       QuietPc
<1>6. CASE Return
  BY <1>6 DEF Return, exitVars, IInv, ExitInv, Exiting
<1>7. CASE ThrowInScript
  BY <1>7 DEF ThrowInScript, exitVars, OnUncaughtException, Exit, DoExit, EmitExit, IInv,
       TypeOK, ExitInv, StackInv, QuietPc, Exiting
<1>8. CASE ThrowInJob
  BY <1>8 DEF ThrowInJob, exitVars, IInv, ExitInv, Exiting
<1>9. CASE ThrowInHandler
  BY <1>9 DEF ThrowInHandler, Exit, DoExit, EmitExit, IInv, ExitInv, StackInv, QuietPc
<1>10. CASE ThrowInListener
  BY <1>10 DEF ThrowInListener, DoExit, IInv, ExitInv, StackInv, Plain, QuietPc, Exiting,
       ScriptPc, TicksPc
<1>11. CASE CallListener
  BY <1>11 DEF CallListener, IInv, ExitInv, Exiting
<1>12. CASE EmitDone
  BY <1>12 DEF EmitDone, exitVars, IInv, ExitInv, StackInv, Plain, QuietPc
<1>13. CASE FinallyDoExit
  <2>1. exiting /\ pc \notin QuietPc
    BY <1>13, TailFacts DEF FinallyDoExit, IInv, StackInv, Plain
  <2> QED
    BY <1>13, <2>1 DEF FinallyDoExit, DoExit, IInv, ExitInv, QuietPc
<1>14. CASE RunTick
  BY <1>14 DEF RunTick, exitVars, IInv, ExitInv, Exiting
<1>15. CASE StartMain
  BY <1>15 DEF StartMain, exitVars, IInv, ExitInv, Exiting
<1>16. CASE MainEnded
  BY <1>16 DEF MainEnded, exitVars, IInv, ExitInv, Exiting
<1>17. CASE MainThrew
  BY <1>17 DEF MainThrew, exitVars, LeaveMain, IInv, ExitInv, Exiting
<1>18. CASE MainTicksDone
  BY <1>18 DEF MainTicksDone, exitVars, LeaveMain, IInv, ExitInv, Exiting
<1>19. CASE PollEvent
  BY <1>19 DEF PollEvent, exitVars, IInv, ExitInv, Exiting
<1>20. CASE PollSkip
  BY <1>20 DEF PollSkip, exitVars, IInv, ExitInv
<1>21. CASE CallbackEnded
  BY <1>21 DEF CallbackEnded, exitVars, IInv, ExitInv, Exiting
<1>22. CASE CallbackTicksDone
  BY <1>22 DEF CallbackTicksDone, exitVars, IInv, ExitInv, Exiting
<1>23. CASE PollReturn
  BY <1>23 DEF PollReturn, exitVars, IInv, ExitInv, Exiting
<1>24. CASE LoopTicksDone
  BY <1>24 DEF LoopTicksDone, exitVars, IInv, ExitInv, Exiting
<1>25. CASE RunJob
  BY <1>25 DEF RunJob, exitVars, IInv, ExitInv, Exiting
<1>26. CASE IterationDone
  BY <1>26 DEF IterationDone, exitVars, IInv, ExitInv, Exiting
<1>27. CASE LoopEnd
  BY <1>27 DEF LoopEnd, EmitExit, IInv, ExitInv, StackInv, HasFinally, QuietPc, Exiting
<1>28. CASE GoStateExiting
  BY <1>28 DEF GoStateExiting, exitVars, IInv, ExitInv, StackInv, Exiting
<1>29. CASE Cleanup
  BY <1>29 DEF Cleanup, exitVars, IInv, ExitInv, Exiting
<1>30. CASE Abort
  BY <1>30 DEF Abort, IInv, ExitInv, Exiting
<1>31. CASE Done
  BY <1>31 DEF Done, exitVars, vars, IInv, ExitInv, Exiting
<1> QED
  BY <1>1, <1>2, <1>3, <1>4, <1>5, <1>6, <1>7, <1>8, <1>9, <1>10, <1>11, <1>12, <1>13,
     <1>14, <1>15, <1>16, <1>17, <1>18, <1>19, <1>20, <1>21, <1>22, <1>23, <1>24, <1>25,
     <1>26, <1>27, <1>28, <1>29, <1>30, <1>31 DEF Next, User, Script, Runtime

-----------------------------------------------------------------------------
(***************************************************************************)
(* The numbers of the ticks to come: r + 1 to n.                           *)
(***************************************************************************)
Ticks(r, n) == [i \in 1 .. n - r |-> r + i]

LEMMA TicksFacts ==
    ASSUME NEW r \in Nat, NEW n \in Nat, r <= n
    PROVE  /\ Ticks(r, n) \in Seq(Nat) /\ Len(Ticks(r, n)) = n - r
           /\ \A i \in 1 .. n - r : Ticks(r, n)[i] = r + i
<1>1. n - r \in Nat /\ \A i \in 1 .. n - r : r + i \in Nat
  OBVIOUS
<1> QED
  BY <1>1, IsASeq DEF Ticks

LEMMA ConcatAppend ==
    ASSUME NEW S, NEW b \in Seq(S), NEW q \in Seq(S), NEW x \in S
    PROVE  b \o Append(q, x) = Append(b \o q, x)
<1> DEFINE w == <<x>>
<1>1. w \in Seq(S)
  OBVIOUS
<1>2. b \o q \in Seq(S)
  BY ConcatProperties
<1>3. Append(q, x) = q \o w /\ Append(b \o q, x) = (b \o q) \o w
  BY <1>2, AppendIsConcat
<1> HIDE DEF w
<1>4. (b \o q) \o w = b \o (q \o w)
  BY <1>1, ConcatAssociative
<1> QED
  BY <1>3, <1>4

LEMMA ConcatAppendNat ==
    \A b \in Seq(Nat), q \in Seq(Nat), x \in Nat : b \o Append(q, x) = Append(b \o q, x)
<1> TAKE b \in Seq(Nat), q \in Seq(Nat), x \in Nat
<1> DEFINE S == Nat
<1>1. b \in Seq(S) /\ q \in Seq(S) /\ x \in S
  OBVIOUS
<1> HIDE DEF S
<1> QED
  BY <1>1, ConcatAppend

\* One more is scheduled.
LEMMA TicksAppend ==
    ASSUME NEW b \in Seq(Nat), NEW q \in Seq(Nat), NEW r \in Nat, NEW n \in Nat, r <= n,
           b \o q = Ticks(r, n)
    PROVE  b \o Append(q, n + 1) = Ticks(r, n + 1)
<1>1. b \o Append(q, n + 1) = Append(b \o q, n + 1)
  <2> DEFINE x == n + 1
  <2>1. x \in Nat
    OBVIOUS
  <2> HIDE DEF x
  <2>2. b \o Append(q, x) = Append(b \o q, x)
    BY <2>1, ConcatAppendNat, Zenon
  <2> QED
    BY <2>2 DEF x
<1> DEFINE t == Ticks(r, n)
           u == Ticks(r, n + 1)
<1>2. t \in Seq(Nat) /\ Len(t) = n - r /\ \A i \in 1 .. n - r : t[i] = r + i
  BY TicksFacts
<1>3. u \in Seq(Nat) /\ Len(u) = n + 1 - r /\ \A i \in 1 .. n + 1 - r : u[i] = r + i
  <2> DEFINE x == n + 1
  <2>1. x \in Nat /\ r <= x
    OBVIOUS
  <2> HIDE DEF x
  <2>2. /\ Ticks(r, x) \in Seq(Nat) /\ Len(Ticks(r, x)) = x - r
        /\ \A i \in 1 .. x - r : Ticks(r, x)[i] = r + i
    BY <2>1, TicksFacts
  <2> QED
    BY <2>2 DEF x
<1> HIDE DEF t, u
<1>4. /\ Append(t, n + 1) \in Seq(Nat) /\ Len(Append(t, n + 1)) = Len(t) + 1
      /\ Append(t, n + 1)[Len(t) + 1] = n + 1
      /\ \A i \in 1 .. Len(t) : Append(t, n + 1)[i] = t[i]
  <2> DEFINE x == n + 1
  <2>1. t \in Seq(Nat) /\ x \in Nat
    BY <1>2
  <2> HIDE DEF x
  <2>2. /\ Append(t, x) \in Seq(Nat) /\ Len(Append(t, x)) = Len(t) + 1
        /\ Append(t, x)[Len(t) + 1] = x
        /\ \A i \in 1 .. Len(t) : Append(t, x)[i] = t[i]
    BY <2>1, AppendProperties
  <2> QED
    BY <2>2 DEF x
<1>5. \A i \in 1 .. n + 1 - r : i = n - r + 1 \/ i \in 1 .. n - r
  OBVIOUS
<1>6. \A i \in 1 .. n + 1 - r : Append(t, n + 1)[i] = u[i]
  BY <1>2, <1>3, <1>4, <1>5
<1>7. Len(Append(t, n + 1)) = Len(u) /\ Len(u) = n + 1 - r
  BY <1>2, <1>3, <1>4
<1>8. Append(t, n + 1) = u
  BY <1>3, <1>4, <1>6, <1>7, SeqEqual
<1> QED
  BY <1>1, <1>8 DEF t, u

\* The first one is run.
LEMMA TicksTail ==
    ASSUME NEW b \in Seq(Nat), b # <<>>, NEW q \in Seq(Nat), NEW r \in Nat, NEW n \in Nat,
           r <= n, b \o q = Ticks(r, n)
    PROVE  /\ Head(b) = r + 1 /\ r + 1 <= n
           /\ Tail(b) \in Seq(Nat)
           /\ Tail(b) \o q = Ticks(r + 1, n)
<1> DEFINE t == Ticks(r, n)
           u == Ticks(r + 1, n)
           v == Tail(b)
<1>1. t \in Seq(Nat) /\ Len(t) = n - r /\ \A i \in 1 .. n - r : t[i] = r + i
  BY TicksFacts
<1>2. /\ Len(b) \in Nat /\ Len(b) >= 1 /\ Head(b) = b[1]
      /\ v \in Seq(Nat) /\ Len(v) = Len(b) - 1
      /\ \A i \in 1 .. Len(b) - 1 : v[i] = b[i + 1]
  BY TailFacts
<1>3. Len(q) \in Nat
  OBVIOUS
<1> HIDE DEF t, u, v
<1>4. /\ Len(t) = Len(b) + Len(q)
      /\ \A i \in 1 .. Len(b) + Len(q) : t[i] = IF i <= Len(b) THEN b[i] ELSE q[i - Len(b)]
  BY ConcatProperties DEF t
<1>5. Head(b) = r + 1 /\ r + 1 <= n
  BY <1>1, <1>2, <1>3, <1>4
<1>6. u \in Seq(Nat) /\ Len(u) = n - (r + 1) /\ \A i \in 1 .. n - (r + 1) : u[i] = r + 1 + i
  BY <1>5, TicksFacts DEF u
<1>7. /\ v \o q \in Seq(Nat) /\ Len(v \o q) = Len(v) + Len(q)
      /\ \A i \in 1 .. Len(v) + Len(q) :
            (v \o q)[i] = IF i <= Len(v) THEN v[i] ELSE q[i - Len(v)]
  BY <1>2, ConcatProperties
<1>8. Len(v \o q) = Len(u)
  BY <1>1, <1>2, <1>3, <1>4, <1>6, <1>7
<1>9. ASSUME NEW i \in 1 .. Len(v \o q)
      PROVE  (v \o q)[i] = u[i]
  <2>1. i + 1 \in 1 .. Len(b) + Len(q) /\ i \in 1 .. Len(v) + Len(q) /\ i \in 1 .. n - (r + 1)
        /\ i + 1 \in 1 .. n - r
    BY <1>1, <1>2, <1>3, <1>4, <1>6, <1>7, <1>8
  <2>2. u[i] = t[i + 1]
    BY <2>1, <1>1, <1>6
  <2>3. CASE i <= Len(v)
    <3>1. i \in 1 .. Len(b) - 1 /\ i + 1 <= Len(b)
      BY <2>1, <2>3, <1>2
    <3> QED
      BY <3>1, <2>1, <2>2, <2>3, <1>2, <1>4, <1>7
  <2>4. CASE ~(i <= Len(v))
    <3>1. ~(i + 1 <= Len(b)) /\ i + 1 - Len(b) = i - Len(v)
      BY <2>1, <2>4, <1>2
    <3>2. (v \o q)[i] = q[i - Len(v)]
      BY <2>1, <2>4, <1>7
    <3>3. t[i + 1] = q[i + 1 - Len(b)]
      BY <3>1, <2>1, <1>4
    <3> QED
      BY <3>1, <3>2, <3>3, <2>2
  <2> QED
    BY <2>3, <2>4
<1>10. v \o q = u
  BY <1>6, <1>7, <1>8, <1>9, SeqEqual
<1> QED
  BY <1>2, <1>5, <1>10 DEF u, v

\* _onNextTick takes the queue as its batch.
LEMMA TicksBegin ==
    ASSUME IInv, batch = <<>>, BeginTicks
    PROVE  /\ batch' \o queue' = batch \o queue
           /\ batch' \in Seq(Nat) /\ queue' \in Seq(Nat)
           /\ UNCHANGED <<ran, scheduled>>
<1>1. queue \in Seq(Nat)
  BY DEF IInv, TypeOK
<1>2. queue \o <<>> = queue /\ <<>> \o queue = queue
  BY <1>1, ConcatEmptySeq
<1> QED
  BY <1>1, <1>2 DEF BeginTicks

\* The ticks, over a step.
LEMMA TickStep ==
    ASSUME IInv, Next
    PROVE  TickInv'
<1>1. CASE NextTick
  <2>1. /\ batch \in Seq(Nat) /\ queue \in Seq(Nat) /\ ran \in Nat /\ scheduled \in Nat
        /\ ~Exiting => ran <= scheduled
    BY DEF IInv, TypeOK, TickInv
  <2>2. /\ scheduled' = scheduled + 1 /\ queue' = Append(queue, scheduled + 1)
        /\ UNCHANGED <<batch, ran, pc, env>>
    BY <1>1 DEF NextTick
  <2>3. ASSUME ~Exiting
        PROVE  batch' \o queue' = Ticks(ran', scheduled')
    <3>1. batch \o queue = Ticks(ran, scheduled)
      BY <2>3 DEF IInv, TickInv, TicksInOrder, Ticks
    <3>2. batch \o Append(queue, scheduled + 1) = Ticks(ran, scheduled + 1)
      BY <3>1, <2>1, <2>3, TicksAppend
    <3> QED
      BY <3>2, <2>2
  <2>4. TicksInOrder'
    BY <2>2, <2>3 DEF TicksInOrder, Ticks, Exiting
  <2> QED
    BY <2>1, <2>2, <2>4 DEF IInv, TickInv, Exiting
<1>2. CASE StartWork
  BY <1>2 DEF StartWork, tickVars, IInv, TickInv, TicksInOrder, Exiting
<1>3. CASE EnqueueJob
  BY <1>3 DEF EnqueueJob, tickVars, IInv, TickInv, TicksInOrder, Exiting
<1>4. CASE SetExitCode
  BY <1>4 DEF SetExitCode, tickVars, IInv, TickInv, TicksInOrder, ExitInv
<1>5. CASE CallExit
  BY <1>5 DEF CallExit, tickVars, Exit, DoExit, IInv, TickInv, TicksInOrder, Exiting
<1>6. CASE Return
  BY <1>6 DEF Return, tickVars, IInv, TickInv, TicksInOrder, Exiting
<1>7. CASE ThrowInScript
  BY <1>7 DEF ThrowInScript, tickVars, OnUncaughtException, Exit, DoExit, IInv, TickInv,
       TicksInOrder, Exiting, TicksPc
<1>8. CASE ThrowInJob
  BY <1>8 DEF ThrowInJob, tickVars, IInv, TickInv, TicksInOrder, Exiting
<1>9. CASE ThrowInHandler
  BY <1>9 DEF ThrowInHandler, tickVars, IInv, TickInv, TicksInOrder
<1>10. CASE ThrowInListener
  BY <1>10 DEF ThrowInListener, tickVars, DoExit, IInv, TickInv, TicksInOrder, Exiting
<1>11. CASE CallListener
  BY <1>11 DEF CallListener, tickVars, IInv, TickInv, TicksInOrder, Exiting
<1>12. CASE EmitDone
  BY <1>12 DEF EmitDone, tickVars, IInv, TickInv, TicksInOrder, Exiting
<1>13. CASE FinallyDoExit
  BY <1>13 DEF FinallyDoExit, tickVars, DoExit, IInv, TickInv, TicksInOrder, Exiting
<1>14. CASE RunTick
  <2>1. /\ batch \in Seq(Nat) /\ queue \in Seq(Nat) /\ ran \in Nat /\ scheduled \in Nat
        /\ ~Exiting => ran <= scheduled
    BY DEF IInv, TypeOK, TickInv
  <2>2. /\ batch # <<>> /\ ran' = Head(batch) /\ batch' = Tail(batch) /\ pc \in TicksPc
        /\ UNCHANGED <<queue, scheduled, pc, env>>
    BY <1>14 DEF RunTick
  <2>3. CASE ~Exiting
    <3>1. batch \o queue = Ticks(ran, scheduled)
      BY <2>3 DEF IInv, TickInv, TicksInOrder, Ticks
    <3>0. ran <= scheduled /\ batch # <<>>
      BY <2>1, <2>2, <2>3
    <3>2. /\ Head(batch) = ran + 1 /\ ran + 1 <= scheduled
          /\ Tail(batch) \in Seq(Nat)
          /\ Tail(batch) \o queue = Ticks(ran + 1, scheduled)
      BY <3>0, <3>1, <2>1, TicksTail, Zenon
    <3> QED
      BY <3>2, <2>2 DEF TickInv, TicksInOrder, Ticks
  <2>4. CASE Exiting
    BY <2>2, <2>4 DEF TickInv, TicksInOrder, Exiting
  <2> QED
    BY <2>3, <2>4
<1>15. CASE StartMain
  BY <1>15 DEF StartMain, tickVars, IInv, TickInv, TicksInOrder, ExitInv, TicksPc
<1>16. CASE MainEnded
  BY <1>16 DEF MainEnded, BeginTicks, IInv, TypeOK, TickInv, TicksInOrder, Exiting,
       TicksPc
<1>17. CASE MainThrew
  BY <1>17 DEF MainThrew, tickVars, LeaveMain, IInv, TickInv, TicksInOrder, Exiting,
       TicksPc
<1>18. CASE MainTicksDone
  <2>1. batch = <<>> /\ (~Exiting => ran <= scheduled) /\ TicksInOrder
    BY <1>18 DEF MainTicksDone, IInv, TickInv
  <2>2. CASE queue # <<>>
    <3>1. /\ batch' \o queue' = batch \o queue /\ UNCHANGED <<ran, scheduled, env>>
          /\ pc' \in TicksPc
      BY <1>18, <2>1, <2>2, TicksBegin DEF MainTicksDone, TicksPc
    <3> QED
      BY <3>1, <2>1 DEF TickInv, TicksInOrder, Exiting
  <2>3. CASE queue = <<>>
    BY <1>18, <2>1, <2>3 DEF MainTicksDone, LeaveMain, tickVars, TickInv, TicksInOrder,
         Exiting
  <2> QED
    BY <2>2, <2>3
<1>19. CASE PollEvent
  BY <1>19 DEF PollEvent, tickVars, IInv, TickInv, TicksInOrder, TicksPc
<1>20. CASE PollSkip
  BY <1>20 DEF PollSkip, tickVars, IInv, TickInv, TicksInOrder, Exiting
<1>21. CASE CallbackEnded
  <2>1. batch = <<>> /\ (~Exiting => ran <= scheduled) /\ TicksInOrder
    BY <1>21 DEF CallbackEnded, TicksPc, IInv, TickInv
  <2>2. CASE ~Exiting
    <3>1. /\ batch' \o queue' = batch \o queue /\ UNCHANGED <<ran, scheduled, env>>
          /\ pc' \in TicksPc
      BY <1>21, <2>1, <2>2, TicksBegin DEF CallbackEnded, TicksPc
    <3> QED
      BY <3>1, <2>1 DEF TickInv, TicksInOrder, Exiting
  <2>3. CASE Exiting
    BY <1>21, <2>1, <2>3 DEF CallbackEnded, tickVars, TickInv, TicksInOrder, Exiting
  <2> QED
    BY <2>2, <2>3
<1>22. CASE CallbackTicksDone
  BY <1>22 DEF CallbackTicksDone, tickVars, IInv, TickInv, TicksInOrder, Exiting
<1>23. CASE PollReturn
  <2>1. batch = <<>> /\ (~Exiting => ran <= scheduled) /\ TicksInOrder
    BY <1>23 DEF PollReturn, TicksPc, IInv, TickInv
  <2>2. CASE ~Exiting
    <3>1. /\ batch' \o queue' = batch \o queue /\ UNCHANGED <<ran, scheduled, env>>
          /\ pc' \in TicksPc
      BY <1>23, <2>1, <2>2, TicksBegin DEF PollReturn, TicksPc
    <3> QED
      BY <3>1, <2>1 DEF TickInv, TicksInOrder, Exiting
  <2>3. CASE Exiting
    BY <1>23, <2>1, <2>3 DEF PollReturn, tickVars, TickInv, TicksInOrder, Exiting
  <2> QED
    BY <2>2, <2>3
<1>24. CASE LoopTicksDone
  BY <1>24 DEF LoopTicksDone, tickVars, IInv, TickInv, TicksInOrder, Exiting
<1>25. CASE RunJob
  BY <1>25 DEF RunJob, tickVars, IInv, TickInv, TicksInOrder, Exiting
<1>26. CASE IterationDone
  BY <1>26 DEF IterationDone, tickVars, IInv, TickInv, TicksInOrder, Exiting, TicksPc
<1>27. CASE LoopEnd
  BY <1>27 DEF LoopEnd, tickVars, IInv, TickInv, TicksInOrder, Exiting, TicksPc
<1>28. CASE GoStateExiting
  BY <1>28 DEF GoStateExiting, tickVars, IInv, TickInv, TicksInOrder, Exiting, TicksPc
<1>29. CASE Cleanup
  BY <1>29 DEF Cleanup, tickVars, IInv, TickInv, TicksInOrder, Exiting, TicksPc
<1>30. CASE Abort
  BY <1>30 DEF Abort, TickInv, TicksInOrder, Exiting
<1>31. CASE Done
  BY <1>31 DEF Done, tickVars, vars, IInv, TickInv, TicksInOrder, Exiting
<1> QED
  BY <1>1, <1>2, <1>3, <1>4, <1>5, <1>6, <1>7, <1>8, <1>9, <1>10, <1>11, <1>12, <1>13,
     <1>14, <1>15, <1>16, <1>17, <1>18, <1>19, <1>20, <1>21, <1>22, <1>23, <1>24, <1>25,
     <1>26, <1>27, <1>28, <1>29, <1>30, <1>31 DEF Next, User, Script, Runtime

\* The work, over a step.
LEMMA WorkStep ==
    ASSUME IInv, Next
    PROVE  WorkInv'
<1>1. CASE NextTick
  BY <1>1 DEF NextTick, workVars, InUserCode, IInv, WorkInv, EndsUnlessJobs,
       EndsWithoutWork, StackInv, QuietPc
<1>2. CASE StartWork
  BY <1>2 DEF StartWork, InUserCode, IInv, WorkInv, EndsUnlessJobs, EndsWithoutWork,
       StackInv, QuietPc
<1>3. CASE EnqueueJob
  BY <1>3 DEF EnqueueJob, IInv, TypeOK, WorkInv, EndsUnlessJobs, EndsWithoutWork,
       ScriptPc, TicksPc
<1>4. CASE SetExitCode
  BY <1>4 DEF SetExitCode, workVars, InUserCode, IInv, WorkInv, EndsUnlessJobs,
       EndsWithoutWork, StackInv, QuietPc
<1>5. CASE CallExit
  BY <1>5 DEF CallExit, workVars, InUserCode, IInv, WorkInv, EndsUnlessJobs,
       EndsWithoutWork, StackInv, QuietPc
<1>6. CASE Return
  BY <1>6 DEF Return, workVars, InUserCode, IInv, WorkInv, EndsUnlessJobs,
       EndsWithoutWork, StackInv, QuietPc
<1>7. CASE ThrowInScript
  BY <1>7 DEF ThrowInScript, tickVars, workVars, ScriptPc, IInv, WorkInv, EndsUnlessJobs,
       EndsWithoutWork
<1>8. CASE ThrowInJob
  BY <1>8 DEF ThrowInJob, workVars, IInv, WorkInv, EndsUnlessJobs
<1>9. CASE ThrowInHandler
  BY <1>9 DEF ThrowInHandler, tickVars, workVars, IInv, WorkInv, EndsUnlessJobs,
       EndsWithoutWork
<1>10. CASE ThrowInListener
  BY <1>10 DEF ThrowInListener, workVars, IInv, WorkInv, EndsUnlessJobs, EndsWithoutWork,
       StackInv, QuietPc
<1>11. CASE CallListener
  BY <1>11 DEF CallListener, workVars, IInv, WorkInv, EndsUnlessJobs, EndsWithoutWork,
       StackInv, QuietPc
<1>12. CASE EmitDone
  BY <1>12 DEF EmitDone, workVars, IInv, WorkInv, EndsUnlessJobs, EndsWithoutWork,
       StackInv, QuietPc
<1>13. CASE FinallyDoExit
  BY <1>13 DEF FinallyDoExit, workVars, IInv, WorkInv, EndsUnlessJobs, EndsWithoutWork,
       StackInv, QuietPc
<1>14. CASE RunTick
  BY <1>14 DEF RunTick, workVars, IInv, WorkInv, EndsUnlessJobs, EndsWithoutWork, TicksPc
<1>15. CASE StartMain
  BY <1>15 DEF StartMain, workVars, IInv, WorkInv, EndsUnlessJobs, EndsWithoutWork
<1>16. CASE MainEnded
  BY <1>16 DEF MainEnded, workVars, IInv, WorkInv, EndsUnlessJobs, EndsWithoutWork
<1>17. CASE MainThrew
  BY <1>17 DEF MainThrew, workVars, LeaveMain, IInv, WorkInv, EndsUnlessJobs,
       EndsWithoutWork
<1>18. CASE MainTicksDone
  BY <1>18 DEF MainTicksDone, workVars, LeaveMain, IInv, WorkInv, EndsUnlessJobs,
       EndsWithoutWork
<1>19. CASE PollEvent
  BY <1>19 DEF PollEvent, IInv, WorkInv, EndsUnlessJobs, EndsWithoutWork
<1>20. CASE PollSkip
  BY <1>20 DEF PollSkip, IInv, WorkInv, EndsUnlessJobs, EndsWithoutWork
<1>21. CASE CallbackEnded
  BY <1>21 DEF CallbackEnded, workVars, IInv, WorkInv, EndsUnlessJobs, EndsWithoutWork
<1>22. CASE CallbackTicksDone
  BY <1>22 DEF CallbackTicksDone, workVars, IInv, WorkInv, EndsUnlessJobs, EndsWithoutWork
<1>23. CASE PollReturn
  BY <1>23 DEF PollReturn, workVars, IInv, WorkInv, EndsUnlessJobs, EndsWithoutWork,
       StackInv, QuietPc, Exiting
<1>24. CASE LoopTicksDone
  <2>1. /\ pc' = "jobs" /\ js = <<>> /\ more' = (more \/ queue # <<>> \/ work > 0)
        /\ UNCHANGED <<env, js, queue, work, jobs, started>>
    BY <1>24 DEF LoopTicksDone, StillMore, tickVars, workVars
  <2>2. work = 0 \/ work > 0
    BY DEF IInv, TypeOK
  <2>3. more' \/ (work = 0 /\ queue = <<>>)
    BY <2>1, <2>2, Zenon
  <2> QED
    BY <2>1, <2>3 DEF IInv, WorkInv, EndsUnlessJobs, EndsWithoutWork
<1>25. CASE RunJob
  BY <1>25 DEF RunJob, IInv, TypeOK, WorkInv, EndsUnlessJobs
<1>26. CASE IterationDone
  BY <1>26 DEF IterationDone, tickVars, workVars, IInv, WorkInv, EndsUnlessJobs,
       EndsWithoutWork, Exiting
<1>27. CASE LoopEnd
  BY <1>27 DEF LoopEnd, workVars, IInv, WorkInv, EndsUnlessJobs, EndsWithoutWork
<1>28. CASE GoStateExiting
  BY <1>28 DEF GoStateExiting, workVars, IInv, WorkInv, EndsUnlessJobs, EndsWithoutWork
<1>29. CASE Cleanup
  BY <1>29 DEF Cleanup, IInv, WorkInv, EndsUnlessJobs, EndsWithoutWork
<1>30. CASE Abort
  BY <1>30 DEF Abort, IInv, TypeOK, WorkInv, EndsUnlessJobs, EndsWithoutWork, Exiting
<1>31. CASE Done
  BY <1>31 DEF Done, workVars, vars, IInv, WorkInv, EndsUnlessJobs, EndsWithoutWork
<1> QED
  BY <1>1, <1>2, <1>3, <1>4, <1>5, <1>6, <1>7, <1>8, <1>9, <1>10, <1>11, <1>12, <1>13,
     <1>14, <1>15, <1>16, <1>17, <1>18, <1>19, <1>20, <1>21, <1>22, <1>23, <1>24, <1>25,
     <1>26, <1>27, <1>28, <1>29, <1>30, <1>31 DEF Next, User, Script, Runtime

-----------------------------------------------------------------------------
(***************************************************************************)
(* The theorems.                                                           *)
(***************************************************************************)

\* The invariant holds of every reachable state.
THEOREM Invariance == Spec => []IInv
<1>1. Init => IInv
  <2> SUFFICES ASSUME Init
               PROVE  IInv
    OBVIOUS
  <2>1. TypeOK
    BY EmptySeq DEF Init, TypeOK
  <2>2. GraceInv
    BY DEF Init, GraceInv
  <2>3. StackInv
    BY DEF Init, StackInv, Stacked, Plain
  <2>4. ExitInv
    BY DEF Init, ExitInv, Exiting
  <2>5. TickInv
    <3>1. <<>> \o <<>> = [i \in 1 .. 0 - 0 |-> 0 + i]
      BY EmptySeq, ConcatEmptySeq
    <3> QED
      BY <3>1 DEF Init, TickInv, TicksInOrder
  <2>6. WorkInv
    BY DEF Init, WorkInv, EndsUnlessJobs, EndsWithoutWork
  <2> QED
    BY <2>1, <2>2, <2>3, <2>4, <2>5, <2>6 DEF IInv
<1>2. IInv /\ [Next]_vars => IInv'
  <2> SUFFICES ASSUME IInv, [Next]_vars
               PROVE  IInv'
    OBVIOUS
  <2>1. CASE Next
    <3>1. js' \in Seq(Frames) /\ StackInv'
      BY <2>1, StackStep
    <3> QED
      BY <3>1, <2>1, TypeStep, GraceStep, ExitStep, TickStep, WorkStep DEF IInv
  <2>2. CASE UNCHANGED vars
    <3>1. IInv' = IInv
      BY <2>2 DEF vars, loop, tickVars, workVars, exitVars, IInv, TypeOK, GraceInv,
           StackInv, ExitInv, TickInv, TicksInOrder, WorkInv, EndsUnlessJobs,
           EndsWithoutWork, Exiting
    <3> QED
      BY <3>1
  <2> QED
    BY <2>1, <2>2
<1> QED
  BY <1>1, <1>2, PTL DEF Spec

\* Exit is final: 'exit' is emitted once and before kExiting is reached (iotjs.js:146-166),
\* the abort at the second backward branch lets at most one more piece of user code
\* start, and a process that failed ends with a nonzero code.
THEOREM ExitFinal == Spec => []ExitIsFinal
<1>1. IInv => ExitIsFinal
  BY DEF IInv, ExitIsFinal, ExitEmittedOnce, AtMostOneAfterExit, FailureReported, ExitInv,
       GraceInv
<1> QED
  BY <1>1, Invariance, PTL

\* Until the process exits, ticks run once each in the order of the nextTick() calls, over
\* the three places that run them: _onNextTick (iotjs.js) takes the whole queue as its
\* batch only when the previous batch is through.
THEOREM TicksRunInOrder == Spec => []TicksInOrder
<1>1. IInv => TicksInOrder
  BY DEF IInv, TickInv
<1> QED
  BY <1>1, Invariance, PTL

\* As long as no promise job is enqueued, the loop of iotjs_start ends by itself only
\* when there is neither work nor a tick: more (iotjs.c) says so after the ticks ran.
THEOREM LoopEndsWithoutWork == Spec => []EndsUnlessJobs
<1>1. IInv => EndsUnlessJobs
  BY DEF IInv, WorkInv
<1> QED
  BY <1>1, Invariance, PTL

=============================================================================
