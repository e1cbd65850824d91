---------------------------- MODULE EventEmitter ----------------------------
(***************************************************************************)
(* The listeners of one event of an EventEmitter (js/events.js).           *)
(*                                                                         *)
(* emit() works on a copy of the list, and a listener may register and     *)
(* remove listeners, emit the event again, or throw.  stack holds the      *)
(* active emit() calls, the innermost first, each with its copy and the    *)
(* position of the listener that runs.                                     *)
(***************************************************************************)
EXTENDS Integers, Sequences, SequencesExt

CONSTANTS
    Function,    \* the functions users register
    MaxRegs,     \* bound: registrations
    MaxDepth     \* bound: nested emit() calls

ASSUME ConstantsAssumption ==
    /\ MaxRegs \in Nat
    /\ MaxDepth \in Nat

VARIABLES
    list,      \* this._events[type]; <<>> when there is no such property
    stack,     \* the active emit() calls, innermost first
    regs,      \* registrations so far
    onces,     \* history: the registrations made by once()
    calls,     \* history: calls of each registration's function, up to 2
    skipped    \* history: an emit() returned without having called all its listeners

vars == <<list, stack, regs, onces, calls, skipped>>

Ids(es) == {es[i].id : i \in DOMAIN es}

Init ==
    /\ list = <<>>
    /\ stack = <<>>
    /\ regs = 0
    /\ onces = {}
    /\ calls = [id \in 1 .. MaxRegs |-> 0]
    /\ skipped = FALSE

-----------------------------------------------------------------------------
\* addListener(type, fn) and once(type, fn).
Register(fn, once) ==
    /\ regs < MaxRegs
    /\ regs' = regs + 1
    /\ onces' = IF once THEN onces \union {regs + 1} ELSE onces
    /\ list' = Append(list, [id |-> regs + 1, fn |-> fn, once |-> once])
    /\ UNCHANGED <<stack, calls, skipped>>

\* The list without the last entry of those registrations, if it has one.
RemoveLast(es, ids) ==
    LET i == SelectLastInSeq(es, LAMBDA e : e.id \in ids)
    IN  IF i = 0 THEN es ELSE RemoveAt(es, i)

\* removeListener(type, fn), which finds what once() wrapped by the user's function.
RemoveListener(fn) ==
    /\ list' = RemoveLast(list, {list[i].id : i \in {j \in DOMAIN list : list[j].fn = fn}})
    /\ UNCHANGED <<stack, regs, onces, calls, skipped>>

\* removeAllListeners(), and removeAllListeners(type).
RemoveAllListeners ==
    /\ list' = <<>>
    /\ UNCHANGED <<stack, regs, onces, calls, skipped>>

\* Mutant of RemoveWrapper: the wrapper of once() stays registered.
RemoveWrapperNot(e) == list

\* What the wrapper made by once() does to the list before it calls the function.
RemoveWrapper(e) == IF e.once THEN RemoveLast(list, {e.id}) ELSE list

\* emit() calls the listener e: list, calls.
CallListener(e) ==
    /\ list' = RemoveWrapper(e)
    /\ calls' = [calls EXCEPT ![e.id] = IF @ < 2 THEN @ + 1 ELSE @]

\* Mutant of ListenersOf: emit() goes through the list itself.
ListenersOfLive(frame) == list

\* The listeners an emit() call goes through: its copy of the list.
ListenersOf(frame) == frame.copy

\* emit(type) with listeners: the first is called.
Emit ==
    /\ list # <<>>
    /\ Len(stack) < MaxDepth
    /\ stack' = <<[copy |-> list, i |-> 1, called |-> {list[1].id}]>> \o stack
    /\ CallListener(list[1])
    /\ UNCHANGED <<regs, onces, skipped>>

\* The listener returns and emit() calls the next one.
CallNext ==
    /\ stack # <<>>
    /\ LET frame == Head(stack)
           next == frame.i + 1
       IN  /\ next <= Len(ListenersOf(frame))
           /\ LET e == ListenersOf(frame)[next]
              IN  /\ CallListener(e)
                  /\ stack' = [stack EXCEPT ![1] =
                                  [frame EXCEPT !.i = next, !.called = @ \union {e.id}]]
    /\ UNCHANGED <<regs, onces, skipped>>

\* The last listener returns, and so does emit().
EmitReturns ==
    /\ stack # <<>>
    /\ LET frame == Head(stack)
       IN  /\ frame.i >= Len(ListenersOf(frame))
           /\ skipped' = (skipped \/ frame.called # Ids(frame.copy))
    /\ stack' = Tail(stack)
    /\ UNCHANGED <<list, regs, onces, calls>>

\* A listener throws, or emits an 'error' that has no listener.  The exception ends the
\* emit() calls up to the listener that catches it, if one does.
ListenerThrows ==
    /\ stack # <<>>
    /\ \E n \in 1 .. Len(stack) : stack' = SubSeq(stack, n + 1, Len(stack))
    /\ UNCHANGED <<list, regs, onces, calls, skipped>>

-----------------------------------------------------------------------------
User ==
    \/ \E fn \in Function :
          \/ \E once \in BOOLEAN : Register(fn, once)
          \/ RemoveListener(fn)
    \/ RemoveAllListeners
    \/ Emit

Next == User \/ CallNext \/ EmitReturns \/ ListenerThrows

Spec == Init /\ [][Next]_vars

-----------------------------------------------------------------------------
\* Every emit() that is not ended by an exception calls each listener that was registered
\* when it began, whatever its listeners do to the list; those called so far are the
\* first of its copy.
EachCalled ==
    /\ ~skipped
    /\ \A k \in DOMAIN stack :
          /\ stack[k].i <= Len(stack[k].copy)
          /\ stack[k].called = {stack[k].copy[j].id : j \in 1 .. stack[k].i}

\* Listeners are kept, and so called, in the order of their registration.
InOrder ==
    /\ \A i, j \in DOMAIN list : i < j => list[i].id < list[j].id
    /\ \A k \in DOMAIN stack : \A i, j \in DOMAIN stack[k].copy :
          i < j => stack[k].copy[i].id < stack[k].copy[j].id

\* What once() registered is gone by the time it is called: also when it throws or when
\* an inner emit() called it, no later emission finds it.
OnceIsRemoved ==
    \A i \in DOMAIN list : list[i].once => calls[list[i].id] = 0

\* The documented promise of once(): the listener is called at most once.
OnceAtMostOnce == \A id \in onces : calls[id] <= 1

\* An emission (events.js:27-53) calls exactly the listeners that were registered when it
\* began, in the order of their registration, whatever those listeners do to the list.
CalledInOrder == EachCalled /\ InOrder

=============================================================================
