------------------------- MODULE EventEmitterProofs -------------------------
(***************************************************************************)
(* Proofs about EventEmitter: an emission calls exactly the listeners that *)
(* were registered when it began, in the order of their registration, and  *)
(* what once() registered is gone by the time it is called, whatever the   *)
(* listeners do meanwhile.  And about the emitter with the longest chain   *)
(* of listeners, NetSocket: a socket that closes is done with its handle,  *)
(* its timer, its chunks and its server.                                   *)
(***************************************************************************)
EXTENDS EventEmitter, NetSocket, SequenceTheorems, WellFoundedInduction, TLAPS

\* An element of this._events[type], and an active emit() call.
Entry == [id : 1 .. MaxRegs, fn : Function, once : BOOLEAN]
Frame == [copy : Seq(Entry), i : Nat, called : SUBSET (1 .. MaxRegs)]

TypeOK ==
    /\ list \in Seq(Entry)
    /\ stack \in Seq(Frame)
    /\ regs \in 0 .. MaxRegs
    /\ onces \in SUBSET (1 .. regs)
    /\ calls \in [1 .. MaxRegs -> 0 .. 2]
    /\ skipped \in BOOLEAN

\* A list and a copy of one hold registrations made so far, the oldest first, and carry
\* the flag of their registration.
Increasing(es) == \A i, j \in DOMAIN es : i < j => es[i].id < es[j].id
Registered(es, n, o) ==
    \A i \in DOMAIN es : es[i].id <= n /\ (es[i].once <=> es[i].id \in o)
Good(es, n, o) == Increasing(es) /\ Registered(es, n, o)

\* An emit() call has called the first listeners of its copy.
CalledFirst(f) ==
    /\ f.i <= Len(f.copy)
    /\ f.called = {f.copy[j].id : j \in 1 .. f.i}

\* A registration that has not been made has not been called.
NotCalledYet == \A id \in 1 .. MaxRegs : id > regs => calls[id] = 0

\* The inductive invariant.
IInv ==
    /\ TypeOK
    /\ Good(list, regs, onces)
    /\ \A k \in DOMAIN stack : Good(stack[k].copy, regs, onces) /\ CalledFirst(stack[k])
    /\ NotCalledYet
    /\ OnceIsRemoved
    /\ ~skipped

-----------------------------------------------------------------------------
(***************************************************************************)
(* The list without its last entry of some registrations.                  *)
(***************************************************************************)

\* A nonempty set of naturals has a least element.
LEMMA MinExists ==
    ASSUME NEW S \in SUBSET Nat, S # {}
    PROVE  \E x \in S : \A y \in S : x <= y
<1> DEFINE R == {ss \in Nat \X Nat : ss[1] < ss[2]}
<1>1. IsWellFoundedOn(R, Nat)
  BY NatLessThanWellFounded, Zenon DEF OpToRel
<1> HIDE DEF R
<1>2. PICK x \in S : \A y \in S : ~(<<y, x>> \in R)
  BY <1>1, WFMin, Zenon
<1>3. \A y \in S : ~(y < x)
  BY <1>2 DEF R
<1> QED
  BY <1>3

\* A nonempty set of positions has a greatest one.
LEMMA MaxExists ==
    ASSUME NEW n \in Nat, NEW I \in SUBSET (1 .. n), I # {}
    PROVE  Max(I) \in I
<1> DEFINE D == {n - i : i \in I}
<1>0. \A i \in I : i \in Int /\ 1 <= i /\ i <= n
  OBVIOUS
<1>1. D \in SUBSET Nat /\ D # {}
  <2>1. \A i \in I : n - i \in Nat
    BY <1>0
  <2>2. PICK i \in I : TRUE
    OBVIOUS
  <2>3. n - i \in D
    BY <2>2
  <2>4. D \in SUBSET Nat
    BY <2>1
  <2> QED
    BY <2>3, <2>4
<1>2. PICK d \in D : \A y \in D : d <= y
  BY <1>1, MinExists, Zenon
<1>3. PICK m \in I : d = n - m
  OBVIOUS
<1>4. \A y \in I : m >= y
  <2> TAKE y \in I
  <2>1. d <= n - y
    BY <1>2
  <2> QED
    BY <2>1, <1>0, <1>3
<1> QED
  BY <1>4 DEF Max

\* What removing the element at a position leaves.
LEMMA RemoveAtFact ==
    ASSUME NEW S, NEW es \in Seq(S), NEW i \in 1 .. Len(es)
    PROVE  /\ RemoveAt(es, i) \in Seq(S)
           /\ Len(RemoveAt(es, i)) = Len(es) - 1
           /\ \A k \in 1 .. Len(es) - 1 :
                 RemoveAt(es, i)[k] = IF k < i THEN es[k] ELSE es[k + 1]
<1> DEFINE a == SubSeq(es, 1, i - 1)
           b == SubSeq(es, i + 1, Len(es))
<1>0. Len(es) \in Nat /\ i \in Nat /\ 1 <= i /\ i <= Len(es)
  OBVIOUS
<1>1. a \in Seq(S) /\ Len(a) = i - 1 /\ \A k \in 1 .. i - 1 : a[k] = es[k]
  OBVIOUS
<1>2. b \in Seq(S) /\ Len(b) = Len(es) - i /\ \A k \in 1 .. Len(es) - i : b[k] = es[i + k]
  OBVIOUS
<1>3. RemoveAt(es, i) = a \o b
  BY DEF RemoveAt
<1> HIDE DEF a, b
<1>c. /\ a \o b \in Seq(S)
       /\ Len(a \o b) = Len(a) + Len(b)
       /\ \A k \in 1 .. Len(a) + Len(b) :
             (a \o b)[k] = IF k <= Len(a) THEN a[k] ELSE b[k - Len(a)]
  BY <1>1, <1>2, ConcatProperties
<1>4. a \o b \in Seq(S) /\ Len(a \o b) = Len(es) - 1
  BY <1>0, <1>1, <1>2, <1>c
<1>5. ASSUME NEW k \in 1 .. Len(es) - 1
      PROVE  (a \o b)[k] = IF k < i THEN es[k] ELSE es[k + 1]
  <2>1. CASE k < i
    BY <2>1, <1>1, <1>2
  <2>2. CASE ~(k < i)
    <3>1. k \in 1 .. Len(a) + Len(b) /\ ~(k <= Len(a)) /\ k - Len(a) \in 1 .. Len(es) - i
      BY <2>2, <1>0, <1>1, <1>2
    <3>2. (a \o b)[k] = b[k - Len(a)]
      BY <3>1, <1>c
    <3>3. b[k - Len(a)] = es[i + (k - Len(a))]
      BY <3>1, <1>2
    <3>4. i + (k - Len(a)) = k + 1
      BY <1>0, <1>1
    <3> QED
      BY <2>2, <3>2, <3>3, <3>4
  <2> QED
    BY <2>1, <2>2
<1> QED
  BY <1>3, <1>4, <1>5

\* RemoveLast keeps a good list good and adds nothing to it ...
LEMMA RemoveLastFact ==
    ASSUME NEW es \in Seq(Entry), NEW ids, NEW n, NEW o, Good(es, n, o)
    PROVE  /\ RemoveLast(es, ids) \in Seq(Entry)
           /\ Good(RemoveLast(es, ids), n, o)
           /\ \A k \in DOMAIN RemoveLast(es, ids) :
                 \E j \in DOMAIN es : RemoveLast(es, ids)[k] = es[j]
<1> DEFINE I == {i \in 1 .. Len(es) : es[i].id \in ids}
           m == IF I # {} THEN Max(I) ELSE 0
<1>1. RemoveLast(es, ids) = IF m = 0 THEN es ELSE RemoveAt(es, m)
  BY DEF RemoveLast, SelectLastInSeq
<1>2. m \in 0 .. Len(es)
  <2>1. Len(es) \in Nat /\ I \in SUBSET (1 .. Len(es))
    OBVIOUS
  <2> HIDE DEF I
  <2>2. I # {} => Max(I) \in I
    BY <2>1, MaxExists
  <2>3. CASE I = {}
    BY <2>1, <2>3
  <2>4. CASE I # {}
    <3>1. m \in I
      BY <2>2, <2>4
    <3>2. \A i \in I : i \in 0 .. Len(es)
      BY <2>1
    <3> QED
      BY <3>1, <3>2
  <2> QED
    BY <2>3, <2>4
<1> HIDE DEF m
<1>3. CASE m = 0
  BY <1>1, <1>3
<1>4. CASE m # 0
  <2> DEFINE r == RemoveAt(es, m)
  <2>1. m \in 1 .. Len(es)
    BY <1>2, <1>4
  <2>2. /\ r \in Seq(Entry)
        /\ Len(r) = Len(es) - 1
        /\ \A k \in 1 .. Len(es) - 1 : r[k] = IF k < m THEN es[k] ELSE es[k + 1]
    BY <2>1, RemoveAtFact
  <2> HIDE DEF r
  <2>3. \A k \in DOMAIN r : \E j \in DOMAIN es : r[k] = es[j]
    BY <2>1, <2>2
  <2>4. Increasing(r)
    <3> SUFFICES ASSUME NEW i \in DOMAIN r, NEW j \in DOMAIN r, i < j
                 PROVE  r[i].id < r[j].id
      BY DEF Increasing
    <3>1. i \in 1 .. Len(es) - 1 /\ j \in 1 .. Len(es) - 1 /\ Len(es) \in Nat
      BY <2>2
    <3>2. PICK p \in 1 .. Len(es) : p = (IF i < m THEN i ELSE i + 1)
      BY <3>1
    <3>3. PICK q \in 1 .. Len(es) : q = (IF j < m THEN j ELSE j + 1)
      BY <3>1
    <3>4. p < q
      BY <2>1, <3>1, <3>2, <3>3
    <3>5. es[p].id < es[q].id
      BY <3>4 DEF Good, Increasing
    <3>6. r[i] = es[p] /\ r[j] = es[q]
      BY <2>2, <3>1, <3>2, <3>3
    <3> QED
      BY <3>5, <3>6
  <2>5. Registered(r, n, o)
    BY <2>3 DEF Good, Registered
  <2> QED
    BY <1>1, <1>4, <2>2, <2>3, <2>4, <2>5 DEF r, Good
<1> QED
  BY <1>3, <1>4

\* ... and, given one registration, removes it.
LEMMA RemoveLastRemoves ==
    ASSUME NEW es \in Seq(Entry), Increasing(es), NEW x,
           NEW k \in DOMAIN RemoveLast(es, {x})
    PROVE  RemoveLast(es, {x})[k].id # x
<1> DEFINE I == {i \in 1 .. Len(es) : es[i].id \in {x}}
           m == IF I # {} THEN Max(I) ELSE 0
<1>1. RemoveLast(es, {x}) = IF m = 0 THEN es ELSE RemoveAt(es, m)
  BY DEF RemoveLast, SelectLastInSeq
<1>2. CASE I = {}
  BY <1>1, <1>2
<1>3. CASE I # {}
  <2>1. m \in I
    <3>1. Len(es) \in Nat /\ I \in SUBSET (1 .. Len(es))
      OBVIOUS
    <3> HIDE DEF I
    <3> QED
      BY <3>1, <1>3, MaxExists
  <2>2. m \in 1 .. Len(es) /\ es[m].id = x
    BY <2>1
  <2> HIDE DEF m
  <2> DEFINE r == RemoveAt(es, m)
  <2>3. /\ r \in Seq(Entry)
        /\ Len(r) = Len(es) - 1
        /\ \A j \in 1 .. Len(es) - 1 : r[j] = IF j < m THEN es[j] ELSE es[j + 1]
    BY <2>2, RemoveAtFact
  <2>4. RemoveLast(es, {x}) = r
    BY <1>1, <2>2
  <2> HIDE DEF r
  <2>5. k \in 1 .. Len(es) - 1
    BY <2>3, <2>4
  <2>6. \A i \in 1 .. Len(es) : es[i].id \in Int
    <3>1. \A i \in 1 .. Len(es) : es[i] \in Entry
      OBVIOUS
    <3>2. \A e \in Entry : e.id \in Int
      BY DEF Entry
    <3> QED
      BY <3>1, <3>2
  <2>7. CASE k < m
    <3>1. es[k].id < es[m].id
      BY <2>2, <2>5, <2>7 DEF Increasing
    <3>2. r[k] = es[k] /\ k \in 1 .. Len(es)
      BY <2>3, <2>5, <2>7
    <3> QED
      BY <3>1, <3>2, <2>2, <2>4, <2>6
  <2>8. CASE ~(k < m)
    <3>1. es[m].id < es[k + 1].id
      BY <2>2, <2>5, <2>8 DEF Increasing
    <3>2. r[k] = es[k + 1] /\ k + 1 \in 1 .. Len(es)
      BY <2>3, <2>5, <2>8
    <3> QED
      BY <3>1, <3>2, <2>2, <2>4, <2>6
  <2> QED
    BY <2>7, <2>8
<1> QED
  BY <1>2, <1>3

-----------------------------------------------------------------------------
(***************************************************************************)
(* The steps.                                                              *)
(***************************************************************************)

\* What the steps need to know of sequences.
LEMMA SeqFacts ==
    ASSUME NEW S, NEW es \in Seq(S)
    PROVE  /\ Len(es) \in Nat
           /\ DOMAIN es = 1 .. Len(es)
           /\ \A i \in DOMAIN es : es[i] \in S
           /\ es # <<>> => Len(es) >= 1 /\ Head(es) = es[1]
  OBVIOUS

LEMMA EntryFacts ==
    \A e \in Entry : e.id \in 1 .. MaxRegs /\ e.id \in Nat /\ e.once \in BOOLEAN
  BY ConstantsAssumption DEF Entry

\* A registration's entry is older than the one that is added.
LEMMA AppendGood ==
    ASSUME NEW es \in Seq(Entry), NEW n \in Nat, NEW o \in SUBSET (1 .. n), Good(es, n, o),
           NEW e \in Entry, e.id = n + 1,
           NEW o2, o2 = IF e.once THEN o \union {n + 1} ELSE o
    PROVE  /\ Append(es, e) \in Seq(Entry)
           /\ Good(Append(es, e), n + 1, o2)
<1>1. /\ Append(es, e) \in Seq(Entry)
      /\ Len(Append(es, e)) = Len(es) + 1
      /\ \A i \in 1 .. Len(es) : Append(es, e)[i] = es[i]
      /\ Append(es, e)[Len(es) + 1] = e
  OBVIOUS
<1> DEFINE t == Append(es, e)
<1>2. DOMAIN t = 1 .. Len(es) + 1 /\ Len(es) \in Nat
  BY <1>1
<1>3. \A i \in 1 .. Len(es) : es[i] \in Entry /\ es[i].id \in Nat /\ es[i].id <= n
  BY SeqFacts, EntryFacts DEF Good, Registered
<1> HIDE DEF t
<1>4. ASSUME NEW i \in DOMAIN t, NEW j \in DOMAIN t, i < j
      PROVE  t[i].id < t[j].id
  <2>1. i \in 1 .. Len(es) /\ t[i] = es[i]
    BY <1>1, <1>2, <1>4 DEF t
  <2>2. CASE j = Len(es) + 1
    BY <2>1, <2>2, <1>1, <1>3 DEF t
  <2>3. CASE j # Len(es) + 1
    <3>1. j \in 1 .. Len(es) /\ t[j] = es[j]
      BY <2>3, <1>1, <1>2 DEF t
    <3> QED
      BY <3>1, <2>1, <1>4 DEF Good, Increasing
  <2> QED
    BY <2>2, <2>3
<1>5. ASSUME NEW i \in DOMAIN t
      PROVE  t[i].id <= n + 1 /\ (t[i].once <=> t[i].id \in o2)
  <2>1. CASE i = Len(es) + 1
    <3>1. t[i] = e
      BY <2>1, <1>1 DEF t
    <3>2. n + 1 \notin o
      OBVIOUS
    <3>3. e.once \in BOOLEAN
      BY DEF Entry
    <3> QED
      BY <3>1, <3>2, <3>3
  <2>2. CASE i # Len(es) + 1
    <3>1. i \in 1 .. Len(es) /\ t[i] = es[i]
      BY <2>2, <1>1, <1>2 DEF t
    <3>2. es[i].id <= n /\ es[i].id # n + 1 /\ (es[i].once <=> es[i].id \in o)
      BY <3>1, <1>3 DEF Good, Registered
    <3> QED
      BY <3>1, <3>2, <1>3
  <2> QED
    BY <2>1, <2>2
<1> QED
  BY <1>1, <1>4, <1>5 DEF Good, Increasing, Registered, t

\* A list stays good when a registration is added elsewhere.
LEMMA GoodLater ==
    ASSUME NEW es \in Seq(Entry), NEW n \in Nat, NEW o \in SUBSET (1 .. n), Good(es, n, o),
           NEW o2, o2 \in {o, o \union {n + 1}}
    PROVE  Good(es, n + 1, o2)
<1>1. \A i \in DOMAIN es : es[i].id \in Nat /\ es[i].id <= n /\ (es[i].once <=> es[i].id \in o)
  BY SeqFacts, EntryFacts DEF Good, Registered
<1> QED
  BY <1>1 DEF Good, Registered

\* What removes entries of the list keeps the invariant.
LEMMA Removing ==
    ASSUME IInv, NEW ids, list' = RemoveLast(list, ids),
           UNCHANGED <<regs, onces, calls>>
    PROVE  list' \in Seq(Entry) /\ Good(list', regs, onces) /\ OnceIsRemoved'
<1>1. list \in Seq(Entry) /\ Good(list, regs, onces)
  BY DEF IInv, TypeOK
<1>2. /\ list' \in Seq(Entry) /\ Good(list', regs, onces)
      /\ \A k \in DOMAIN list' : \E j \in DOMAIN list : list'[k] = list[j]
  <2> DEFINE r == RemoveLast(list, ids)
  <2>1. /\ r \in Seq(Entry) /\ Good(r, regs, onces)
        /\ \A k \in DOMAIN r : \E j \in DOMAIN list : r[k] = list[j]
    BY <1>1, RemoveLastFact
  <2>2. list' = r
    OBVIOUS
  <2> HIDE DEF r
  <2> QED
    BY <2>1, <2>2
<1>3. OnceIsRemoved'
  BY <1>2 DEF IInv, OnceIsRemoved
<1> QED
  BY <1>2, <1>3

\* addListener() and once().
LEMMA RegisterStep ==
    ASSUME IInv, NEW fn \in Function, NEW once \in BOOLEAN, Register(fn, once)
    PROVE  IInv'
<1> DEFINE e == [id |-> regs + 1, fn |-> fn, once |-> once]
<1>1. regs \in Nat /\ regs + 1 \in 1 .. MaxRegs /\ regs' = regs + 1 /\ onces \in SUBSET (1 .. regs)
  BY ConstantsAssumption DEF IInv, TypeOK, Register
<1>2. e \in Entry /\ e.id = regs + 1 /\ e.once = once
  BY <1>1 DEF Entry
<1>3. list \in Seq(Entry) /\ Good(list, regs, onces)
  BY DEF IInv, TypeOK
<1>4. onces' = IF e.once THEN onces \union {regs + 1} ELSE onces
  BY DEF Register
<1>5. list' = Append(list, e)
  BY DEF Register
<1>6. UNCHANGED <<stack, calls, skipped>>
  BY DEF Register
<1> HIDE DEF e
<1>7. list' \in Seq(Entry) /\ Good(list', regs', onces')
  BY <1>1, <1>2, <1>3, <1>4, <1>5, AppendGood
<1>8. TypeOK'
  BY <1>1, <1>4, <1>6, <1>7 DEF IInv, TypeOK
<1>9. ASSUME NEW k \in DOMAIN stack
      PROVE  Good(stack[k].copy, regs', onces') /\ CalledFirst(stack[k])
  <2>1. stack[k] \in Frame
    BY SeqFacts DEF IInv, TypeOK
  <2>2. stack[k].copy \in Seq(Entry)
    BY <2>1 DEF Frame
  <2> QED
    BY <2>2, <1>1, <1>4, GoodLater DEF IInv
<1>10. NotCalledYet'
  BY <1>1, <1>6 DEF IInv, NotCalledYet
<1>11. OnceIsRemoved'
  <2> SUFFICES ASSUME NEW i \in DOMAIN list', list'[i].once
               PROVE  calls[list'[i].id] = 0
    BY <1>6 DEF OnceIsRemoved
  <2>1. CASE i = Len(list) + 1
    <3>1. list'[i] = e
      BY <2>1, <1>2, <1>3, <1>5
    <3>2. calls[regs + 1] = 0
      BY <1>1 DEF IInv, NotCalledYet
    <3> QED
      BY <3>1, <3>2, <1>2
  <2>2. CASE i # Len(list) + 1
    <3>1. i \in DOMAIN list /\ list'[i] = list[i]
      BY <2>2, <1>2, <1>3, <1>5
    <3> QED
      BY <3>1 DEF IInv, OnceIsRemoved
  <2> QED
    BY <2>1, <2>2
<1> QED
  BY <1>6, <1>7, <1>8, <1>9, <1>10, <1>11 DEF IInv

\* removeListener() and removeAllListeners().
LEMMA RemoveStep ==
    ASSUME IInv, NEW fn, RemoveListener(fn) \/ RemoveAllListeners
    PROVE  IInv'
<1>1. UNCHANGED <<stack, regs, onces, calls, skipped>>
  BY DEF RemoveListener, RemoveAllListeners
<1>2. list' \in Seq(Entry) /\ Good(list', regs, onces) /\ OnceIsRemoved'
  <2>1. CASE RemoveListener(fn)
    BY <1>1, <2>1, Removing DEF RemoveListener
  <2>2. CASE RemoveAllListeners
    <3>1. list' = <<>>
      BY <2>2 DEF RemoveAllListeners
    <3> QED
      BY <3>1 DEF Good, Increasing, Registered, OnceIsRemoved
  <2> QED
    BY <2>1, <2>2
<1> QED
  BY <1>1, <1>2 DEF IInv, TypeOK, NotCalledYet

\* emit() calls a listener: one that once() registered is no longer in the list.
LEMMA CallListenerStep ==
    ASSUME IInv, NEW e \in Entry, e.id <= regs, e.once <=> e.id \in onces,
           CallListener(e), UNCHANGED <<regs, onces>>
    PROVE  /\ list' \in Seq(Entry) /\ Good(list', regs, onces)
           /\ calls' \in [1 .. MaxRegs -> 0 .. 2]
           /\ NotCalledYet'
           /\ OnceIsRemoved'
<1>1. /\ list \in Seq(Entry) /\ Good(list, regs, onces)
      /\ calls \in [1 .. MaxRegs -> 0 .. 2]
      /\ regs \in 0 .. MaxRegs
  BY DEF IInv, TypeOK
<1>2. e.id \in 1 .. MaxRegs /\ e.id \in Nat /\ e.once \in BOOLEAN
  BY EntryFacts
<1>3. calls' = [calls EXCEPT ![e.id] = IF calls[e.id] < 2 THEN calls[e.id] + 1 ELSE calls[e.id]]
  BY DEF CallListener
<1>4. calls' \in [1 .. MaxRegs -> 0 .. 2]
  BY <1>1, <1>2, <1>3
<1>5. \A id \in 1 .. MaxRegs : id # e.id => calls'[id] = calls[id]
  BY <1>1, <1>2, <1>3
<1>6. NotCalledYet'
  BY <1>1, <1>2, <1>5 DEF IInv, NotCalledYet
<1>7. list' = IF e.once THEN RemoveLast(list, {e.id}) ELSE list
  BY DEF CallListener, RemoveWrapper
<1>8. CASE e.once
  <2> DEFINE r == RemoveLast(list, {e.id})
  <2>1. /\ r \in Seq(Entry) /\ Good(r, regs, onces)
        /\ \A k \in DOMAIN r : \E j \in DOMAIN list : r[k] = list[j]
    BY <1>1, RemoveLastFact
  <2>2. \A k \in DOMAIN r : r[k].id # e.id
    BY <1>1, RemoveLastRemoves DEF Good
  <2>3. list' = r
    BY <1>7, <1>8
  <2> HIDE DEF r
  <2>4. ASSUME NEW k \in DOMAIN r, r[k].once
        PROVE  calls'[r[k].id] = 0
    <3>1. PICK j \in DOMAIN list : r[k] = list[j]
      BY <2>1
    <3>2. calls[list[j].id] = 0
      BY <3>1, <2>4 DEF IInv, OnceIsRemoved
    <3>3. list[j].id \in 1 .. MaxRegs
      BY <1>1, SeqFacts, EntryFacts
    <3> QED
      BY <3>1, <3>2, <3>3, <2>2, <1>5
  <2> QED
    BY <2>1, <2>3, <2>4, <1>4, <1>6 DEF OnceIsRemoved
<1>9. CASE ~e.once
  <2>1. list' = list
    BY <1>7, <1>9
  <2>2. ASSUME NEW k \in DOMAIN list, list[k].once
        PROVE  calls'[list[k].id] = 0
    <3>1. list[k].id \in 1 .. MaxRegs
      BY <1>1, SeqFacts, EntryFacts
    <3>2. list[k].id # e.id
      BY <2>2, <1>1, <1>9 DEF Good, Registered
    <3> QED
      BY <3>1, <3>2, <2>2, <1>5 DEF IInv, OnceIsRemoved
  <2> QED
    BY <2>1, <2>2, <1>1, <1>4, <1>6 DEF OnceIsRemoved
<1> QED
  BY <1>8, <1>9

\* An emission begins.
LEMMA EmitStep ==
    ASSUME IInv, Emit
    PROVE  IInv'
<1> DEFINE e == list[1]
           f == [copy |-> list, i |-> 1, called |-> {e.id}]
<1>1. /\ list \in Seq(Entry) /\ Good(list, regs, onces) /\ list # <<>>
      /\ stack \in Seq(Frame)
      /\ stack' = <<f>> \o stack /\ CallListener(e) /\ UNCHANGED <<regs, onces, skipped>>
  BY DEF IInv, TypeOK, Emit
<1>2. 1 \in DOMAIN list /\ e \in Entry /\ Len(list) \in Nat /\ Len(list) >= 1
  BY <1>1, SeqFacts
<1>3. e.id <= regs /\ (e.once <=> e.id \in onces) /\ e.id \in 1 .. MaxRegs
  BY <1>1, <1>2, EntryFacts DEF Good, Registered
<1>4. /\ list' \in Seq(Entry) /\ Good(list', regs, onces)
      /\ calls' \in [1 .. MaxRegs -> 0 .. 2]
      /\ NotCalledYet'
      /\ OnceIsRemoved'
  BY <1>1, <1>2, <1>3, CallListenerStep
<1>5. f \in Frame
  BY <1>1, <1>3 DEF Frame
<1>6. CalledFirst(f)
  <2>1. {list[j].id : j \in 1 .. 1} = {e.id}
    OBVIOUS
  <2> QED
    BY <2>1, <1>2 DEF CalledFirst
<1>7. f.copy = list
  OBVIOUS
<1> HIDE DEF f
<1>8. stack' \in Seq(Frame) /\ Len(stack') = Len(stack) + 1
      /\ stack'[1] = f /\ \A k \in 2 .. Len(stack) + 1 : stack'[k] = stack[k - 1]
  BY <1>1, <1>5
<1>9. ASSUME NEW k \in DOMAIN stack'
      PROVE  Good(stack'[k].copy, regs, onces) /\ CalledFirst(stack'[k])
  <2>1. CASE k = 1
    BY <2>1, <1>1, <1>6, <1>7, <1>8
  <2>2. CASE k # 1
    <3>1. k \in 2 .. Len(stack) + 1 /\ k - 1 \in DOMAIN stack
      BY <2>2, <1>1, <1>8
    <3> QED
      BY <3>1, <1>8 DEF IInv
  <2> QED
    BY <2>1, <2>2
<1> QED
  BY <1>1, <1>4, <1>8, <1>9 DEF IInv, TypeOK

\* emit() goes on to the next listener of its copy.
LEMMA CallNextStep ==
    ASSUME IInv, CallNext
    PROVE  IInv'
<1> DEFINE f == Head(stack)
           n == f.i + 1
           e == f.copy[n]
           g == [f EXCEPT !.i = n, !.called = f.called \union {e.id}]
<1>1. /\ stack \in Seq(Frame) /\ stack # <<>> /\ n <= Len(f.copy)
      /\ stack' = [stack EXCEPT ![1] = g] /\ CallListener(e)
      /\ UNCHANGED <<regs, onces, skipped>>
  BY DEF IInv, TypeOK, CallNext, ListenersOf
<1>2. f = stack[1] /\ 1 \in DOMAIN stack /\ f \in Frame
  BY <1>1, SeqFacts
<1>3. Good(f.copy, regs, onces) /\ CalledFirst(f)
  BY <1>2 DEF IInv
<1> HIDE DEF f
<1>4. f.copy \in Seq(Entry) /\ f.i \in Nat /\ f.called \in SUBSET (1 .. MaxRegs)
  BY <1>2 DEF Frame
<1>5. n \in DOMAIN f.copy /\ e \in Entry
  BY <1>1, <1>4, SeqFacts
<1>6. e.id <= regs /\ (e.once <=> e.id \in onces) /\ e.id \in 1 .. MaxRegs
  BY <1>3, <1>5, EntryFacts DEF Good, Registered
<1>7. /\ list' \in Seq(Entry) /\ Good(list', regs, onces)
      /\ calls' \in [1 .. MaxRegs -> 0 .. 2]
      /\ NotCalledYet'
      /\ OnceIsRemoved'
  BY <1>1, <1>5, <1>6, CallListenerStep
<1>8. /\ g \in Frame /\ g.copy = f.copy /\ g.i = n
      /\ g.called = f.called \union {e.id}
  <2>1. n \in Nat /\ f.called \union {e.id} \in SUBSET (1 .. MaxRegs)
    BY <1>4, <1>6
  <2> HIDE DEF n, e
  <2> QED
    BY <2>1, <1>2 DEF Frame
<1> HIDE DEF g
<1>9. CalledFirst(g)
  <2>1. {f.copy[j].id : j \in 1 .. n} = {f.copy[j].id : j \in 1 .. f.i} \union {f.copy[n].id}
    BY <1>4
  <2>2. f.called = {f.copy[j].id : j \in 1 .. f.i}
    BY <1>3 DEF CalledFirst
  <2>3. g.called = {f.copy[j].id : j \in 1 .. n}
    BY <2>1, <2>2, <1>8
  <2> HIDE DEF n
  <2> QED
    BY <2>3, <1>1, <1>8 DEF CalledFirst
<1>10. stack' \in Seq(Frame) /\ DOMAIN stack' = DOMAIN stack
       /\ stack'[1] = g /\ \A k \in DOMAIN stack : k # 1 => stack'[k] = stack[k]
  BY <1>1, <1>2, <1>8
<1>11. ASSUME NEW k \in DOMAIN stack'
       PROVE  Good(stack'[k].copy, regs, onces) /\ CalledFirst(stack'[k])
  <2>1. CASE k = 1
    BY <2>1, <1>3, <1>8, <1>9, <1>10
  <2>2. CASE k # 1
    BY <2>2, <1>10 DEF IInv
  <2> QED
    BY <2>1, <2>2
<1> QED
  BY <1>1, <1>7, <1>10, <1>11 DEF IInv, TypeOK

\* emit() ends: it has called all it had to, or an exception ends it and those below.
LEMMA ReturnStep ==
    ASSUME IInv, EmitReturns \/ ListenerThrows
    PROVE  IInv'
<1>1. stack \in Seq(Frame) /\ stack # <<>> /\ UNCHANGED <<list, regs, onces, calls>>
  BY DEF IInv, TypeOK, EmitReturns, ListenerThrows
<1>2. PICK n \in 1 .. Len(stack) : stack' = SubSeq(stack, n + 1, Len(stack))
  <2>1. CASE EmitReturns
    <3>1. stack' = SubSeq(stack, 2, Len(stack))
      BY <2>1, <1>1 DEF EmitReturns
    <3> QED
      BY <3>1, <1>1
  <2>2. CASE ListenerThrows
    BY <2>2 DEF ListenerThrows
  <2> QED
    BY <2>1, <2>2
<1>3. /\ stack' \in Seq(Frame)
      /\ \A k \in DOMAIN stack' : \E j \in DOMAIN stack : stack'[k] = stack[j]
  BY <1>1, <1>2
<1>4. \A k \in DOMAIN stack' : Good(stack'[k].copy, regs, onces) /\ CalledFirst(stack'[k])
  BY <1>3 DEF IInv
<1>5. ~skipped'
  <2>1. CASE EmitReturns
    <3> DEFINE f == Head(stack)
    <3>1. f = stack[1] /\ 1 \in DOMAIN stack /\ f \in Frame
      BY <1>1, SeqFacts
    <3>2. CalledFirst(f)
      BY <3>1 DEF IInv
    <3>3. f.i >= Len(f.copy) /\ skipped' = (skipped \/ f.called # Ids(f.copy))
      BY <2>1 DEF EmitReturns, ListenersOf
    <3> HIDE DEF f
    <3>4. f.i \in Nat /\ f.copy \in Seq(Entry)
      BY <3>1 DEF Frame
    <3>5. f.i = Len(f.copy) /\ DOMAIN f.copy = 1 .. f.i
      BY <3>2, <3>3, <3>4 DEF CalledFirst
    <3>6. f.called = Ids(f.copy)
      BY <3>2, <3>5 DEF CalledFirst, Ids
    <3> QED
      BY <3>3, <3>6 DEF IInv
  <2>2. CASE ListenerThrows
    BY <2>2 DEF ListenerThrows, IInv
  <2> QED
    BY <2>1, <2>2
<1>6. skipped' \in BOOLEAN
  <2>1. CASE EmitReturns
    BY <2>1, Zenon DEF EmitReturns
  <2>2. CASE ListenerThrows
    BY <2>2 DEF ListenerThrows, IInv, TypeOK
  <2> QED
    BY <2>1, <2>2
<1> QED
  BY <1>1, <1>3, <1>4, <1>5, <1>6 DEF IInv, TypeOK, NotCalledYet, OnceIsRemoved

-----------------------------------------------------------------------------
(***************************************************************************)
(* The theorems.                                                           *)
(***************************************************************************)

\* The invariant holds of every reachable state.
THEOREM Invariance == Spec => []IInv
<1>1. Init => IInv
  <2> SUFFICES ASSUME Init
               PROVE  IInv
    OBVIOUS
  <2>1. TypeOK
    <3>1. calls \in [1 .. MaxRegs -> 0 .. 2]
      BY DEF Init
    <3>2. onces \in SUBSET (1 .. regs)
      BY DEF Init
    <3>3. list \in Seq(Entry) /\ stack \in Seq(Frame)
      <4>1. \A S : <<>> \in Seq(S)
        OBVIOUS
      <4> QED
        BY <4>1 DEF Init
    <3>4. regs \in 0 .. MaxRegs
      BY ConstantsAssumption DEF Init
    <3>5. skipped \in BOOLEAN
      BY DEF Init
    <3> QED
      BY <3>1, <3>2, <3>3, <3>4, <3>5 DEF TypeOK
  <2>2. Good(list, regs, onces)
    BY DEF Init, Good, Increasing, Registered
  <2> QED
    BY <2>1, <2>2 DEF Init, IInv, NotCalledYet, OnceIsRemoved
<1>2. IInv /\ [Next]_vars => IInv'
  <2> SUFFICES ASSUME IInv, [Next]_vars
               PROVE  IInv'
    OBVIOUS
  <2>1. CASE User
    BY <2>1, RegisterStep, RemoveStep, EmitStep DEF User
  <2>2. CASE CallNext
    BY <2>2, CallNextStep
  <2>3. CASE EmitReturns \/ ListenerThrows
    BY <2>3, ReturnStep
  <2>4. CASE UNCHANGED vars
    BY <2>4 DEF vars, IInv, TypeOK, NotCalledYet, OnceIsRemoved
  <2> QED
    BY <2>1, <2>2, <2>3, <2>4 DEF Next
<1> QED
  BY <1>1, <1>2, PTL DEF Spec

\* An emission calls exactly the listeners that were registered when it began, in the
\* order of their registration: emit() goes through its copy of the list
\* (events.js:42-47), so nothing the listeners do to the list is seen by it.
THEOREM EmissionIsExact == Spec => []CalledInOrder
<1>1. IInv => CalledInOrder
  BY DEF IInv, CalledInOrder, EachCalled, InOrder, Good, Increasing, CalledFirst
<1> QED
  BY <1>1, Invariance, PTL

\* What once() registered has left the list by the time it is called (events.js:82-87),
\* so no later emission finds it: the entries of a list are of different registrations,
\* and the wrapper removes its own.
THEOREM OnceLeavesTheList == Spec => []OnceIsRemoved
<1>1. IInv => OnceIsRemoved
  BY DEF IInv
<1> QED
  BY <1>1, Invariance, PTL

-----------------------------------------------------------------------------
(***************************************************************************)
(* NetSocket.  The invariant is about a socket k, the ticks b that are     *)
(* left of the batch and the history e, so that one lemma about a function *)
(* of net.js serves every action that calls it.  Base holds whatever the   *)
(* user does; Orderly holds until the user ends a socket before it is      *)
(* connected or writes after end().                                        *)
(***************************************************************************)

\* What may wait in the nextTick queue; the requests; a socket's fields.
TickNames == {"finish", "afterWrite", "readStart", "lookupError", "serverClose"}
NetRequests == {"lookup", "connect", "write", "shutdown"}
ServerRecord == [handle : {"none", "open", "failed"}, count : Int, told : BOOLEAN]
SocketRecord ==
  [allowHalfOpen : BOOLEAN, handle : {"none", "open", "closing", "closed"},
   connecting : BOOLEAN, connected : BOOLEAN, writable : BOOLEAN, readable : BOOLEAN,
   destroyed : BOOLEAN, errored : BOOLEAN, timer : BOOLEAN, ready : BOOLEAN, buffer : Nat,
   writing : BOOLEAN, ending : BOOLEAN, ended : BOOLEAN, onFinish : BOOLEAN,
   rbuffer : BOOLEAN, eof : BOOLEAN, endEmitted : BOOLEAN, reading : BOOLEAN,
   requests : SUBSET NetRequests, ticks : Seq(TickNames), owned : BOOLEAN,
   server : ServerRecord, thrown : BOOLEAN]
History ==
  [writes : Nat, reads : Nat, calls : Nat, serves : BOOLEAN, others : Nat, again : BOOLEAN,
   asked : BOOLEAN, answered : BOOLEAN, dropped : BOOLEAN, late : BOOLEAN, early : BOOLEAN,
   kill : BOOLEAN]

Waits(t, q) == \E i \in 1 .. Len(q) : q[i] = t
Pending(t, k, b) == Waits(t, k.ticks) \/ Waits(t, b)

\* The fields of a socket fit together.
Fits(k) ==
  /\ k.destroyed <=> k.handle \in {"closing", "closed"}
  /\ k.destroyed => k.ended /\ ~k.timer /\ ~k.reading
  /\ k.ended => k.ending
  /\ k.connected \/ "lookup" \in k.requests \/ "connect" \in k.requests => k.handle # "none"
  /\ k.reading \/ k.rbuffer \/ k.eof => k.connected
  /\ k.writing \/ k.ready => k.connected \/ k.errored
  /\ ~("lookup" \in k.requests /\ "connect" \in k.requests)
  /\ "write" \in k.requests => k.writing \/ k.errored

\* What waits for its tick.
TicksFit(k, b) ==
  /\ Pending("finish", k, b) => k.ending
  /\ Pending("afterWrite", k, b) => k.errored
  /\ Pending("lookupError", k, b) =>
       k.handle # "none" /\ "lookup" \notin k.requests /\ "connect" \notin k.requests
  /\ Pending("readStart", k, b) => k.connected

\* Nothing is left to write once 'finish' was emitted or is about to be.
Written(k, b, late) ==
  ~k.errored /\ ~late /\ (k.ended \/ Pending("finish", k, b)) => k.buffer = 0 /\ ~k.writing

\* The server.
Served(k, b, e) ==
  /\ k.server.count = e.others + (IF k.owned THEN 1 ELSE 0)
  /\ k.owned <=> e.serves /\ ~k.destroyed
  /\ k.server.told \/ Pending("serverClose", k, b)
       => e.again \/ (k.server.count = 0 /\ k.server.handle = "none")

\* The ticks that run before the loop goes on.
Now(k, b, p) == IF p = "ticks" THEN b ELSE k.ticks

\* No 'finish' runs before the tick that starts to read.
StartsFirst(q) == \A i, j \in 1 .. Len(q) : q[i] = "finish" /\ q[j] = "readStart" => j < i

\* What holds as long as the user has neither ended the socket before it was connected nor
\* written after end().
Orderly(k, b, p) ==
  /\ "lookup" \in k.requests => ~k.ending /\ ~k.connected /\ ~k.errored
  /\ "connect" \in k.requests =>
       /\ ~k.connected /\ ~k.errored
       /\ \/ ~k.ending \/ k.destroyed
          \/ ~k.ended /\ k.buffer > 0
          \/ ~k.ended /\ p # "idle" /\ k.onFinish /\ Waits("finish", Now(k, b, p))
  /\ Pending("readStart", k, b) => ~k.ended /\ ~k.errored /\ IsOpen(k)
  /\ StartsFirst(k.ticks) /\ StartsFirst(b)
  /\ ~k.thrown

\* What holds whatever the user does.
Base(k, b, e) ==
  k \in SocketRecord /\ Fits(k) /\ TicksFit(k, b) /\ Written(k, b, e.late) /\ Served(k, b, e)

Sound(k, b, p, e) == Base(k, b, e) /\ (e.early \/ e.late \/ Orderly(k, b, p))

NetInv ==
  /\ env \in History /\ batch \in Seq(TickNames)
  /\ phase \in {"callback", "timeout", "ticks", "idle"}
  /\ phase # "ticks" => batch = <<>>
  /\ Waits("readStart", s.ticks) => phase = "callback"
  /\ s.handle = "none" <=> ~env.asked
  /\ s.handle = "none" /\ ~env.early => ~s.ending /\ ~s.errored
  /\ Sound(s, batch, phase, env)

-----------------------------------------------------------------------------
(* The queue of the ticks.                                                 *)

LEMMA Appended ==
    ASSUME NEW q \in Seq(TickNames), NEW t \in TickNames
    PROVE  /\ Append(q, t) \in Seq(TickNames)
           /\ \A u : Waits(u, Append(q, t)) <=> Waits(u, q) \/ u = t
           /\ StartsFirst(q) /\ (t # "readStart" \/ ~Waits("finish", q))
                => StartsFirst(Append(q, t))
<1> PICK r : r = Append(q, t)
  OBVIOUS
<1>1. /\ r \in Seq(TickNames) /\ Len(q) \in Nat /\ Len(r) = Len(q) + 1 /\ r[Len(q) + 1] = t
      /\ \A i \in 1 .. Len(q) : r[i] = q[i]
  BY AppendProperties
<1>2. \A i \in 1 .. Len(r) : i \in 1 .. Len(q) \/ i = Len(q) + 1
  BY <1>1
<1>3. Len(q) + 1 \in 1 .. Len(r) /\ \A i \in 1 .. Len(q) : i \in 1 .. Len(r) /\ i < Len(q) + 1
  BY <1>1
<1>4. \A u : Waits(u, r) <=> Waits(u, q) \/ u = t
  BY <1>1, <1>2, <1>3 DEF Waits
<1>5. ASSUME StartsFirst(q), t # "readStart" \/ ~Waits("finish", q)
      PROVE  StartsFirst(r)
  <2> SUFFICES ASSUME NEW i \in 1 .. Len(r), NEW j \in 1 .. Len(r), r[i] = "finish",
                      r[j] = "readStart"
               PROVE  j < i
    BY DEF StartsFirst
  <2>1. i # j
    OBVIOUS
  <2>2. CASE i \in 1 .. Len(q) /\ j \in 1 .. Len(q)
    BY <1>1, <1>5, <2>2 DEF StartsFirst
  <2>3. CASE i = Len(q) + 1 /\ j \in 1 .. Len(q)
    BY <1>3, <2>3
  <2>4. CASE i \in 1 .. Len(q) /\ j = Len(q) + 1
    <3>1. r[i] = q[i] /\ r[j] = t
      BY <1>1, <2>4
    <3> QED
      BY <1>5, <2>4, <3>1 DEF Waits
  <2> QED
    BY <1>2, <2>1, <2>2, <2>3, <2>4
<1> QED
  BY <1>1, <1>4, <1>5

LEMMA FirstTaken ==
    ASSUME NEW q \in Seq(TickNames), q # <<>>
    PROVE  /\ Head(q) \in TickNames /\ Tail(q) \in Seq(TickNames) /\ Waits(Head(q), q)
           /\ \A u : Waits(u, Tail(q)) => Waits(u, q)
           /\ \A u : Waits(u, q) => Waits(u, Tail(q)) \/ u = Head(q)
           /\ StartsFirst(q) => StartsFirst(Tail(q))
           /\ StartsFirst(q) /\ Head(q) = "finish" => ~Waits("readStart", q)
<1> PICK r : r = Tail(q)
  OBVIOUS
<1>1. /\ r \in Seq(TickNames) /\ Len(q) \in Nat /\ Len(q) >= 1 /\ Len(r) = Len(q) - 1
      /\ Head(q) = q[1] /\ q[1] \in TickNames
      /\ \A i \in 1 .. Len(r) : r[i] = q[i + 1]
  OBVIOUS
<1>2. /\ 1 \in 1 .. Len(q)
      /\ \A i \in 1 .. Len(r) : i + 1 \in 1 .. Len(q)
      /\ \A i \in 1 .. Len(q) : i = 1 \/ (i - 1 \in 1 .. Len(r) /\ q[i] = r[i - 1])
  BY <1>1
<1>3. Waits(q[1], q) /\ \A u : Waits(u, r) => Waits(u, q)
  BY <1>1, <1>2 DEF Waits
<1>4. \A u : Waits(u, q) => Waits(u, r) \/ u = q[1]
  BY <1>1, <1>2 DEF Waits
<1>5. StartsFirst(q) => StartsFirst(r)
  <2> SUFFICES ASSUME StartsFirst(q), NEW i \in 1 .. Len(r), NEW j \in 1 .. Len(r),
                      r[i] = "finish", r[j] = "readStart"
               PROVE  j < i
    BY DEF StartsFirst
  <2>1. j + 1 < i + 1
    BY <1>1, <1>2 DEF StartsFirst
  <2> QED
    BY <1>1, <2>1
<1>6. ASSUME StartsFirst(q), q[1] = "finish", Waits("readStart", q)
      PROVE  FALSE
  <2>1. PICK j \in 1 .. Len(q) : q[j] = "readStart"
    BY <1>6 DEF Waits
  <2>2. j < 1
    BY <1>2, <1>6, <2>1 DEF StartsFirst
  <2> QED
    BY <1>1, <2>2
<1> QED
  BY <1>1, <1>3, <1>4, <1>5, <1>6

LEMMA NothingWaits == ~(\E t : Waits(t, <<>>)) /\ StartsFirst(<<>>)
BY DEF Waits, StartsFirst

-----------------------------------------------------------------------------
(* What the functions that only end or destroy a socket do to it: they     *)
(* close it only when 'finish' was emitted, and add to the queue only      *)
(* 'finish', when there is nothing to write, and the 'close' of a server   *)
(* without sockets.                                                        *)

Untouched(k, m) ==
  /\ m.connected = k.connected /\ m.errored = k.errored /\ m.ready = k.ready
  /\ m.buffer = k.buffer /\ m.writing = k.writing /\ m.ended = k.ended
  /\ m.rbuffer = k.rbuffer /\ m.eof = k.eof /\ m.thrown = k.thrown
  /\ m.server.handle = k.server.handle /\ m.server.told = k.server.told

Stays(k, m) ==
  /\ m.destroyed = k.destroyed /\ m.handle = k.handle /\ m.owned = k.owned
  /\ m.server.count = k.server.count /\ (m.timer => k.timer) /\ (m.reading => k.reading)

IsClosed(k, m) ==
  /\ ~k.destroyed /\ k.ended /\ IsOpen(k)
  /\ m.destroyed /\ m.handle = "closing" /\ ~m.timer /\ ~m.reading /\ ~m.owned
  /\ m.server.count = IF k.owned THEN k.server.count - 1 ELSE k.server.count

Ticked(k, m) ==
  /\ \A t : Waits(t, k.ticks) => Waits(t, m.ticks)
  /\ \A t : Waits(t, m.ticks) => Waits(t, k.ticks) \/ t \in {"finish", "serverClose"}
  /\ Waits("finish", m.ticks)
       => Waits("finish", k.ticks) \/ (m.ending /\ k.buffer = 0 /\ ~k.writing)
  /\ Waits("serverClose", m.ticks)
       => Waits("serverClose", k.ticks) \/ (m.server.count <= 0 /\ m.server.handle = "none")
  /\ StartsFirst(k.ticks) => StartsFirst(m.ticks)

Calm(k, m) ==
  /\ m \in SocketRecord /\ Untouched(k, m) /\ Ticked(k, m)
  /\ Stays(k, m) \/ IsClosed(k, m)
  /\ \A r \in {"lookup", "connect", "write"} : r \in m.requests <=> r \in k.requests
  /\ k.ending => m.ending
  /\ m.ending => k.ending \/ Waits("finish", m.ticks) \/ k.buffer > 0 \/ k.writing
  /\ k.onFinish => m.onFinish

LEMMA ServerFields ==
    ASSUME NEW k \in SocketRecord
    PROVE  /\ k.server \in ServerRecord /\ k.server.count \in Int /\ k.buffer \in Nat
           /\ k.ticks \in Seq(TickNames) /\ k.requests \subseteq NetRequests
BY DEF SocketRecord, ServerRecord

LEMMA CalmIsTransitive ==
    ASSUME NEW k \in SocketRecord, NEW l, NEW m, Calm(k, l), Calm(l, m)
    PROVE  Calm(k, m)
<1> USE DEF Calm
<1>0. k.server.count \in Int /\ l.server.count \in Int /\ m.server.count \in Int
  BY ServerFields
<1>1. Untouched(k, m)
  BY DEF Untouched
<1>2. Stays(k, m) \/ IsClosed(k, m)
  BY DEF Stays, IsClosed, IsOpen, Untouched
<1>3. m.server.count <= l.server.count
  BY <1>0 DEF Stays, IsClosed
<1>4. Ticked(k, m)
  BY <1>0, <1>3 DEF Ticked, Untouched
<1> QED
  BY <1>1, <1>2, <1>4 DEF Ticked, Untouched

LEMMA CalmIsReflexive ==
    ASSUME NEW k \in SocketRecord
    PROVE  Calm(k, k)
BY DEF Calm, Untouched, Ticked, Stays

LEMMA CalmType == \A k, m : Calm(k, m) => m \in SocketRecord
BY DEF Calm

LEMMA CalmFacts ==
    ASSUME NEW k, NEW m, Calm(k, m)
    PROVE  /\ m.errored = k.errored /\ m.connected = k.connected /\ m.ended = k.ended
           /\ m.eof = k.eof /\ (m.reading => k.reading)
           /\ Waits("readStart", m.ticks) => Waits("readStart", k.ticks)
           /\ k.handle = "none" <=> m.handle = "none"
           /\ \A r \in {"lookup", "connect", "write"} : r \in m.requests <=> r \in k.requests
<1>1. m.errored = k.errored /\ m.connected = k.connected /\ m.ended = k.ended /\ m.eof = k.eof
  BY DEF Calm, Untouched
<1>2. Waits("readStart", m.ticks) => Waits("readStart", k.ticks)
  BY DEF Calm, Ticked
<1>3. (k.handle = "none" <=> m.handle = "none") /\ (m.reading => k.reading)
  BY DEF Calm, Stays, IsClosed, IsOpen
<1>4. \A r \in {"lookup", "connect", "write"} : r \in m.requests <=> r \in k.requests
  BY DEF Calm
<1> QED
  BY <1>1, <1>2, <1>3, <1>4

\* All but the ticks.
Alike(k, m) ==
  /\ m.allowHalfOpen = k.allowHalfOpen /\ m.handle = k.handle /\ m.connecting = k.connecting
  /\ m.connected = k.connected /\ m.writable = k.writable /\ m.readable = k.readable
  /\ m.destroyed = k.destroyed /\ m.errored = k.errored /\ m.timer = k.timer
  /\ m.ready = k.ready /\ m.buffer = k.buffer /\ m.writing = k.writing
  /\ m.ending = k.ending /\ m.ended = k.ended /\ m.onFinish = k.onFinish
  /\ m.rbuffer = k.rbuffer /\ m.eof = k.eof /\ m.endEmitted = k.endEmitted
  /\ m.reading = k.reading /\ m.requests = k.requests /\ m.owned = k.owned
  /\ m.server = k.server /\ m.thrown = k.thrown

\* A tick more.
LEMMA LaterAdds ==
    ASSUME NEW k \in SocketRecord, NEW t \in TickNames
    PROVE  LET m == Later(k, t)
           IN  /\ m \in SocketRecord
               /\ Alike(k, m)
               /\ \A u : Waits(u, m.ticks) <=> Waits(u, k.ticks) \/ u = t
               /\ StartsFirst(k.ticks) /\ (t # "readStart" \/ ~Waits("finish", k.ticks))
                    => StartsFirst(m.ticks)
<1> PICK q : q = Append(k.ticks, t)
  OBVIOUS
<1>1. /\ q \in Seq(TickNames) /\ \A u : Waits(u, q) <=> Waits(u, k.ticks) \/ u = t
      /\ StartsFirst(k.ticks) /\ (t # "readStart" \/ ~Waits("finish", k.ticks)) => StartsFirst(q)
  BY ServerFields, Appended
<1>2. /\ Later(k, t) = [k EXCEPT !.ticks = q] /\ Later(k, t) \in SocketRecord
      /\ Later(k, t).ticks = q /\ Alike(k, Later(k, t))
  BY <1>1 DEF Later, SocketRecord, Alike
<1> QED
  BY <1>1, <1>2

\* Fields that no part of Calm depends on.
LEMMA IdleFields ==
    ASSUME NEW k \in SocketRecord, NEW x \in BOOLEAN, NEW y \in BOOLEAN, NEW z \in BOOLEAN
    PROVE  /\ Calm(k, [k EXCEPT !.writable = x]) /\ Calm(k, [k EXCEPT !.readable = x])
           /\ Calm(k, [k EXCEPT !.endEmitted = x]) /\ Calm(k, [k EXCEPT !.connecting = x])
           /\ Calm(k, [k EXCEPT !.onFinish = TRUE]) /\ Calm(k, [k EXCEPT !.timer = FALSE])
           /\ Calm(k, [k EXCEPT !.reading = FALSE])
           /\ Calm(k, [k EXCEPT !.requests = @ \union {"shutdown"}])
<1> USE DEF Calm, Untouched, Ticked, Stays, SocketRecord
<1>1. Calm(k, [k EXCEPT !.writable = x]) /\ Calm(k, [k EXCEPT !.readable = x])
  OBVIOUS
<1>2. Calm(k, [k EXCEPT !.endEmitted = x]) /\ Calm(k, [k EXCEPT !.connecting = x])
  OBVIOUS
<1>3. Calm(k, [k EXCEPT !.onFinish = TRUE]) /\ Calm(k, [k EXCEPT !.timer = FALSE])
  <2>1. [k EXCEPT !.onFinish = TRUE] \in SocketRecord /\ [k EXCEPT !.timer = FALSE] \in SocketRecord
    OBVIOUS
  <2>2. Calm(k, [k EXCEPT !.onFinish = TRUE])
    BY <2>1
  <2>3. Calm(k, [k EXCEPT !.timer = FALSE])
    BY <2>1
  <2> QED
    BY <2>2, <2>3
<1>4. Calm(k, [k EXCEPT !.reading = FALSE])
  <2>1. [k EXCEPT !.reading = FALSE] \in SocketRecord
    OBVIOUS
  <2> QED
    BY <2>1
<1>5. Calm(k, [k EXCEPT !.requests = @ \union {"shutdown"}])
  BY DEF NetRequests
<1> QED
  BY <1>1, <1>2, <1>3, <1>4, <1>5

LEMMA EndWritableIsCalm ==
    ASSUME NEW k \in SocketRecord
    PROVE  Calm(k, EndWritable(k)) /\ EndWritable(k).ending
<1> PICK e : e = [k EXCEPT !.ending = TRUE]
  OBVIOUS
<1>1. e \in SocketRecord
  BY DEF SocketRecord
<1>2. /\ Untouched(k, e) /\ Stays(k, e) /\ e.ending /\ e.requests = k.requests
      /\ e.ticks = k.ticks /\ e.onFinish = k.onFinish
  BY DEF SocketRecord, Untouched, Stays
<1>3. CASE k.ending \/ k.writing \/ k.buffer > 0
  <2>1. EndWritable(k) = e
    BY <1>3 DEF EndWritable
  <2> QED
    BY <1>1, <1>2, <1>3, <2>1 DEF Calm, Ticked
<1>4. CASE ~(k.ending \/ k.writing \/ k.buffer > 0)
  <2> PICK m : m = Later(e, "finish")
    OBVIOUS
  <2>1. EndWritable(k) = m
    BY <1>4 DEF EndWritable
  <2>2. /\ m \in SocketRecord /\ Alike(e, m)
        /\ \A u : Waits(u, m.ticks) <=> Waits(u, e.ticks) \/ u = "finish"
        /\ StartsFirst(e.ticks) => StartsFirst(m.ticks)
    BY <1>1, LaterAdds DEF TickNames
  <2>3. /\ Untouched(e, m) /\ Stays(e, m) /\ m.ending /\ m.requests = e.requests
        /\ m.onFinish = e.onFinish
    BY <1>2, <2>2 DEF Alike, Untouched, Stays
  <2>4. Untouched(k, m) /\ Stays(k, m)
    BY <1>2, <2>3 DEF Untouched, Stays
  <2>5. k.buffer = 0 /\ ~k.writing
    BY <1>4, ServerFields
  <2>6. Ticked(k, m)
    BY <1>2, <2>2, <2>3, <2>5 DEF Ticked
  <2> QED
    BY <1>2, <2>1, <2>2, <2>3, <2>4, <2>6 DEF Calm
<1> QED
  BY <1>3, <1>4

LEMMA SocketEndIsCalm ==
    ASSUME NEW k \in SocketRecord
    PROVE  Calm(k, SocketEnd(k)) /\ SocketEnd(k).ending
<1> PICK e : e = EndWritable(k)
  OBVIOUS
<1>1. Calm(k, e) /\ e.ending /\ e \in SocketRecord
  BY EndWritableIsCalm DEF Calm
<1>2. Calm(e, [e EXCEPT !.writable = FALSE])
  BY <1>1, IdleFields
<1>3. SocketEnd(k) = [e EXCEPT !.writable = FALSE]
  BY DEF SocketEnd
<1>4. SocketEnd(k).ending
  BY <1>1, <1>2, <1>3 DEF Calm
<1> QED
  BY <1>1, <1>2, <1>3, <1>4, CalmIsTransitive

LEMMA DrainedKeeps ==
    ASSUME NEW k \in SocketRecord
    PROVE  LET m == EmitCloseIfDrained(k)
           IN  /\ m \in SocketRecord /\ Alike(k, m)
               /\ \A u : Waits(u, k.ticks) => Waits(u, m.ticks)
               /\ \A u : Waits(u, m.ticks) => Waits(u, k.ticks) \/ u = "serverClose"
               /\ Waits("serverClose", m.ticks) => \/ Waits("serverClose", k.ticks)
                                                   \/ /\ k.server.count <= 0
                                                      /\ k.server.handle = "none"
               /\ StartsFirst(k.ticks) => StartsFirst(m.ticks)
<1> PICK m : m = EmitCloseIfDrained(k)
  OBVIOUS
<1>1. CASE k.server.handle # "none" \/ k.server.count > 0
  <2>1. m = k /\ Alike(k, k)
    BY <1>1 DEF EmitCloseIfDrained, Alike
  <2> QED
    BY <2>1
<1>2. CASE ~(k.server.handle # "none" \/ k.server.count > 0)
  <2>1. m = Later(k, "serverClose") /\ k.server.count <= 0
    BY <1>2, ServerFields DEF EmitCloseIfDrained
  <2>2. /\ m \in SocketRecord /\ Alike(k, m)
        /\ \A u : Waits(u, m.ticks) <=> Waits(u, k.ticks) \/ u = "serverClose"
        /\ StartsFirst(k.ticks) => StartsFirst(m.ticks)
    BY <2>1, LaterAdds DEF TickNames
  <2> QED
    BY <1>2, <2>1, <2>2
<1> QED
  BY <1>1, <1>2

LEMMA Released ==
    ASSUME NEW c \in SocketRecord, NEW v \in ServerRecord
    PROVE  LET d == [c EXCEPT !.owned = FALSE, !.server = v]
           IN  /\ d \in SocketRecord /\ d.server = v /\ ~d.owned
               /\ d.handle = c.handle /\ d.connected = c.connected /\ d.destroyed = c.destroyed
               /\ d.errored = c.errored /\ d.timer = c.timer /\ d.ready = c.ready
               /\ d.buffer = c.buffer /\ d.writing = c.writing /\ d.ending = c.ending
               /\ d.ended = c.ended /\ d.onFinish = c.onFinish /\ d.rbuffer = c.rbuffer
               /\ d.eof = c.eof /\ d.reading = c.reading /\ d.requests = c.requests
               /\ d.ticks = c.ticks /\ d.thrown = c.thrown
BY DEF SocketRecord

LEMMA CloseIsCalm ==
    ASSUME NEW k \in SocketRecord, ~k.destroyed, k.ended, IsOpen(k), ~k.timer
    PROVE  Calm(k, Close(k)) /\ Close(k).destroyed
<1> PICK m : m = Close(k)
  OBVIOUS
<1> PICK c : c = [k EXCEPT !.handle = "closing", !.destroyed = TRUE, !.reading = FALSE]
  OBVIOUS
<1>1. /\ c \in SocketRecord /\ Untouched(k, c) /\ c.ticks = k.ticks /\ c.requests = k.requests
      /\ c.ending = k.ending /\ c.onFinish = k.onFinish /\ c.server = k.server
      /\ c.destroyed /\ c.handle = "closing" /\ ~c.timer /\ ~c.reading /\ c.owned = k.owned
  BY DEF SocketRecord, Untouched
<1>2. CASE ~k.owned
  <2>1. m = c
    BY <1>2 DEF Close
  <2> QED
    BY <1>1, <1>2, <2>1 DEF Calm, Ticked, IsClosed
<1>3. CASE k.owned
  <2> PICK v : v = [c.server EXCEPT !.count = @ - 1]
    OBVIOUS
  <2> PICK d : d = [c EXCEPT !.owned = FALSE, !.server = v]
    OBVIOUS
  <2>0. /\ v \in ServerRecord /\ v.count = k.server.count - 1 /\ v.handle = k.server.handle
        /\ v.told = k.server.told
    BY <1>1, ServerFields DEF ServerRecord
  <2>1. m = EmitCloseIfDrained(d)
    BY <1>1, <1>3 DEF Close, SocketRecord
  <2>2. /\ d \in SocketRecord /\ d.server = v /\ ~d.owned
        /\ d.handle = c.handle /\ d.connected = c.connected /\ d.destroyed = c.destroyed
        /\ d.errored = c.errored /\ d.timer = c.timer /\ d.ready = c.ready
        /\ d.buffer = c.buffer /\ d.writing = c.writing /\ d.ending = c.ending
        /\ d.ended = c.ended /\ d.onFinish = c.onFinish /\ d.rbuffer = c.rbuffer
        /\ d.eof = c.eof /\ d.reading = c.reading /\ d.requests = c.requests
        /\ d.ticks = c.ticks /\ d.thrown = c.thrown
    <3>1. c \in SocketRecord /\ v \in ServerRecord
      BY <1>1, <2>0
    <3> QED
      BY ONLY <3>1, Released, d = [c EXCEPT !.owned = FALSE, !.server = v]
  <2>3. /\ Untouched(k, d) /\ d.ticks = k.ticks /\ d.requests = k.requests
        /\ d.ending = k.ending /\ d.onFinish = k.onFinish
        /\ d.server.count = k.server.count - 1
        /\ d.destroyed /\ d.handle = "closing" /\ ~d.timer /\ ~d.reading /\ ~d.owned
    BY ONLY <1>1, <2>0, <2>2 DEF Untouched
  <2>4. /\ m \in SocketRecord /\ Alike(d, m)
        /\ \A u : Waits(u, d.ticks) => Waits(u, m.ticks)
        /\ \A u : Waits(u, m.ticks) => Waits(u, d.ticks) \/ u = "serverClose"
        /\ Waits("serverClose", m.ticks) => \/ Waits("serverClose", d.ticks)
                                            \/ /\ d.server.count <= 0
                                               /\ d.server.handle = "none"
        /\ StartsFirst(d.ticks) => StartsFirst(m.ticks)
    BY <2>1, <2>2, DrainedKeeps
  <2>5. /\ Untouched(d, m) /\ m.requests = d.requests /\ m.ending = d.ending
        /\ m.onFinish = d.onFinish /\ m.server = d.server /\ m.destroyed
        /\ m.handle = "closing" /\ ~m.timer /\ ~m.reading /\ ~m.owned
    BY <2>3, <2>4 DEF Alike, Untouched
  <2>6. Untouched(k, m) /\ IsClosed(k, m)
    BY <1>3, <2>3, <2>5 DEF Untouched, IsClosed
  <2>7. Ticked(k, m)
    BY <2>3, <2>4, <2>5 DEF Ticked
  <2> QED
    BY <2>3, <2>4, <2>5, <2>6, <2>7 DEF Calm
<1> QED
  BY <1>2, <1>3

LEMMA DestroyIsCalm ==
    ASSUME NEW k \in SocketRecord
    PROVE  /\ Calm(k, Destroy(k))
           /\ k.ended /\ IsOpen(k) => Destroy(k).destroyed
           /\ k.destroyed \/ Destroy(k).destroyed \/ Destroy(k).onFinish
<1>1. CASE k.destroyed
  BY <1>1, CalmIsReflexive DEF Destroy
<1>2. CASE ~k.destroyed
  <2> PICK a : a = IF k.writable THEN SocketEnd(k) ELSE k
    OBVIOUS
  <2> PICK e : e = [a EXCEPT !.timer = FALSE]
    OBVIOUS
  <2>1. Calm(k, a)
    BY CalmIsReflexive, SocketEndIsCalm
  <2>2. a \in SocketRecord /\ Calm(a, e)
    BY <2>1, IdleFields, CalmType
  <2>3. Calm(k, e) /\ e \in SocketRecord /\ ~e.timer
    <3>1. ~e.timer
      BY <2>2 DEF SocketRecord
    <3> QED
      BY <2>1, <2>2, <3>1, CalmIsTransitive, CalmType
  <2>4. Destroy(k) = IF e.ended /\ IsOpen(e) THEN Close(e) ELSE [e EXCEPT !.onFinish = TRUE]
    BY <1>2 DEF Destroy
  <2>5. CASE e.ended /\ IsOpen(e)
    <3>1. ~e.destroyed
      BY <1>2, <2>3, <2>5 DEF Calm, Stays, IsClosed, IsOpen
    <3>2. Calm(e, Close(e)) /\ Close(e).destroyed
      BY <2>3, <2>5, <3>1, CloseIsCalm
    <3> QED
      BY <2>3, <2>4, <2>5, <3>2, CalmIsTransitive
  <2>6. CASE ~(e.ended /\ IsOpen(e))
    <3>1. Calm(e, [e EXCEPT !.onFinish = TRUE]) /\ [e EXCEPT !.onFinish = TRUE].onFinish
      BY <2>3, IdleFields DEF SocketRecord
    <3>2. k.ended /\ IsOpen(k) => e.destroyed
      BY <2>3, <2>6 DEF Calm, Stays, Untouched, IsClosed, IsOpen
    <3>3. e.destroyed => [e EXCEPT !.onFinish = TRUE].destroyed
      BY <3>1 DEF Calm, Stays, IsClosed
    <3> QED
      BY <2>3, <2>4, <2>6, <3>1, <3>2, <3>3, CalmIsTransitive
  <2> QED
    BY <2>5, <2>6
<1> QED
  BY <1>1, <1>2

LEMMA DestroySoonIsCalm ==
    ASSUME NEW k \in SocketRecord
    PROVE  Calm(k, DestroySoon(k))
<1> PICK a : a = IF k.writable THEN SocketEnd(k) ELSE k
  OBVIOUS
<1>1. Calm(k, a)
  BY CalmIsReflexive, SocketEndIsCalm
<1>2. a \in SocketRecord /\ Calm(a, [a EXCEPT !.onFinish = TRUE])
  BY <1>1, IdleFields, CalmType
<1>3. DestroySoon(k) = [a EXCEPT !.onFinish = TRUE]
  BY DEF DestroySoon
<1> QED
  BY <1>1, <1>2, <1>3, CalmIsTransitive

LEMMA OnSocketFinishIsCalm ==
    ASSUME NEW k \in SocketRecord
    PROVE  Calm(k, OnSocketFinish(k))
BY DestroyIsCalm, IdleFields, CalmIsReflexive DEF OnSocketFinish

LEMMA MaybeDestroyIsCalm ==
    ASSUME NEW k \in SocketRecord
    PROVE  Calm(k, MaybeDestroy(k))
BY DestroyIsCalm, CalmIsReflexive DEF MaybeDestroy

LEMMA OnSocketEndIsCalm ==
    ASSUME NEW k \in SocketRecord
    PROVE  Calm(k, OnSocketEnd(k))
<1>1. CASE k.endEmitted
  BY <1>1, CalmIsReflexive DEF OnSocketEnd
<1>2. CASE ~k.endEmitted
  <2> PICK a : a = [k EXCEPT !.endEmitted = TRUE]
    OBVIOUS
  <2> PICK e : e = MaybeDestroy(a)
    OBVIOUS
  <2>1. Calm(k, a) /\ a \in SocketRecord
    BY IdleFields, CalmType
  <2>2. Calm(a, e)
    BY <2>1, MaybeDestroyIsCalm
  <2>3. Calm(k, e) /\ e \in SocketRecord
    BY <2>1, <2>2, CalmIsTransitive, CalmType
  <2>4. OnSocketEnd(k) = IF k.allowHalfOpen THEN e ELSE DestroySoon(e)
    BY <1>2 DEF OnSocketEnd
  <2>5. Calm(e, DestroySoon(e))
    BY <2>3, DestroySoonIsCalm
  <2> QED
    BY <2>3, <2>4, <2>5, CalmIsTransitive
<1> QED
  BY <1>1, <1>2

\* emitFinish(): what it does once 'finish' is marked as emitted; whoever waited for it
\* destroys the socket.
LEMMA EmitFinishIsCalm ==
    ASSUME NEW k \in SocketRecord, ~k.ended, NEW a, a = [k EXCEPT !.ended = TRUE, !.onFinish = FALSE]
    PROVE  /\ Calm(a, EmitFinish(k))
           /\ k.onFinish /\ IsOpen(k) => EmitFinish(k).destroyed
<1> PICK f : f = OnSocketFinish(a)
  OBVIOUS
<1>1. a \in SocketRecord /\ a.ended /\ a.handle = k.handle
  BY DEF SocketRecord
<1>2. Calm(a, f)
  BY <1>1, OnSocketFinishIsCalm
<1>3. f \in SocketRecord /\ f.ended
  BY <1>1, <1>2 DEF Calm, Untouched
<1>4. Calm(f, Destroy(f)) /\ (IsOpen(f) => Destroy(f).destroyed)
  BY <1>3, DestroyIsCalm
<1>5. Calm(a, Destroy(f))
  BY <1>1, <1>2, <1>4, CalmIsTransitive
<1>6. EmitFinish(k) = IF k.onFinish THEN Destroy(f) ELSE f
  BY DEF EmitFinish
<1>7. IsOpen(k) => Destroy(f).destroyed
  BY <1>1, <1>2, <1>4 DEF Calm, Stays, IsClosed, IsOpen
<1> QED
  BY <1>2, <1>5, <1>6, <1>7

-----------------------------------------------------------------------------
(* The parts of the invariant under these functions.                       *)

LEMMA CalmKeepsBase ==
    ASSUME NEW k, NEW b, NEW e \in History, Base(k, b, e), NEW m, Calm(k, m)
    PROVE  Base(m, b, e)
<1>0. /\ k \in SocketRecord /\ m \in SocketRecord /\ k.buffer \in Nat /\ k.server.count \in Int
      /\ e.others \in Nat /\ Untouched(k, m) /\ Ticked(k, m)
      /\ \A r \in {"lookup", "connect", "write"} : r \in m.requests <=> r \in k.requests
      /\ k.ending => m.ending
  BY ServerFields DEF Base, Calm, History
<1>1. Fits(m)
  BY <1>0 DEF Base, Calm, Fits, Untouched, Stays, IsClosed, IsOpen
<1>2. TicksFit(m, b)
  <2>1. k.handle # "none" => m.handle # "none"
    BY DEF Calm, Stays, IsClosed
  <2> QED
    BY <1>0, <2>1 DEF Base, TicksFit, Pending, Untouched, Ticked
<1>3. Written(m, b, e.late)
  BY <1>0 DEF Base, Written, Pending, Untouched, Ticked
<1>4. Served(m, b, e)
  <2>1. /\ m.server.count = e.others + (IF m.owned THEN 1 ELSE 0)
        /\ m.owned <=> e.serves /\ ~m.destroyed
    BY <1>0 DEF Base, Served, Calm, Stays, IsClosed, IsOpen
  <2>2. /\ m.server.count = k.server.count \/ (k.owned /\ m.server.count = k.server.count - 1)
        /\ k.server.count = e.others + (IF k.owned THEN 1 ELSE 0)
        /\ k.server.told \/ Pending("serverClose", k, b)
             => e.again \/ (k.server.count = 0 /\ k.server.handle = "none")
    BY DEF Base, Served, Calm, Stays, IsClosed
  <2>3. m.server.count >= 0
    BY <1>0, <2>1
  <2>4. k.server.count = 0 => m.server.count = 0
    BY <1>0, <2>2
  <2>5. m.server.told \/ Pending("serverClose", m, b)
          => \/ k.server.told \/ Pending("serverClose", k, b)
             \/ m.server.count <= 0 /\ m.server.handle = "none"
    BY <1>0 DEF Ticked, Untouched, Pending
  <2>6. m.server.count <= 0 => m.server.count = 0
    BY <1>0, <2>1, <2>3
  <2> QED
    BY <1>0, <2>1, <2>2, <2>4, <2>5, <2>6 DEF Served, Untouched
<1> QED
  BY <1>0, <1>1, <1>2, <1>3, <1>4 DEF Base

\* ... which end the socket of a program that keeps to the order only when it is connected.
LEMMA CalmKeepsOrderly ==
    ASSUME NEW k, NEW b, NEW p, NEW e \in History, Base(k, b, e), Orderly(k, b, p), NEW m, Calm(k, m),
           \/ k.ending \/ ~m.ending \/ k.connected
           \/ "lookup" \notin k.requests /\ "connect" \notin k.requests
    PROVE  Orderly(m, b, p)
<1>0. /\ Untouched(k, m) /\ Ticked(k, m)
      /\ \A r \in {"lookup", "connect", "write"} : r \in m.requests <=> r \in k.requests
      /\ k.ending => m.ending
      /\ k.onFinish => m.onFinish
      /\ Stays(k, m) \/ IsClosed(k, m)
  BY DEF Calm
<1>1. "lookup" \in m.requests => ~m.ending /\ ~m.connected /\ ~m.errored
  BY <1>0 DEF Orderly, Untouched
<1>2. ASSUME "connect" \in m.requests
      PROVE  /\ ~m.connected /\ ~m.errored
             /\ \/ ~m.ending \/ m.destroyed
                \/ ~m.ended /\ m.buffer > 0
                \/ ~m.ended /\ p # "idle" /\ m.onFinish /\ Waits("finish", Now(m, b, p))
  <2>1. ~k.connected /\ ~k.errored /\ (k.ending \/ ~m.ending)
    BY <1>0, <1>2 DEF Orderly
  <2>2. \/ ~k.ending \/ k.destroyed
        \/ ~k.ended /\ k.buffer > 0
        \/ ~k.ended /\ p # "idle" /\ k.onFinish /\ Waits("finish", Now(k, b, p))
    BY <1>0, <1>2 DEF Orderly
  <2>3. Waits("finish", Now(k, b, p)) => Waits("finish", Now(m, b, p))
    BY <1>0 DEF Now, Ticked
  <2>4. k.destroyed => m.destroyed
    BY <1>0 DEF Stays, IsClosed
  <2> QED
    BY <1>0, <2>1, <2>2, <2>3, <2>4 DEF Untouched
<1>3. ASSUME Pending("readStart", m, b)
      PROVE  ~m.ended /\ ~m.errored /\ IsOpen(m)
  <2>1. Pending("readStart", k, b)
    BY <1>0, <1>3 DEF Pending, Ticked
  <2> QED
    BY <1>0, <2>1 DEF Orderly, Untouched, Stays, IsClosed, IsOpen
<1>4. StartsFirst(m.ticks) /\ StartsFirst(b) /\ ~m.thrown
  BY <1>0 DEF Orderly, Ticked, Untouched
<1> QED
  BY <1>1, <1>2, <1>3, <1>4 DEF Orderly

\* emitFinish(), when all is written.
LEMMA EmitFinishKeepsBase ==
    ASSUME NEW k, NEW b, NEW e \in History, Base(k, b, e), k.ending,
           k.errored \/ e.late \/ (k.buffer = 0 /\ ~k.writing)
    PROVE  Base(EmitFinish(k), b, e)
<1>1. CASE k.ended
  BY <1>1 DEF EmitFinish
<1>2. CASE ~k.ended
  <2> PICK a : a = [k EXCEPT !.ended = TRUE, !.onFinish = FALSE]
    OBVIOUS
  <2>0. k \in SocketRecord
    BY DEF Base
  <2>1. /\ a \in SocketRecord /\ a.ended /\ a.ending = k.ending /\ a.handle = k.handle
        /\ a.destroyed = k.destroyed /\ a.timer = k.timer /\ a.reading = k.reading
        /\ a.connected = k.connected /\ a.requests = k.requests /\ a.rbuffer = k.rbuffer
        /\ a.eof = k.eof /\ a.writing = k.writing /\ a.ready = k.ready
        /\ a.errored = k.errored /\ a.buffer = k.buffer /\ a.ticks = k.ticks
        /\ a.server = k.server /\ a.owned = k.owned /\ a.thrown = k.thrown
    BY <2>0 DEF SocketRecord
  <2>2. Base(a, b, e)
    <3>1. Fits(a)
      BY <2>1 DEF Base, Fits
    <3>2. TicksFit(a, b)
      BY <2>1 DEF Base, TicksFit, Pending
    <3>3. Written(a, b, e.late)
      BY <2>1 DEF Written
    <3>4. Served(a, b, e)
      BY <2>1 DEF Base, Served, Pending
    <3> QED
      BY <2>1, <3>1, <3>2, <3>3, <3>4 DEF Base
  <2>3. Calm(a, EmitFinish(k))
    BY <1>2, <2>0, EmitFinishIsCalm
  <2> QED
    BY <2>2, <2>3, CalmKeepsBase
<1> QED
  BY <1>1, <1>2

LEMMA EmitFinishKeepsOrderly ==
    ASSUME NEW k, NEW b, NEW p, NEW e \in History, Base(k, b, e), ~k.ended,
           "lookup" \notin k.requests,
           "connect" \in k.requests => ~k.connected /\ ~k.errored /\ k.onFinish,
           ~Pending("readStart", k, b), StartsFirst(k.ticks), StartsFirst(b), ~k.thrown
    PROVE  Orderly(EmitFinish(k), b, p)
<1> PICK a : a = [k EXCEPT !.ended = TRUE, !.onFinish = FALSE]
  OBVIOUS
<1> PICK m : m = EmitFinish(k)
  OBVIOUS
<1>1. k \in SocketRecord
  BY DEF Base
<1>2. /\ a.requests = k.requests /\ a.connected = k.connected /\ a.errored = k.errored
      /\ a.ticks = k.ticks /\ a.thrown = k.thrown
  BY <1>1 DEF SocketRecord
<1>3. Calm(a, m) /\ (k.onFinish /\ IsOpen(k) => m.destroyed)
  BY <1>1, EmitFinishIsCalm
<1>4. /\ Untouched(a, m) /\ Ticked(a, m)
      /\ \A r \in {"lookup", "connect", "write"} : r \in m.requests <=> r \in a.requests
  BY <1>3 DEF Calm
<1>5. "connect" \in k.requests => IsOpen(k)
  BY <1>1 DEF Base, Fits, IsOpen, SocketRecord
<1>6. "connect" \in m.requests => ~m.connected /\ ~m.errored /\ m.destroyed
  BY <1>2, <1>3, <1>4, <1>5 DEF Untouched
<1>7. ~Pending("readStart", m, b)
  BY <1>2, <1>4 DEF Pending, Ticked
<1>8. StartsFirst(m.ticks) /\ ~m.thrown /\ "lookup" \notin m.requests
  BY <1>2, <1>4 DEF Ticked, Untouched
<1> QED
  BY <1>6, <1>7, <1>8 DEF Orderly

-----------------------------------------------------------------------------
(* Writing.                                                                *)

\* A socket that differs in what the invariant does not depend on, or has fewer requests.
Match(k, m) ==
  /\ m \in SocketRecord
  /\ m.handle = k.handle /\ m.destroyed = k.destroyed /\ m.connected = k.connected
  /\ m.errored = k.errored /\ m.ready = k.ready /\ m.buffer = k.buffer
  /\ m.writing = k.writing /\ m.ending = k.ending /\ m.ended = k.ended
  /\ m.onFinish = k.onFinish /\ m.rbuffer = k.rbuffer /\ m.eof = k.eof
  /\ m.reading = k.reading /\ m.ticks = k.ticks /\ m.owned = k.owned
  /\ m.server = k.server /\ m.thrown = k.thrown
  /\ \A r \in {"lookup", "connect", "write"} : r \in m.requests => r \in k.requests
  /\ m.timer => k.timer \/ ~m.destroyed

LEMMA MatchKeeps ==
    ASSUME NEW k, NEW b, NEW p, NEW e, NEW m, Match(k, m)
    PROVE  /\ Base(k, b, e) => Base(m, b, e)
           /\ Orderly(k, b, p) => Orderly(m, b, p)
<1> USE DEF Match
<1>1. Fits(k) => Fits(m)
  BY DEF Fits
<1>2. TicksFit(k, b) => TicksFit(m, b)
  BY DEF TicksFit, Pending
<1>3. Written(k, b, e.late) => Written(m, b, e.late)
  BY DEF Written, Pending
<1>4. Served(k, b, e) => Served(m, b, e)
  BY DEF Served, Pending
<1>5. Orderly(k, b, p) => Orderly(m, b, p)
  BY DEF Orderly, Pending, Now, IsOpen
<1> QED
  BY <1>1, <1>2, <1>3, <1>4, <1>5 DEF Base

LEMMA ResetMatches ==
    ASSUME NEW k \in SocketRecord
    PROVE  Match(k, ResetSocketTimeout(k)) /\ ResetSocketTimeout(k).requests = k.requests
<1>1. CASE k.destroyed
  BY <1>1 DEF ResetSocketTimeout, Match
<1>2. CASE ~k.destroyed
  <2>1. ResetSocketTimeout(k) = [k EXCEPT !.timer = TRUE]
    BY <1>2 DEF ResetSocketTimeout
  <2>2. [k EXCEPT !.timer = TRUE] \in SocketRecord
    BY DEF SocketRecord
  <2>3. Match(k, [k EXCEPT !.timer = TRUE]) /\ [k EXCEPT !.timer = TRUE].requests = k.requests
    BY <1>2, <2>2 DEF Match, SocketRecord
  <2> QED
    BY ONLY <2>1, <2>3
<1> QED
  BY <1>1, <1>2

\* What a function that writes leaves alone.
Kept(k, m) ==
  /\ m \in SocketRecord
  /\ m.connected = k.connected /\ m.errored = k.errored /\ m.ended = k.ended
  /\ m.handle = k.handle /\ m.ending = k.ending
  /\ \A u : Waits(u, m.ticks) <=> Waits(u, k.ticks) \/ (k.errored /\ u = "afterWrite")
  /\ \A r \in {"lookup", "connect"} : r \in m.requests <=> r \in k.requests

LEMMA WritingChanges ==
    ASSUME NEW k \in SocketRecord, NEW w, w = [k EXCEPT !.writing = TRUE]
    PROVE  /\ w \in SocketRecord /\ w.writing /\ w.handle = k.handle /\ w.destroyed = k.destroyed
           /\ w.connected = k.connected /\ w.errored = k.errored /\ w.ready = k.ready
           /\ w.buffer = k.buffer /\ w.ending = k.ending /\ w.ended = k.ended
           /\ w.onFinish = k.onFinish /\ w.rbuffer = k.rbuffer /\ w.eof = k.eof
           /\ w.reading = k.reading /\ w.ticks = k.ticks /\ w.owned = k.owned
           /\ w.server = k.server /\ w.thrown = k.thrown /\ w.requests = k.requests
           /\ w.timer = k.timer
BY DEF SocketRecord

\* doWrite().
LEMMA DoWriteKeeps ==
    ASSUME NEW k, NEW b, NEW p, NEW e \in History, Base(k, b, e), k.connected \/ k.errored,
           k.errored \/ e.late \/ (~k.ended /\ ~Pending("finish", k, b))
    PROVE  /\ Base(DoWrite(k), b, e) /\ Kept(k, DoWrite(k))
           /\ Orderly(k, b, p) /\ (k.errored \/ IsOpen(k)) => Orderly(DoWrite(k), b, p)
<1> PICK m : m = DoWrite(k)
  OBVIOUS
<1> PICK w : w = [k EXCEPT !.writing = TRUE]
  OBVIOUS
<1>1. k \in SocketRecord
  BY DEF Base
<1>2. /\ w \in SocketRecord /\ w.writing /\ w.handle = k.handle /\ w.destroyed = k.destroyed
      /\ w.connected = k.connected /\ w.errored = k.errored /\ w.ready = k.ready
      /\ w.buffer = k.buffer /\ w.ending = k.ending /\ w.ended = k.ended
      /\ w.onFinish = k.onFinish /\ w.rbuffer = k.rbuffer /\ w.eof = k.eof
      /\ w.reading = k.reading /\ w.ticks = k.ticks /\ w.owned = k.owned
      /\ w.server = k.server /\ w.thrown = k.thrown /\ w.requests = k.requests
      /\ w.timer = k.timer
  BY <1>1, WritingChanges
<1>3. Fits(w) /\ TicksFit(w, b) /\ Served(w, b, e) /\ Written(w, b, e.late)
  <2>1. Fits(w)
    BY <1>2 DEF Base, Fits
  <2>2. TicksFit(w, b)
    BY <1>2 DEF Base, TicksFit, Pending
  <2>3. Served(w, b, e)
    BY <1>2 DEF Base, Served, Pending
  <2>4. Written(w, b, e.late)
    BY <1>2 DEF Written, Pending
  <2> QED
    BY <2>1, <2>2, <2>3, <2>4
<1>4. Orderly(k, b, p) => /\ Orderly(w, b, p)
                          /\ "lookup" \notin k.requests /\ "connect" \notin k.requests
  BY <1>2 DEF Orderly, Pending, IsOpen
<1>5. CASE k.errored
  <2>1. m = Later(w, "afterWrite")
    BY <1>5 DEF DoWrite
  <2>2. /\ m \in SocketRecord /\ Alike(w, m)
        /\ \A u : Waits(u, m.ticks) <=> Waits(u, w.ticks) \/ u = "afterWrite"
        /\ StartsFirst(w.ticks) => StartsFirst(m.ticks)
    BY <1>2, <2>1, LaterAdds DEF TickNames
  <2>3. Kept(k, m)
    BY <1>2, <1>5, <2>2 DEF Kept, Alike
  <2>4. Fits(m)
    BY <1>3, <2>2 DEF Fits, Alike
  <2>5. TicksFit(m, b) /\ Written(m, b, e.late)
    BY <1>2, <1>3, <1>5, <2>2 DEF TicksFit, Written, Pending, Alike
  <2>6. Served(m, b, e)
    BY <1>3, <2>2 DEF Served, Pending, Alike
  <2>7. Orderly(k, b, p) => Orderly(m, b, p)
    BY <1>2, <1>4, <2>2 DEF Orderly, Pending, IsOpen, Alike
  <2> QED
    BY <2>2, <2>3, <2>4, <2>5, <2>6, <2>7 DEF Base
<1>6. CASE ~k.errored /\ ~IsOpen(k)
  <2>1. m = [w EXCEPT !.thrown = TRUE]
    BY <1>6 DEF DoWrite
  <2>2. m \in SocketRecord
    <3>1. w \in SocketRecord
      BY <1>2
    <3> QED
      BY ONLY <2>1, <3>1 DEF SocketRecord
  <2>3. /\ m.handle = w.handle /\ m.destroyed = w.destroyed /\ m.connected = w.connected
        /\ m.errored = w.errored /\ m.ready = w.ready /\ m.buffer = w.buffer
        /\ m.writing = w.writing /\ m.ending = w.ending /\ m.ended = w.ended
        /\ m.rbuffer = w.rbuffer /\ m.eof = w.eof /\ m.reading = w.reading
        /\ m.ticks = w.ticks /\ m.owned = w.owned /\ m.server = w.server
        /\ m.requests = w.requests /\ m.timer = w.timer
    BY <1>2, <2>1 DEF SocketRecord
  <2>4. Fits(m) /\ TicksFit(m, b)
    BY <1>3, <2>3 DEF Fits, TicksFit, Pending
  <2>5. Written(m, b, e.late) /\ Served(m, b, e)
    BY <1>3, <2>3 DEF Written, Served, Pending
  <2>6. Kept(k, m)
    BY <1>2, <1>6, <2>2, <2>3 DEF Kept
  <2> QED
    BY <1>6, <2>2, <2>4, <2>5, <2>6 DEF Base
<1>7. CASE ~k.errored /\ IsOpen(k)
  <2> PICK r : r = ResetSocketTimeout(w)
    OBVIOUS
  <2>1. m = [r EXCEPT !.requests = @ \union {"write"}]
    BY <1>7 DEF DoWrite
  <2>2. Match(w, r) /\ r.requests = w.requests
    BY <1>2, ResetMatches
  <2>3. r \in SocketRecord /\ r.requests \subseteq NetRequests
    BY <2>2, ServerFields DEF Match
  <2>4. m \in SocketRecord /\ m.requests = r.requests \union {"write"}
    BY ONLY <2>1, <2>3 DEF SocketRecord, NetRequests
  <2>5. /\ m.handle = r.handle /\ m.destroyed = r.destroyed /\ m.connected = r.connected
        /\ m.errored = r.errored /\ m.ready = r.ready /\ m.buffer = r.buffer
        /\ m.writing = r.writing /\ m.ending = r.ending /\ m.ended = r.ended
        /\ m.rbuffer = r.rbuffer /\ m.eof = r.eof /\ m.reading = r.reading
        /\ m.ticks = r.ticks /\ m.owned = r.owned /\ m.server = r.server
        /\ m.timer = r.timer /\ m.thrown = r.thrown /\ m.onFinish = r.onFinish
    BY <2>1, <2>3 DEF SocketRecord
  <2>6. Base(w, b, e)
    BY <1>2, <1>3 DEF Base
  <2>7. Base(r, b, e) /\ (Orderly(w, b, p) => Orderly(r, b, p))
    BY <2>2, <2>6, MatchKeeps
  <2>8. r.writing
    BY <1>2, <2>2 DEF Match
  <2>9. Fits(m) /\ TicksFit(m, b)
    BY <2>4, <2>5, <2>7, <2>8 DEF Base, Fits, TicksFit, Pending
  <2>10. Written(m, b, e.late) /\ Served(m, b, e)
    BY <2>5, <2>7 DEF Base, Written, Served, Pending
  <2>11. Kept(k, m)
    BY <1>2, <1>7, <2>2, <2>4, <2>5 DEF Kept, Match
  <2>12. Orderly(k, b, p) => Orderly(m, b, p)
    BY <1>4, <2>4, <2>5, <2>7 DEF Orderly, Pending, IsOpen, Now
  <2> QED
    BY <2>4, <2>9, <2>10, <2>11, <2>12 DEF Base
<1> QED
  BY <1>5, <1>6, <1>7

\* A socket that may write has its handle until 'finish'.
LEMMA OpenToWrite ==
    ASSUME NEW k, NEW b, NEW e, Base(k, b, e), k.connected, ~k.ended
    PROVE  IsOpen(k)
BY DEF Base, Fits, SocketRecord, IsOpen

LEMMA BufferChanges ==
    ASSUME NEW k \in SocketRecord, NEW n \in Nat, NEW m, m = [k EXCEPT !.buffer = n]
    PROVE  /\ m \in SocketRecord /\ m.buffer = n /\ m.handle = k.handle
           /\ m.destroyed = k.destroyed /\ m.connected = k.connected /\ m.errored = k.errored
           /\ m.ready = k.ready /\ m.writing = k.writing /\ m.ending = k.ending
           /\ m.ended = k.ended /\ m.onFinish = k.onFinish /\ m.rbuffer = k.rbuffer
           /\ m.eof = k.eof /\ m.reading = k.reading /\ m.ticks = k.ticks
           /\ m.owned = k.owned /\ m.server = k.server /\ m.thrown = k.thrown
           /\ m.requests = k.requests /\ m.timer = k.timer
BY DEF SocketRecord

LEMMA BufferKeepsBase ==
    ASSUME NEW k, NEW b, NEW e, Base(k, b, e), NEW n \in Nat,
           k.errored \/ e.late \/ (~k.ended /\ ~Pending("finish", k, b))
    PROVE  Base([k EXCEPT !.buffer = n], b, e)
<1> PICK m : m = [k EXCEPT !.buffer = n]
  OBVIOUS
<1>0. k \in SocketRecord
  BY DEF Base
<1>1. /\ m \in SocketRecord /\ m.buffer = n /\ m.handle = k.handle
      /\ m.destroyed = k.destroyed /\ m.connected = k.connected /\ m.errored = k.errored
      /\ m.ready = k.ready /\ m.writing = k.writing /\ m.ending = k.ending
      /\ m.ended = k.ended /\ m.onFinish = k.onFinish /\ m.rbuffer = k.rbuffer
      /\ m.eof = k.eof /\ m.reading = k.reading /\ m.ticks = k.ticks
      /\ m.owned = k.owned /\ m.server = k.server /\ m.thrown = k.thrown
      /\ m.requests = k.requests /\ m.timer = k.timer
  BY <1>0, BufferChanges
<1>2. Fits(m) /\ TicksFit(m, b)
  BY <1>1 DEF Base, Fits, TicksFit, Pending
<1>3. Served(m, b, e) /\ Written(m, b, e.late)
  BY <1>1 DEF Base, Served, Written, Pending
<1> QED
  BY <1>1, <1>2, <1>3 DEF Base

\* writeOrBuffer().
LEMMA WriteOrBufferKeeps ==
    ASSUME NEW k, NEW b, NEW p, NEW e \in History, Base(k, b, e),
           k.errored \/ e.late \/ (~k.ended /\ ~Pending("finish", k, b)),
           NEW m, m = WriteOrBuffer(k)
    PROVE  /\ Base(m, b, e)
           /\ m.errored = k.errored
           /\ Waits("readStart", m.ticks) => Waits("readStart", k.ticks)
           /\ \A r \in {"lookup", "connect"} : r \in m.requests <=> r \in k.requests
           /\ Orderly(k, b, p) /\ (k.errored \/ ~k.ended) => Orderly(m, b, p)
<1>0. k \in SocketRecord /\ k.buffer \in Nat
  BY ServerFields DEF Base
<1>1. CASE ~k.ready \/ k.writing \/ k.buffer > 0
  <2>1. m = [k EXCEPT !.buffer = k.buffer + 1] /\ k.buffer + 1 \in Nat
    BY <1>0, <1>1 DEF WriteOrBuffer, SocketRecord
  <2>2. Base(m, b, e)
    BY <2>1, BufferKeepsBase
  <2>3. /\ m.buffer = k.buffer + 1 /\ m.handle = k.handle
        /\ m.destroyed = k.destroyed /\ m.connected = k.connected /\ m.errored = k.errored
        /\ m.ending = k.ending /\ m.ended = k.ended /\ m.onFinish = k.onFinish
        /\ m.ticks = k.ticks /\ m.thrown = k.thrown /\ m.requests = k.requests
    BY <1>0, <2>1, BufferChanges
  <2>4. m.buffer > 0
    BY <1>0, <2>3
  <2>5. Orderly(k, b, p) => Orderly(m, b, p)
    BY <2>3, <2>4 DEF Orderly, Pending, Now, IsOpen
  <2> QED
    BY <2>2, <2>3, <2>5
<1>2. CASE ~(~k.ready \/ k.writing \/ k.buffer > 0)
  <2>1. m = DoWrite(k) /\ (k.connected \/ k.errored)
    BY <1>0, <1>2 DEF WriteOrBuffer, Base, Fits
  <2>2. /\ Base(m, b, e) /\ Kept(k, m)
        /\ Orderly(k, b, p) /\ (k.errored \/ IsOpen(k)) => Orderly(m, b, p)
    BY <2>1, DoWriteKeeps
  <2>3. k.errored \/ ~k.ended => k.errored \/ IsOpen(k)
    BY <2>1, OpenToWrite
  <2> QED
    BY <2>2, <2>3 DEF Kept
<1> QED
  BY <1>1, <1>2

\* writeBuffered().
LEMMA WriteBufferedKeeps ==
    ASSUME NEW k, NEW b, NEW p, NEW e \in History, Base(k, b, e), k.connected \/ k.errored,
           NEW m, m = WriteBuffered(k)
    PROVE  /\ Base(m, b, e)
           /\ Orderly(k, b, p) /\ ~e.late /\ ~Pending("readStart", k, b) => Orderly(m, b, p)
           /\ ~k.errored /\ (k.ending => k.buffer > 0) => Kept(k, m)
<1>0. k \in SocketRecord /\ k.buffer \in Nat
  BY ServerFields DEF Base
<1>1. CASE k.writing \/ (~(k.buffer > 0) /\ ~k.ending)
  <2>1. m = k
    BY <1>1 DEF WriteBuffered
  <2> QED
    BY <1>0, <2>1 DEF Kept
<1>2. CASE ~k.writing /\ k.buffer > 0
  <2> PICK n : n = k.buffer - 1
    OBVIOUS
  <2> PICK a : a = [k EXCEPT !.buffer = n]
    OBVIOUS
  <2>1. m = DoWrite(a) /\ n \in Nat
    BY <1>0, <1>2 DEF WriteBuffered, SocketRecord
  <2>2. k.errored \/ e.late \/ (~k.ended /\ ~Pending("finish", k, b))
    BY <1>2 DEF Base, Written
  <2>3. Base(a, b, e)
    BY <2>1, <2>2, BufferKeepsBase
  <2>4. /\ a \in SocketRecord /\ a.handle = k.handle
        /\ a.destroyed = k.destroyed /\ a.connected = k.connected /\ a.errored = k.errored
        /\ a.ready = k.ready /\ a.writing = k.writing /\ a.ending = k.ending
        /\ a.ended = k.ended /\ a.onFinish = k.onFinish
        /\ a.ticks = k.ticks /\ a.thrown = k.thrown /\ a.requests = k.requests
    BY <1>0, <2>1, BufferChanges
  <2>5. /\ a.errored \/ e.late \/ (~a.ended /\ ~Pending("finish", a, b))
        /\ a.connected \/ a.errored
    BY <2>2, <2>4 DEF Pending
  <2>6. /\ Base(m, b, e) /\ Kept(a, m)
        /\ Orderly(a, b, p) /\ (a.errored \/ IsOpen(a)) => Orderly(m, b, p)
    BY ONLY <2>1, <2>3, <2>5, e \in History, DoWriteKeeps
  <2>7. Kept(k, m)
    BY <2>4, <2>6 DEF Kept
  <2>8. Orderly(k, b, p) => Orderly(a, b, p)
    BY <2>4 DEF Orderly, Pending, IsOpen
  <2>9. e.late \/ a.errored \/ IsOpen(a)
    BY <2>3, <2>4, <2>5, OpenToWrite
  <2> QED
    BY <2>6, <2>7, <2>8, <2>9
<1>3. CASE ~k.writing /\ ~(k.buffer > 0) /\ k.ending
  <2>1. m = EmitFinish(k) /\ k.buffer = 0
    BY <1>0, <1>3 DEF WriteBuffered
  <2>2. Base(m, b, e)
    BY <1>3, <2>1, EmitFinishKeepsBase
  <2>3. ASSUME Orderly(k, b, p), ~Pending("readStart", k, b)
        PROVE  Orderly(m, b, p)
    <3>1. CASE k.ended
      BY <2>1, <2>3, <3>1 DEF EmitFinish
    <3>2. CASE ~k.ended
      <4>2. /\ "lookup" \notin k.requests /\ "connect" \notin k.requests
            /\ StartsFirst(k.ticks) /\ StartsFirst(b) /\ ~k.thrown
        BY <2>3 DEF Orderly
      <4> QED
        BY <2>1, <2>3, <3>2, <4>2, EmitFinishKeepsOrderly
    <3> QED
      BY <3>1, <3>2
  <2> QED
    BY <1>3, <2>2, <2>3
<1> QED
  BY <1>1, <1>2, <1>3

LEMMA ReadyToWriteKeeps ==
    ASSUME NEW k, NEW b, NEW p, NEW e \in History, Base(k, b, e), k.connected \/ k.errored,
           NEW m, m = ReadyToWrite(k)
    PROVE  /\ Base(m, b, e)
           /\ Orderly(k, b, p) /\ ~e.late /\ ~Pending("readStart", k, b) => Orderly(m, b, p)
           /\ ~k.errored /\ (k.ending => k.buffer > 0) => Kept(k, m)
<1> PICK a : a = [k EXCEPT !.ready = TRUE]
  OBVIOUS
<1>0. k \in SocketRecord
  BY DEF Base
<1>1. /\ a \in SocketRecord /\ a.handle = k.handle /\ a.destroyed = k.destroyed
      /\ a.connected = k.connected /\ a.errored = k.errored /\ a.writing = k.writing
      /\ a.ending = k.ending /\ a.ended = k.ended /\ a.onFinish = k.onFinish
      /\ a.rbuffer = k.rbuffer /\ a.eof = k.eof /\ a.reading = k.reading
      /\ a.ticks = k.ticks /\ a.owned = k.owned /\ a.server = k.server
      /\ a.thrown = k.thrown /\ a.requests = k.requests /\ a.timer = k.timer
      /\ a.buffer = k.buffer
  BY <1>0 DEF SocketRecord
<1>2. Base(a, b, e)
  <2>1. Fits(a) /\ TicksFit(a, b)
    BY <1>1 DEF Base, Fits, TicksFit, Pending
  <2>2. Served(a, b, e) /\ Written(a, b, e.late)
    BY <1>1 DEF Base, Served, Written, Pending
  <2> QED
    BY <1>1, <2>1, <2>2 DEF Base
<1>3. Orderly(k, b, p) => Orderly(a, b, p)
  BY <1>1 DEF Orderly, Pending, Now, IsOpen
<1>4. (a.connected \/ a.errored) /\ m = WriteBuffered(a)
  BY <1>1 DEF ReadyToWrite
<1>5. /\ Base(m, b, e)
      /\ Orderly(a, b, p) /\ ~e.late /\ ~Pending("readStart", a, b) => Orderly(m, b, p)
      /\ ~a.errored /\ (a.ending => a.buffer > 0) => Kept(a, m)
  BY <1>2, <1>4, WriteBufferedKeeps
<1>6. Kept(a, m) => Kept(k, m)
  BY <1>1 DEF Kept
<1>7. Pending("readStart", a, b) <=> Pending("readStart", k, b)
  BY <1>1 DEF Pending
<1> QED
  BY <1>1, <1>3, <1>5, <1>6, <1>7

\* _onwrite(): the request of the write is answered, or there was none.
LEMMA OnWriteKeeps ==
    ASSUME NEW k, NEW b, NEW p, NEW e \in History, Base(k, b, e), k.connected \/ k.errored,
           "write" \notin k.requests \/ k.errored,
           NEW m, m = OnWrite(k)
    PROVE  /\ Base(m, b, e)
           /\ Orderly(k, b, p) /\ ~e.late /\ ~Pending("readStart", k, b) => Orderly(m, b, p)
<1> PICK a : a = [k EXCEPT !.writing = FALSE]
  OBVIOUS
<1>0. k \in SocketRecord
  BY DEF Base
<1>1. /\ a \in SocketRecord /\ a.handle = k.handle /\ a.destroyed = k.destroyed
      /\ a.connected = k.connected /\ a.errored = k.errored /\ a.ready = k.ready
      /\ a.ending = k.ending /\ a.ended = k.ended /\ a.onFinish = k.onFinish
      /\ a.rbuffer = k.rbuffer /\ a.eof = k.eof /\ a.reading = k.reading
      /\ a.ticks = k.ticks /\ a.owned = k.owned /\ a.server = k.server
      /\ a.thrown = k.thrown /\ a.requests = k.requests /\ a.timer = k.timer
      /\ a.buffer = k.buffer /\ ~a.writing
  BY <1>0 DEF SocketRecord
<1>2. Base(a, b, e)
  <2>1. Fits(a) /\ TicksFit(a, b)
    BY <1>1 DEF Base, Fits, TicksFit, Pending
  <2>2. Served(a, b, e) /\ Written(a, b, e.late)
    BY <1>1 DEF Base, Served, Written, Pending
  <2> QED
    BY <1>1, <2>1, <2>2 DEF Base
<1>3. Orderly(k, b, p) => Orderly(a, b, p)
  BY <1>1 DEF Orderly, Pending, Now, IsOpen
<1>4. (a.connected \/ a.errored) /\ m = WriteBuffered(a)
  BY <1>1 DEF OnWrite
<1>5. /\ Base(m, b, e)
      /\ Orderly(a, b, p) /\ ~e.late /\ ~Pending("readStart", a, b) => Orderly(m, b, p)
  BY <1>2, <1>4, WriteBufferedKeeps
<1>7. Pending("readStart", a, b) <=> Pending("readStart", k, b)
  BY <1>1 DEF Pending
<1> QED
  BY <1>3, <1>5, <1>7

\* emitError(): the connection has failed, no request for it is left.
LEMMA EmitErrorKeeps ==
    ASSUME NEW k, NEW b, NEW p, NEW e \in History, Base(k, b, e),
           NEW m, m = EmitError(k)
    PROVE  /\ Base(m, b, e)
           /\ Orderly(k, b, p) /\ ~e.late /\ ~Pending("readStart", k, b)
                /\ "lookup" \notin k.requests /\ "connect" \notin k.requests
              => Orderly(m, b, p)
<1> PICK a : a = [k EXCEPT !.errored = TRUE]
  OBVIOUS
<1> PICK w : w = IF a.ended THEN a ELSE WriteOrBuffer(a)
  OBVIOUS
<1> PICK c : c = IF k.ending THEN w ELSE [EndWritable(w) EXCEPT !.onFinish = TRUE]
  OBVIOUS
<1>0. k \in SocketRecord
  BY DEF Base
<1>1. /\ a \in SocketRecord /\ a.handle = k.handle /\ a.destroyed = k.destroyed
      /\ a.connected = k.connected /\ a.errored /\ a.ready = k.ready
      /\ a.ending = k.ending /\ a.ended = k.ended /\ a.onFinish = k.onFinish
      /\ a.rbuffer = k.rbuffer /\ a.eof = k.eof /\ a.reading = k.reading
      /\ a.ticks = k.ticks /\ a.owned = k.owned /\ a.server = k.server
      /\ a.thrown = k.thrown /\ a.requests = k.requests /\ a.timer = k.timer
      /\ a.buffer = k.buffer /\ a.writing = k.writing
  BY <1>0 DEF SocketRecord
<1>2. Base(a, b, e)
  <2>1. Fits(a) /\ TicksFit(a, b)
    BY <1>1 DEF Base, Fits, TicksFit, Pending
  <2>2. Served(a, b, e) /\ Written(a, b, e.late)
    BY <1>1 DEF Base, Served, Written, Pending
  <2> QED
    BY <1>1, <2>1, <2>2 DEF Base
<1>3. Orderly(k, b, p) /\ ~Pending("readStart", k, b)
        /\ "lookup" \notin k.requests /\ "connect" \notin k.requests => Orderly(a, b, p)
  BY <1>1 DEF Orderly, Pending, Now, IsOpen
<1>4. /\ Base(w, b, e) /\ w.errored
      /\ Waits("readStart", w.ticks) => Waits("readStart", a.ticks)
      /\ \A r \in {"lookup", "connect"} : r \in w.requests <=> r \in a.requests
      /\ Orderly(a, b, p) => Orderly(w, b, p)
  <2>1. CASE a.ended
    BY <1>1, <1>2, <2>1
  <2>2. CASE ~a.ended
    <3>1. w = WriteOrBuffer(a)
      BY <2>2
    <3>2. a.errored
      BY <1>1
    <3>3. /\ Base(w, b, e)
          /\ w.errored = a.errored
          /\ Waits("readStart", w.ticks) => Waits("readStart", a.ticks)
          /\ \A r \in {"lookup", "connect"} : r \in w.requests <=> r \in a.requests
          /\ Orderly(a, b, p) /\ (a.errored \/ ~a.ended) => Orderly(w, b, p)
      <4>1. a.errored \/ e.late \/ (~a.ended /\ ~Pending("finish", a, b))
        BY <3>2
      <4>2. Base(w, b, e) /\ w.errored = a.errored
        BY ONLY <1>2, <3>1, <4>1, e \in History, WriteOrBufferKeeps
      <4>3. Orderly(a, b, p) /\ (a.errored \/ ~a.ended) => Orderly(w, b, p)
        BY ONLY <1>2, <3>1, <4>1, e \in History, WriteOrBufferKeeps
      <4>4. Waits("readStart", w.ticks) => Waits("readStart", a.ticks)
        BY ONLY <1>2, <3>1, <4>1, e \in History, WriteOrBufferKeeps
      <4>5. \A r \in {"lookup", "connect"} : r \in w.requests <=> r \in a.requests
        BY ONLY <1>2, <3>1, <4>1, e \in History, WriteOrBufferKeeps
      <4> QED
        BY ONLY <4>2, <4>3, <4>4, <4>5
    <3> QED
      BY <3>2, <3>3
  <2> QED
    BY <2>1, <2>2
<1>5. w \in SocketRecord
  BY <1>4 DEF Base
<1>6. Calm(w, c)
  <2> PICK x : x = EndWritable(w)
    OBVIOUS
  <2>1. Calm(w, x) /\ x \in SocketRecord
    BY <1>5, EndWritableIsCalm, CalmType
  <2>2. Calm(x, [x EXCEPT !.onFinish = TRUE])
    BY <2>1, IdleFields
  <2>3. Calm(w, [x EXCEPT !.onFinish = TRUE])
    BY <1>5, <2>1, <2>2, CalmIsTransitive
  <2> QED
    BY <1>5, <2>3, CalmIsReflexive
<1>7. Base(c, b, e) /\ c.errored
  BY <1>4, <1>6, CalmKeepsBase, CalmFacts
<1>8. Orderly(a, b, p) /\ "lookup" \notin k.requests /\ "connect" \notin k.requests
        => Orderly(c, b, p)
  BY <1>1, <1>4, <1>6, CalmKeepsOrderly
<1>9. ~Pending("readStart", k, b) => ~Pending("readStart", c, b)
  <2>1. Waits("readStart", c.ticks) => Waits("readStart", w.ticks)
    BY <1>6, CalmFacts
  <2> QED
    BY <1>1, <1>4, <2>1 DEF Pending
<1>10. m = ReadyToWrite(c)
  BY DEF EmitError
<1>11. /\ Base(m, b, e)
       /\ Orderly(c, b, p) /\ ~e.late /\ ~Pending("readStart", c, b) => Orderly(m, b, p)
  BY <1>7, <1>10, ReadyToWriteKeeps
<1> QED
  BY ONLY <1>3, <1>8, <1>9, <1>11

-----------------------------------------------------------------------------
(* What no function but those of connect() changes: whether the socket is  *)
(* connected and has a handle, and whether it is about to start to read.   *)

Steady(k, m) ==
  /\ m \in SocketRecord /\ m.connected = k.connected
  /\ m.handle = "none" <=> k.handle = "none"
  /\ Waits("readStart", m.ticks) => Waits("readStart", k.ticks)

\* A request is there.
LEMMA Requested ==
    ASSUME NEW k \in SocketRecord, NEW r \in NetRequests, NEW m,
           m = [k EXCEPT !.requests = k.requests \union {r}]
    PROVE  /\ m \in SocketRecord /\ m.requests = k.requests \union {r}
           /\ m.handle = k.handle /\ m.destroyed = k.destroyed /\ m.connected = k.connected
           /\ m.errored = k.errored /\ m.ready = k.ready /\ m.buffer = k.buffer
           /\ m.writing = k.writing /\ m.ending = k.ending /\ m.ended = k.ended
           /\ m.onFinish = k.onFinish /\ m.rbuffer = k.rbuffer /\ m.eof = k.eof
           /\ m.reading = k.reading /\ m.ticks = k.ticks /\ m.owned = k.owned
           /\ m.server = k.server /\ m.thrown = k.thrown /\ m.timer = k.timer
BY DEF SocketRecord

LEMMA CalmIsSteady ==
    ASSUME NEW k, NEW m, Calm(k, m)
    PROVE  Steady(k, m)
BY CalmFacts, CalmType DEF Steady

LEMMA EmitFinishIsSteady ==
    ASSUME NEW k \in SocketRecord
    PROVE  Steady(k, EmitFinish(k))
<1>1. CASE k.ended
  BY <1>1 DEF EmitFinish, Steady
<1>2. CASE ~k.ended
  <2> PICK a : a = [k EXCEPT !.ended = TRUE, !.onFinish = FALSE]
    OBVIOUS
  <2>1. a.connected = k.connected /\ a.handle = k.handle /\ a.ticks = k.ticks
    BY DEF SocketRecord
  <2>2. Steady(a, EmitFinish(k))
    BY <1>2, EmitFinishIsCalm, CalmIsSteady
  <2> QED
    BY <2>1, <2>2 DEF Steady
<1> QED
  BY <1>1, <1>2

LEMMA DoWriteIsSteady ==
    ASSUME NEW k \in SocketRecord, NEW m, m = DoWrite(k)
    PROVE  Steady(k, m)
<1> PICK w : w = [k EXCEPT !.writing = TRUE]
  OBVIOUS
<1>1. w \in SocketRecord /\ w.connected = k.connected /\ w.handle = k.handle /\ w.ticks = k.ticks
  BY DEF SocketRecord
<1>2. CASE k.errored
  <2>1. m = Later(w, "afterWrite") /\ "afterWrite" \in TickNames
    BY <1>2 DEF DoWrite, TickNames
  <2>2. /\ m \in SocketRecord /\ Alike(w, m)
        /\ \A u : Waits(u, m.ticks) <=> Waits(u, w.ticks) \/ u = "afterWrite"
    BY ONLY <1>1, <2>1, LaterAdds
  <2> QED
    BY <1>1, <2>2 DEF Steady, Alike
<1>3. CASE ~k.errored /\ ~IsOpen(k)
  <2>1. m = [w EXCEPT !.thrown = TRUE]
    BY <1>3 DEF DoWrite
  <2>2. m \in SocketRecord /\ m.connected = w.connected /\ m.handle = w.handle /\ m.ticks = w.ticks
    BY ONLY <1>1, <2>1 DEF SocketRecord
  <2> QED
    BY <1>1, <2>2 DEF Steady
<1>4. CASE ~k.errored /\ IsOpen(k)
  <2> PICK r : r = ResetSocketTimeout(w)
    OBVIOUS
  <2>1. r \in SocketRecord /\ r.connected = w.connected /\ r.handle = w.handle /\ r.ticks = w.ticks
    BY <1>1, ResetMatches DEF Match
  <2>2. m = [r EXCEPT !.requests = r.requests \union {"write"}]
    BY <1>4, <2>1 DEF DoWrite, SocketRecord
  <2>3. "write" \in NetRequests
    BY DEF NetRequests
  <2>4. m \in SocketRecord /\ m.connected = r.connected /\ m.handle = r.handle /\ m.ticks = r.ticks
    BY ONLY <2>1, <2>2, <2>3, Requested
  <2> QED
    BY <1>1, <2>1, <2>4 DEF Steady
<1> QED
  BY <1>2, <1>3, <1>4

LEMMA WriteOrBufferIsSteady ==
    ASSUME NEW k \in SocketRecord, NEW m, m = WriteOrBuffer(k)
    PROVE  Steady(k, m)
<1>1. CASE ~k.ready \/ k.writing \/ k.buffer > 0
  <2>1. m = [k EXCEPT !.buffer = k.buffer + 1] /\ k.buffer + 1 \in Nat
    BY <1>1 DEF WriteOrBuffer, SocketRecord
  <2> QED
    BY <2>1, BufferChanges DEF Steady
<1>2. CASE ~(~k.ready \/ k.writing \/ k.buffer > 0)
  BY <1>2, DoWriteIsSteady DEF WriteOrBuffer
<1> QED
  BY <1>1, <1>2

LEMMA DoWriteKeepsEnding ==
    ASSUME NEW k \in SocketRecord
    PROVE  DoWrite(k).ending = k.ending
<1> PICK w : w = [k EXCEPT !.writing = TRUE]
  OBVIOUS
<1>1. w \in SocketRecord /\ w.ending = k.ending
  BY DEF SocketRecord
<1>2. Later(w, "afterWrite").ending = w.ending
  BY <1>1 DEF Later, SocketRecord
<1>3. [w EXCEPT !.thrown = TRUE].ending = w.ending
  BY <1>1 DEF SocketRecord
<1> PICK r : r = ResetSocketTimeout(w)
  OBVIOUS
<1>4. r \in SocketRecord /\ r.ending = w.ending
  BY <1>1, ResetMatches DEF Match
<1>5. [r EXCEPT !.requests = @ \union {"write"}].ending = r.ending
  BY <1>4 DEF SocketRecord
<1> QED
  BY <1>1, <1>2, <1>3, <1>4, <1>5 DEF DoWrite

LEMMA WriteOrBufferKeepsEnding ==
    ASSUME NEW k \in SocketRecord
    PROVE  WriteOrBuffer(k).ending = k.ending
<1>1. [k EXCEPT !.buffer = @ + 1].ending = k.ending
  BY DEF SocketRecord
<1> QED
  BY <1>1, DoWriteKeepsEnding DEF WriteOrBuffer

LEMMA WriteBufferedIsSteady ==
    ASSUME NEW k \in SocketRecord, NEW m, m = WriteBuffered(k)
    PROVE  Steady(k, m)
<1>1. CASE k.writing \/ (~(k.buffer > 0) /\ ~k.ending)
  BY <1>1 DEF WriteBuffered, Steady
<1>2. CASE ~k.writing /\ k.buffer > 0
  <2> PICK n : n = k.buffer - 1
    OBVIOUS
  <2> PICK a : a = [k EXCEPT !.buffer = n]
    OBVIOUS
  <2>1. m = DoWrite(a) /\ n \in Nat
    BY <1>2, ServerFields DEF WriteBuffered, SocketRecord
  <2>2. a \in SocketRecord /\ a.connected = k.connected /\ a.handle = k.handle /\ a.ticks = k.ticks
    BY <2>1, BufferChanges
  <2> QED
    BY <2>1, <2>2, DoWriteIsSteady DEF Steady
<1>3. CASE ~k.writing /\ ~(k.buffer > 0) /\ k.ending
  BY <1>3, EmitFinishIsSteady DEF WriteBuffered
<1> QED
  BY <1>1, <1>2, <1>3

LEMMA ReadyToWriteIsSteady ==
    ASSUME NEW k \in SocketRecord, NEW m, m = ReadyToWrite(k)
    PROVE  Steady(k, m)
<1> PICK a : a = [k EXCEPT !.ready = TRUE]
  OBVIOUS
<1>1. a \in SocketRecord /\ a.connected = k.connected /\ a.handle = k.handle /\ a.ticks = k.ticks
  BY DEF SocketRecord
<1>2. Steady(a, m)
  BY <1>1, WriteBufferedIsSteady DEF ReadyToWrite
<1> QED
  BY <1>1, <1>2 DEF Steady

LEMMA OnWriteIsSteady ==
    ASSUME NEW k \in SocketRecord, NEW m, m = OnWrite(k)
    PROVE  Steady(k, m)
<1> PICK a : a = [k EXCEPT !.writing = FALSE]
  OBVIOUS
<1>1. a \in SocketRecord /\ a.connected = k.connected /\ a.handle = k.handle /\ a.ticks = k.ticks
  BY DEF SocketRecord
<1>2. Steady(a, m)
  BY <1>1, WriteBufferedIsSteady DEF OnWrite
<1> QED
  BY <1>1, <1>2 DEF Steady

LEMMA EmitErrorIsSteady ==
    ASSUME NEW k \in SocketRecord, NEW m, m = EmitError(k)
    PROVE  Steady(k, m)
<1> PICK a : a = [k EXCEPT !.errored = TRUE]
  OBVIOUS
<1> PICK w : w = IF a.ended THEN a ELSE WriteOrBuffer(a)
  OBVIOUS
<1> PICK c : c = IF k.ending THEN w ELSE [EndWritable(w) EXCEPT !.onFinish = TRUE]
  OBVIOUS
<1>1. a \in SocketRecord /\ a.connected = k.connected /\ a.handle = k.handle /\ a.ticks = k.ticks
  BY DEF SocketRecord
<1>2. Steady(a, w)
  <2>1. CASE a.ended
    BY <1>1, <2>1 DEF Steady
  <2>2. CASE ~a.ended
    BY <1>1, <2>2, WriteOrBufferIsSteady
  <2> QED
    BY <2>1, <2>2
<1>3. Steady(w, c)
  <2> PICK x : x = EndWritable(w)
    OBVIOUS
  <2>0. w \in SocketRecord
    BY <1>2 DEF Steady
  <2>1. Calm(w, x) /\ x \in SocketRecord
    BY <2>0, EndWritableIsCalm, CalmType
  <2>2. Calm(x, [x EXCEPT !.onFinish = TRUE])
    BY <2>1, IdleFields
  <2>3. Steady(w, x) /\ Steady(x, [x EXCEPT !.onFinish = TRUE])
    BY <2>1, <2>2, CalmIsSteady
  <2> QED
    BY <2>0, <2>3 DEF Steady
<1>4. m = ReadyToWrite(c)
  BY DEF EmitError
<1>5. Steady(c, m)
  BY ONLY <1>3, <1>4, ReadyToWriteIsSteady DEF Steady
<1> QED
  BY <1>1, <1>2, <1>3, <1>5 DEF Steady

-----------------------------------------------------------------------------
(* The answers to connect().                                               *)

\* onSocketConnect(): the tick that starts to read comes before any 'finish'.
LEMMA OnSocketConnectKeeps ==
    ASSUME NEW k, NEW b, NEW p, NEW e \in History, Base(k, b, e), IsOpen(k),
           "lookup" \notin k.requests, "connect" \notin k.requests,
           NEW m, m = OnSocketConnect(k)
    PROVE  /\ Base(m, b, e) /\ m.handle # "none"
           /\ Orderly(k, b, p) /\ ~e.late /\ ~Pending("readStart", k, b) /\ ~k.errored
                /\ ~k.ended /\ (k.ending => k.buffer > 0)
              => Orderly(m, b, p)
<1> PICK a : a = [k EXCEPT !.connecting = FALSE, !.connected = TRUE]
  OBVIOUS
<1> PICK r : r = ResetSocketTimeout(a)
  OBVIOUS
<1> PICK w : w = ReadyToWrite(r)
  OBVIOUS
<1>0. k \in SocketRecord /\ k.buffer \in Nat
  BY ServerFields DEF Base
<1>1. /\ a \in SocketRecord /\ a.handle = k.handle /\ a.destroyed = k.destroyed
      /\ a.connected /\ a.errored = k.errored /\ a.ready = k.ready
      /\ a.ending = k.ending /\ a.ended = k.ended /\ a.onFinish = k.onFinish
      /\ a.rbuffer = k.rbuffer /\ a.eof = k.eof /\ a.reading = k.reading
      /\ a.ticks = k.ticks /\ a.owned = k.owned /\ a.server = k.server
      /\ a.thrown = k.thrown /\ a.requests = k.requests /\ a.timer = k.timer
      /\ a.buffer = k.buffer /\ a.writing = k.writing
  BY <1>0 DEF SocketRecord
<1>2. Base(a, b, e)
  <2>1. Fits(a) /\ TicksFit(a, b)
    BY <1>1 DEF Base, Fits, TicksFit, Pending, IsOpen
  <2>2. Served(a, b, e) /\ Written(a, b, e.late)
    BY <1>1 DEF Base, Served, Written, Pending
  <2> QED
    BY <1>1, <2>1, <2>2 DEF Base
<1>3. Orderly(k, b, p) => Orderly(a, b, p)
  BY <1>1 DEF Orderly, Pending, Now, IsOpen
<1>4. Match(a, r) /\ r.requests = a.requests
  BY <1>1, ResetMatches
<1>5. Base(r, b, e) /\ (Orderly(a, b, p) => Orderly(r, b, p))
  BY <1>2, <1>4, MatchKeeps
<1>6. /\ r.connected /\ r.errored = k.errored /\ r.ending = k.ending /\ r.ended = k.ended
      /\ r.buffer = k.buffer /\ r.ticks = k.ticks /\ r.handle = k.handle /\ r \in SocketRecord
      /\ r.requests = k.requests
  BY ONLY <1>1, <1>4 DEF Match
<1>7. /\ Base(w, b, e)
      /\ Orderly(r, b, p) /\ ~e.late /\ ~Pending("readStart", r, b) => Orderly(w, b, p)
      /\ ~r.errored /\ (r.ending => r.buffer > 0) => Kept(r, w)
  BY ONLY <1>5, <1>6, w = ReadyToWrite(r), e \in History, ReadyToWriteKeeps
<1>8. Steady(r, w)
  BY ONLY <1>6, w = ReadyToWrite(r), ReadyToWriteIsSteady
<1>9. m = Later(w, "readStart") /\ "readStart" \in TickNames
  BY DEF OnSocketConnect, TickNames
<1>10. /\ m \in SocketRecord /\ Alike(w, m)
       /\ \A u : Waits(u, m.ticks) <=> Waits(u, w.ticks) \/ u = "readStart"
       /\ StartsFirst(w.ticks) /\ ~Waits("finish", w.ticks) => StartsFirst(m.ticks)
  BY ONLY <1>8, <1>9, LaterAdds DEF Steady
<1>11. m.connected /\ m.handle # "none"
  BY <1>6, <1>8, <1>10 DEF Alike, Steady, IsOpen
<1>12. Base(m, b, e)
  <2>1. Fits(m)
    BY <1>7, <1>10 DEF Alike, Base, Fits
  <2>2. TicksFit(m, b)
    BY <1>7, <1>10, <1>11 DEF Alike, Base, TicksFit, Pending
  <2>3. Served(m, b, e) /\ Written(m, b, e.late)
    BY <1>7, <1>10 DEF Alike, Base, Served, Written, Pending
  <2> QED
    BY <1>10, <2>1, <2>2, <2>3 DEF Base
<1>13. ASSUME Orderly(k, b, p), ~e.late, ~Pending("readStart", k, b), ~k.errored,
              ~k.ended, k.ending => k.buffer > 0
       PROVE  Orderly(m, b, p)
  <2>1. ~Pending("readStart", r, b) /\ Orderly(r, b, p)
    BY <1>3, <1>5, <1>6, <1>13 DEF Pending
  <2>2. Orderly(w, b, p) /\ Kept(r, w)
    BY <1>6, <1>7, <1>13, <2>1
  <2>3. ~Pending("finish", k, b)
    BY <1>0, <1>13 DEF Base, TicksFit, Written
  <2>4. ~Waits("finish", w.ticks) /\ ~w.ended /\ ~w.errored /\ IsOpen(w)
    BY <1>6, <1>13, <2>2, <2>3 DEF Kept, Pending, IsOpen
  <2>5. "lookup" \notin w.requests /\ "connect" \notin w.requests
    BY <1>6, <2>2 DEF Kept
  <2>6. StartsFirst(w.ticks) /\ StartsFirst(b) /\ ~w.thrown
    BY <2>2 DEF Orderly
  <2>7. "lookup" \notin m.requests /\ "connect" \notin m.requests
    BY <1>10, <2>5 DEF Alike
  <2>8. ~m.ended /\ ~m.errored /\ IsOpen(m) /\ StartsFirst(m.ticks) /\ ~m.thrown
    BY <1>10, <2>4, <2>6 DEF Alike, IsOpen
  <2> QED
    BY <2>6, <2>7, <2>8 DEF Orderly
<1> QED
  BY ONLY <1>11, <1>12, <1>13

\* afterConnect(), when the request is gone.
LEMMA AfterConnectKeeps ==
    ASSUME NEW k, NEW b, NEW p, NEW e \in History, Base(k, b, e),
           "lookup" \notin k.requests, "connect" \notin k.requests, k.handle # "none",
           NEW ok \in BOOLEAN, ok => IsOpen(k),
           NEW m, m = AfterConnect(k, ok)
    PROVE  /\ Base(m, b, e) /\ m.handle # "none"
           /\ Orderly(k, b, p) /\ ~e.late /\ ~Pending("readStart", k, b) /\ ~k.errored
                /\ (k.destroyed \/ ~k.ending \/ (~k.ended /\ k.buffer > 0))
              => Orderly(m, b, p)
<1> PICK c : c = [k EXCEPT !.connecting = FALSE]
  OBVIOUS
<1>0. k \in SocketRecord
  BY DEF Base
<1>1. Match(k, c) /\ c.requests = k.requests
  BY <1>0 DEF Match, SocketRecord
<1>2. Base(c, b, e) /\ (Orderly(k, b, p) => Orderly(c, b, p))
  BY <1>1, MatchKeeps
<1>3. /\ c \in SocketRecord /\ c.destroyed = k.destroyed /\ c.handle = k.handle
      /\ c.ticks = k.ticks /\ c.errored = k.errored /\ c.ending = k.ending /\ c.ended = k.ended
      /\ c.buffer = k.buffer
  BY <1>1 DEF Match
<1>4. Pending("readStart", c, b) <=> Pending("readStart", k, b)
  BY <1>3 DEF Pending
<1>5. CASE k.destroyed
  <2>1. m = c
    BY <1>5 DEF AfterConnect
  <2> QED
    BY ONLY <1>2, <1>3, <2>1, k.handle # "none"
<1>6. CASE ~k.destroyed /\ ok
  <2>1. m = OnSocketConnect(c)
    BY <1>6 DEF AfterConnect
  <2>2. IsOpen(c) /\ "lookup" \notin c.requests /\ "connect" \notin c.requests
    BY <1>1, <1>3, <1>6 DEF IsOpen
  <2>3. /\ Base(m, b, e) /\ m.handle # "none"
        /\ Orderly(c, b, p) /\ ~e.late /\ ~Pending("readStart", c, b) /\ ~c.errored
                /\ ~c.ended /\ (c.ending => c.buffer > 0)
              => Orderly(m, b, p)
    BY ONLY <1>2, <2>1, <2>2, e \in History, OnSocketConnectKeeps
  <2>4. c.ended => c.ending
    BY <1>2 DEF Base, Fits
  <2> QED
    BY ONLY <1>2, <1>3, <1>4, <1>6, <2>3, <2>4
<1>7. CASE ~k.destroyed /\ ~ok
  <2> PICK d : d = Destroy(c)
    OBVIOUS
  <2>1. m = EmitError(d)
    BY <1>7 DEF AfterConnect
  <2>2. Calm(c, d)
    BY <1>3, DestroyIsCalm
  <2>3. /\ d \in SocketRecord
        /\ Waits("readStart", d.ticks) => Waits("readStart", c.ticks)
        /\ c.handle = "none" <=> d.handle = "none"
        /\ "lookup" \notin d.requests /\ "connect" \notin d.requests
    <3>1. \A r \in {"lookup", "connect", "write"} : r \in d.requests <=> r \in c.requests
      BY ONLY <2>2 DEF Calm
    <3> QED
      BY ONLY <1>1, <2>2, <3>1, "lookup" \notin k.requests, "connect" \notin k.requests,
              CalmFacts, CalmType
  <2>4. Base(d, b, e)
    BY <1>2, <2>2, CalmKeepsBase
  <2>5. Orderly(c, b, p) => Orderly(d, b, p)
    BY <1>1, <1>2, <2>2, CalmKeepsOrderly
  <2>6. /\ Base(m, b, e)
        /\ Orderly(d, b, p) /\ ~e.late /\ ~Pending("readStart", d, b)
             /\ "lookup" \notin d.requests /\ "connect" \notin d.requests
           => Orderly(m, b, p)
    BY ONLY <2>1, <2>4, e \in History, EmitErrorKeeps
  <2>7. Steady(d, m)
    BY <2>1, <2>3, EmitErrorIsSteady
  <2>8. Pending("readStart", d, b) => Pending("readStart", c, b)
    BY <2>3 DEF Pending
  <2>9. m.handle # "none"
    BY <1>3, <2>3, <2>7 DEF Steady
  <2> QED
    BY ONLY <1>2, <1>4, <2>3, <2>5, <2>6, <2>8, <2>9
<1> QED
  BY <1>5, <1>6, <1>7

\* A request is gone.
LEMMA WithoutMatches ==
    ASSUME NEW k \in SocketRecord, NEW r, NEW m, m = [k EXCEPT !.requests = k.requests \ {r}]
    PROVE  Match(k, m) /\ m.requests = k.requests \ {r}
BY DEF Match, SocketRecord

\* An exception ends the process.
LEMMA ThrownKeepsBase ==
    ASSUME NEW k, NEW b, NEW e, Base(k, b, e), NEW m, m = [k EXCEPT !.thrown = TRUE]
    PROVE  Base(m, b, e) /\ m.handle = k.handle /\ m.ticks = k.ticks
<1>0. k \in SocketRecord
  BY DEF Base
<1>1. /\ m \in SocketRecord /\ m.handle = k.handle /\ m.destroyed = k.destroyed
      /\ m.connected = k.connected /\ m.errored = k.errored /\ m.ready = k.ready
      /\ m.ending = k.ending /\ m.ended = k.ended
      /\ m.rbuffer = k.rbuffer /\ m.eof = k.eof /\ m.reading = k.reading
      /\ m.ticks = k.ticks /\ m.owned = k.owned /\ m.server = k.server
      /\ m.requests = k.requests /\ m.timer = k.timer
      /\ m.buffer = k.buffer /\ m.writing = k.writing
  BY <1>0 DEF SocketRecord
<1>2. Fits(m) /\ TicksFit(m, b)
  BY <1>1 DEF Base, Fits, TicksFit, Pending
<1>3. Served(m, b, e) /\ Written(m, b, e.late)
  BY <1>1 DEF Base, Served, Written, Pending
<1> QED
  BY <1>1, <1>2, <1>3 DEF Base

\* What lets connect() go on: a 'finish' that was asked for comes in this turn.
MayConnect(k) ==
  /\ IsOpen(k) /\ ~k.connected /\ ~k.errored
  /\ \/ ~k.ending
     \/ ~k.ended /\ k.buffer > 0
     \/ ~k.ended /\ k.onFinish /\ Waits("finish", k.ticks)

\* connect(socket, ip, port).
LEMMA ConnectToKeeps ==
    ASSUME NEW k, NEW b, NEW e \in History, Base(k, b, e),
           "lookup" \notin k.requests, "connect" \notin k.requests, k.handle # "none",
           ~Pending("lookupError", k, b), NEW accepted \in BOOLEAN,
           NEW m, m = ConnectTo(k, accepted)
    PROVE  /\ Base(m, b, e) /\ m.handle # "none"
           /\ Waits("readStart", m.ticks) => Waits("readStart", k.ticks)
           /\ Orderly(k, b, "callback") /\ ~e.late /\ MayConnect(k)
                => Orderly(m, b, "callback")
<1>0. k \in SocketRecord
  BY DEF Base
<1>1. CASE ~IsOpen(k)
  <2>1. m = [k EXCEPT !.thrown = TRUE]
    BY <1>1 DEF ConnectTo
  <2>2. Base(m, b, e) /\ m.handle = k.handle /\ m.ticks = k.ticks
    BY ONLY <2>1, Base(k, b, e), ThrownKeepsBase
  <2> QED
    BY <1>1, <2>2 DEF MayConnect
<1>2. CASE IsOpen(k) /\ accepted
  <2>1. m = [k EXCEPT !.requests = k.requests \union {"connect"}] /\ "connect" \in NetRequests
    BY <1>0, <1>2 DEF ConnectTo, NetRequests, SocketRecord
  <2>2. /\ m \in SocketRecord /\ m.requests = k.requests \union {"connect"}
        /\ m.handle = k.handle /\ m.destroyed = k.destroyed /\ m.connected = k.connected
        /\ m.errored = k.errored /\ m.ready = k.ready /\ m.buffer = k.buffer
        /\ m.writing = k.writing /\ m.ending = k.ending /\ m.ended = k.ended
        /\ m.onFinish = k.onFinish /\ m.rbuffer = k.rbuffer /\ m.eof = k.eof
        /\ m.reading = k.reading /\ m.ticks = k.ticks /\ m.owned = k.owned
        /\ m.server = k.server /\ m.thrown = k.thrown /\ m.timer = k.timer
    BY ONLY <1>0, <2>1, Requested
  <2>3. "lookup" \notin m.requests /\ ("write" \in m.requests <=> "write" \in k.requests)
    BY <2>2
  <2>4. Fits(m)
    BY <2>2, <2>3 DEF Base, Fits
  <2>5. TicksFit(m, b)
    BY <2>2 DEF Base, TicksFit, Pending
  <2>6. Served(m, b, e) /\ Written(m, b, e.late)
    BY <2>2 DEF Base, Served, Written, Pending
  <2>7. Base(m, b, e)
    BY <2>2, <2>4, <2>5, <2>6 DEF Base
  <2>8. ASSUME Orderly(k, b, "callback"), MayConnect(k)
        PROVE  Orderly(m, b, "callback")
    BY <2>2, <2>3, <2>8 DEF Orderly, MayConnect, Pending, Now, IsOpen
  <2> QED
    BY <2>2, <2>7, <2>8
<1>3. CASE IsOpen(k) /\ ~accepted
  <2>1. m = EmitError(k)
    BY <1>3 DEF ConnectTo
  <2>2. Steady(k, m)
    BY <1>0, <2>1, EmitErrorIsSteady
  <2>3. /\ Base(m, b, e)
        /\ Orderly(k, b, "callback") /\ ~e.late /\ ~Pending("readStart", k, b)
             /\ "lookup" \notin k.requests /\ "connect" \notin k.requests
           => Orderly(m, b, "callback")
    BY ONLY <2>1, Base(k, b, e), e \in History, EmitErrorKeeps
  <2>4. MayConnect(k) => ~Pending("readStart", k, b)
    BY DEF MayConnect, Base, TicksFit
  <2> QED
    BY <2>2, <2>3, <2>4 DEF Steady
<1> QED
  BY <1>1, <1>2, <1>3

\* What follows dns.lookup().
LEMMA AfterLookupKeeps ==
    ASSUME NEW k, NEW b, NEW e \in History, Base(k, b, e),
           "lookup" \notin k.requests, "connect" \notin k.requests, k.handle # "none",
           ~Pending("lookupError", k, b), NEW err \in BOOLEAN, NEW accepted \in BOOLEAN,
           NEW m, m = AfterLookup(k, err, accepted)
    PROVE  /\ Base(m, b, e) /\ m.handle # "none"
           /\ Waits("readStart", m.ticks) => Waits("readStart", k.ticks)
           /\ Orderly(k, b, "callback") /\ ~e.late /\ MayConnect(k)
                => Orderly(m, b, "callback")
<1>0. k \in SocketRecord
  BY DEF Base
<1>1. CASE err
  <2>1. m = Later(k, "lookupError") /\ "lookupError" \in TickNames
    BY <1>1 DEF AfterLookup, TickNames
  <2>2. /\ m \in SocketRecord /\ Alike(k, m)
        /\ \A u : Waits(u, m.ticks) <=> Waits(u, k.ticks) \/ u = "lookupError"
        /\ StartsFirst(k.ticks) => StartsFirst(m.ticks)
    BY ONLY <1>0, <2>1, LaterAdds
  <2>3. /\ Waits("readStart", m.ticks) <=> Waits("readStart", k.ticks)
        /\ Waits("finish", m.ticks) <=> Waits("finish", k.ticks)
        /\ Waits("afterWrite", m.ticks) <=> Waits("afterWrite", k.ticks)
        /\ Waits("serverClose", m.ticks) <=> Waits("serverClose", k.ticks)
    BY <2>2
  <2>4. Fits(m)
    BY <2>2 DEF Alike, Base, Fits
  <2>5. TicksFit(m, b)
    BY <2>2, <2>3 DEF Alike, Base, TicksFit, Pending
  <2>6. Served(m, b, e) /\ Written(m, b, e.late)
    BY <2>2, <2>3 DEF Alike, Base, Served, Written, Pending
  <2>7. Base(m, b, e)
    BY <2>2, <2>4, <2>5, <2>6 DEF Base
  <2>8. ASSUME Orderly(k, b, "callback")
        PROVE  Orderly(m, b, "callback")
    BY <2>2, <2>3, <2>8 DEF Alike, Orderly, Pending, IsOpen
  <2>9. m.handle = k.handle
    BY <2>2 DEF Alike
  <2> QED
    BY <2>3, <2>7, <2>8, <2>9
<1>2. CASE ~err
  <2> PICK r : r = ResetSocketTimeout(k)
    OBVIOUS
  <2>1. m = ConnectTo(r, accepted)
    BY <1>2 DEF AfterLookup
  <2>2. Match(k, r) /\ r.requests = k.requests
    BY <1>0, ResetMatches
  <2>3. Base(r, b, e) /\ (Orderly(k, b, "callback") => Orderly(r, b, "callback"))
    BY <2>2, MatchKeeps
  <2>4. /\ "lookup" \notin r.requests /\ "connect" \notin r.requests /\ r.handle # "none"
        /\ ~Pending("lookupError", r, b) /\ (MayConnect(k) => MayConnect(r))
        /\ r.ticks = k.ticks
    BY <2>2 DEF Match, MayConnect, Pending, IsOpen
  <2>5. /\ Base(m, b, e) /\ m.handle # "none"
        /\ Waits("readStart", m.ticks) => Waits("readStart", r.ticks)
        /\ Orderly(r, b, "callback") /\ ~e.late /\ MayConnect(r) => Orderly(m, b, "callback")
    BY ONLY <2>1, <2>3, <2>4, e \in History, accepted \in BOOLEAN, ConnectToKeeps
  <2> QED
    BY ONLY <2>3, <2>4, <2>5
<1> QED
  BY <1>1, <1>2

\* onread() at the end of the data.
LEMMA OnReadEofKeeps ==
    ASSUME NEW k, NEW b, NEW p, NEW e \in History, Base(k, b, e), k.connected,
           NEW m, m = OnReadEof(k)
    PROVE  Base(m, b, e) /\ Steady(k, m) /\ (Orderly(k, b, p) => Orderly(m, b, p))
<1> PICK t : t = ResetSocketTimeout(k)
  OBVIOUS
<1> PICK r : r = [t EXCEPT !.eof = TRUE, !.reading = FALSE]
  OBVIOUS
<1>0. k \in SocketRecord
  BY DEF Base
<1>1. Match(k, t) /\ t.requests = k.requests
  BY <1>0, ResetMatches
<1>2. Base(t, b, e) /\ (Orderly(k, b, p) => Orderly(t, b, p))
  BY <1>1, MatchKeeps
<1>3. /\ t \in SocketRecord /\ t.handle = k.handle /\ t.connected = k.connected
      /\ t.ticks = k.ticks
  BY <1>1 DEF Match
<1>4. /\ r \in SocketRecord /\ r.handle = t.handle /\ r.destroyed = t.destroyed
      /\ r.connected = t.connected /\ r.errored = t.errored /\ r.ready = t.ready
      /\ r.ending = t.ending /\ r.ended = t.ended /\ r.onFinish = t.onFinish
      /\ r.rbuffer = t.rbuffer /\ ~r.reading
      /\ r.ticks = t.ticks /\ r.owned = t.owned /\ r.server = t.server
      /\ r.requests = t.requests /\ r.timer = t.timer /\ r.thrown = t.thrown
      /\ r.buffer = t.buffer /\ r.writing = t.writing
  BY ONLY <1>3, r = [t EXCEPT !.eof = TRUE, !.reading = FALSE] DEF SocketRecord
<1>5. Base(r, b, e)
  <2>1. Fits(r)
    BY <1>2, <1>3, <1>4 DEF Base, Fits
  <2>2. TicksFit(r, b)
    BY <1>2, <1>4 DEF Base, TicksFit, Pending
  <2>3. Served(r, b, e) /\ Written(r, b, e.late)
    BY <1>2, <1>4 DEF Base, Served, Written, Pending
  <2> QED
    BY <1>4, <2>1, <2>2, <2>3 DEF Base
<1>6. Orderly(t, b, p) => Orderly(r, b, p)
  BY <1>4 DEF Orderly, Pending, Now, IsOpen
<1>7. Calm(r, m)
  <2>1. CASE r.rbuffer
    <3>1. m = r
      BY <2>1 DEF OnReadEof
    <3> QED
      BY <1>4, <3>1, CalmIsReflexive
  <2>2. CASE ~r.rbuffer
    <3> PICK x : x = OnSocketEnd(r)
      OBVIOUS
    <3> PICK y : y = [x EXCEPT !.readable = FALSE]
      OBVIOUS
    <3>1. m = MaybeDestroy(y)
      BY <2>2 DEF OnReadEof
    <3>2. Calm(r, x) /\ x \in SocketRecord
      BY <1>4, OnSocketEndIsCalm, CalmType
    <3>3. Calm(x, y) /\ y \in SocketRecord
      BY <3>2, IdleFields, CalmType
    <3>4. Calm(y, m)
      BY <3>1, <3>3, MaybeDestroyIsCalm
    <3> QED
      BY ONLY <1>4, <3>2, <3>3, <3>4, CalmIsTransitive
  <2> QED
    BY <2>1, <2>2
<1>8. Base(m, b, e) /\ Steady(r, m)
  BY <1>5, <1>7, CalmKeepsBase, CalmIsSteady
<1>9. Orderly(r, b, p) => Orderly(m, b, p)
  BY <1>3, <1>4, <1>5, <1>7, CalmKeepsOrderly
<1> QED
  BY <1>2, <1>3, <1>4, <1>6, <1>8, <1>9 DEF Steady

-----------------------------------------------------------------------------
(* The steps.                                                              *)

\* The counters and the history of the user's calls.
LEMMA HistoryKeeps ==
    ASSUME NEW k, NEW b, NEW e, Base(k, b, e), NEW f, f.others = e.others, f.serves = e.serves,
           e.late => f.late, e.again => f.again
    PROVE  Base(k, b, f)
BY DEF Base, Written, Served

\* When the loop is idle no tick runs, and a callback starts from an orderly socket.
LEMMA IdleFacts ==
    ASSUME NetInv, phase = "idle"
    PROVE  /\ s \in SocketRecord /\ Base(s, <<>>, env) /\ env \in History
           /\ ~Pending("readStart", s, <<>>)
           /\ env.early \/ env.late \/ Orderly(s, <<>>, "callback")
<1>1. batch = <<>>
  BY DEF NetInv
<1>2. Base(s, <<>>, env) /\ s \in SocketRecord /\ env \in History
  BY <1>1 DEF NetInv, Sound, Base
<1>3. ~Pending("readStart", s, <<>>)
  BY NothingWaits DEF NetInv, Pending
<1>4. Orderly(s, <<>>, "idle") => Orderly(s, <<>>, "callback")
  BY DEF Orderly
<1> QED
  BY <1>1, <1>2, <1>3, <1>4 DEF NetInv, Sound

\* What a callback has to leave.
LEMMA CallbackKeeps ==
    ASSUME NetInv, phase = "idle", phase' = "callback", batch' = batch, env' \in History,
           Base(s', <<>>, env'), s'.handle = "none" <=> ~env'.asked,
           s'.handle = "none" /\ ~env'.early => ~s'.ending /\ ~s'.errored,
           env'.early \/ env'.late \/ Orderly(s', <<>>, "callback")
    PROVE  NetInv'
<1>1. batch = <<>> /\ batch' = <<>> /\ batch' \in Seq(TickNames)
  BY DEF NetInv
<1>2. Sound(s', batch', phase', env')
  BY <1>1 DEF Sound
<1> QED
  BY <1>1, <1>2 DEF NetInv

\* What a step of the user has to leave.
LEMMA UserKeeps ==
    ASSUME NetInv, phase' = phase, batch' = batch, env' \in History,
           Base(s', batch, env'), s'.handle = "none" <=> ~env'.asked,
           s'.handle = "none" /\ ~env'.early => ~s'.ending /\ ~s'.errored,
           Waits("readStart", s'.ticks) => Waits("readStart", s.ticks),
           env'.early \/ env'.late \/ Orderly(s', batch, phase)
    PROVE  NetInv'
<1>1. Sound(s', batch', phase', env')
  BY DEF Sound
<1> QED
  BY <1>1 DEF NetInv

LEMMA NetParts ==
    ASSUME NetInv
    PROVE  /\ s \in SocketRecord /\ Base(s, batch, env) /\ env \in History
           /\ env.early \/ env.late \/ Orderly(s, batch, phase)
           /\ s.handle = "none" <=> ~env.asked
           /\ s.handle = "none" /\ ~env.early => ~s.ending /\ ~s.errored
           /\ batch \in Seq(TickNames)
BY DEF NetInv, Sound, Base

\* A socket with a request for its connection or that is connected has a handle.
LEMMA HasHandle ==
    ASSUME NEW k, NEW b, NEW e, Base(k, b, e),
           \/ k.connected \/ "lookup" \in k.requests \/ "connect" \in k.requests
           \/ k.reading \/ k.rbuffer \/ k.eof \/ k.destroyed
    PROVE  k.handle # "none"
BY DEF Base, Fits

LEMMA SetTimeoutKeeps ==
    ASSUME NetInv, SetTimeout
    PROVE  NetInv'
<1> USE DEF SetTimeout
<1>1. PICK on \in BOOLEAN : s' = [s EXCEPT !.timer = on]
  OBVIOUS
<1>2. Match(s, s')
  BY ONLY NetParts, NetInv, <1>1, SetTimeout DEF Match, SocketRecord
<1>3. Base(s', batch, env) /\ (Orderly(s, batch, phase) => Orderly(s', batch, phase))
  BY <1>2, NetParts, MatchKeeps
<1>4. /\ s'.handle = s.handle /\ s'.ending = s.ending /\ s'.errored = s.errored
      /\ s'.ticks = s.ticks
  BY <1>2 DEF Match
<1> QED
  BY <1>3, <1>4, NetParts, UserKeeps

LEMMA EndKeeps ==
    ASSUME NetInv, NEW t, Calm(s, t), s' = t, phase' = phase, batch' = batch, env' \in History,
           env'.early = (env.early \/ ~s.connected), env'.late = env.late,
           env'.others = env.others, env'.serves = env.serves, env'.again = env.again,
           env'.asked = env.asked
    PROVE  NetInv'
<1>1. Steady(s, s')
  BY CalmIsSteady
<1>2. Base(s', batch, env')
  <2>1. Base(s', batch, env)
    BY NetParts, CalmKeepsBase
  <2> QED
    BY <2>1, HistoryKeeps
<1>3. env'.early \/ env'.late \/ Orderly(s', batch, phase)
  <2> SUFFICES ASSUME ~env'.early, ~env'.late
               PROVE  Orderly(s', batch, phase)
    OBVIOUS
  <2>1. Orderly(s, batch, phase) /\ s.connected
    BY NetParts
  <2> QED
    BY <2>1, NetParts, CalmKeepsOrderly
<1>4. s'.handle = "none" => env'.early
  <2>1. s.connected => s.handle # "none"
    BY NetParts, HasHandle
  <2> QED
    BY <1>1, <2>1 DEF Steady
<1>5. s'.handle = "none" <=> ~env'.asked
  BY <1>1, NetParts DEF Steady
<1> QED
  BY ONLY <1>1, <1>2, <1>3, <1>4, <1>5, NetInv, phase' = phase, batch' = batch, env' \in History,
          UserKeeps DEF Steady

LEMMA EndActionKeeps ==
    ASSUME NetInv, End
    PROVE  NetInv'
<1>1. Calm(s, SocketEnd(s))
  BY NetParts, SocketEndIsCalm
<1>2. env \in History /\ env' = [env EXCEPT !.early = env.early \/ ~s.connected]
  BY NetParts DEF End, History
<1>3. /\ env' \in History
      /\ env'.early = (env.early \/ ~s.connected) /\ env'.late = env.late
      /\ env'.others = env.others /\ env'.serves = env.serves /\ env'.again = env.again
      /\ env'.asked = env.asked
  BY ONLY <1>2 DEF History
<1> QED
  BY <1>1, <1>3, EndKeeps DEF End

LEMMA UserDestroyKeeps ==
    ASSUME NetInv, UserDestroy
    PROVE  NetInv'
<1>1. Calm(s, Destroy(s))
  BY NetParts, DestroyIsCalm
<1>2. /\ env \in History
      /\ env' = [env EXCEPT !.kill = env.kill \/ s.handle # "none",
                            !.early = env.early \/ ~s.connected]
  BY NetParts DEF UserDestroy, History
<1>3. /\ env' \in History
      /\ env'.early = (env.early \/ ~s.connected) /\ env'.late = env.late
      /\ env'.others = env.others /\ env'.serves = env.serves /\ env'.again = env.again
      /\ env'.asked = env.asked
  BY ONLY <1>2 DEF History
<1> QED
  BY <1>1, <1>3, EndKeeps DEF UserDestroy

LEMMA WriteKeeps ==
    ASSUME NetInv, Write
    PROVE  NetInv'
<1> PICK e : e = env'
  OBVIOUS
<1>1. s \in SocketRecord /\ ~s.ended /\ s' = WriteOrBuffer(s) /\ phase' = phase /\ batch' = batch
  BY NetParts DEF Write
<1>2. /\ env \in History /\ env.writes + 1 \in Nat /\ (env.late \/ s.ending) \in BOOLEAN
      /\ e = [env EXCEPT !.writes = env.writes + 1, !.late = env.late \/ s.ending]
  BY NetParts DEF Write, History
<1>3. /\ e \in History
      /\ e.late = (env.late \/ s.ending) /\ e.early = env.early
      /\ e.others = env.others /\ e.serves = env.serves /\ e.again = env.again
      /\ e.asked = env.asked
  BY ONLY <1>2 DEF History
<1>4. Base(s, batch, e)
  BY <1>3, NetParts, HistoryKeeps
<1>5. s.errored \/ e.late \/ (~s.ended /\ ~Pending("finish", s, batch))
  BY <1>1, <1>3, <1>4 DEF Base, TicksFit
<1>6. /\ Base(s', batch, e) /\ s'.errored = s.errored
      /\ Orderly(s, batch, phase) /\ (s.errored \/ ~s.ended) => Orderly(s', batch, phase)
  <2>1. e \in History /\ s' = WriteOrBuffer(s)
    BY <1>1, <1>3
  <2> QED
    BY ONLY <1>4, <1>5, <2>1, WriteOrBufferKeeps
<1>7. Steady(s, s') /\ s'.ending = s.ending
  BY <1>1, WriteOrBufferIsSteady, WriteOrBufferKeepsEnding
<1>8. e.early \/ e.late \/ Orderly(s', batch, phase)
  BY <1>1, <1>3, <1>6, NetParts
<1>9. env' = e
  OBVIOUS
<1> QED
  BY ONLY <1>1, <1>3, <1>6, <1>7, <1>8, <1>9, NetInv, NetParts, UserKeeps DEF Steady

\* connect(): the socket had no handle, so nothing waits for it.
LEMMA ConnectKeeps ==
    ASSUME NetInv, Connect
    PROVE  NetInv'
<1>1. PICK refused \in BOOLEAN :
        /\ s' = GetAddrInfo([ResetSocketTimeout(s) EXCEPT !.handle = "open",
                                                          !.connecting = TRUE], refused)
        /\ env' = [env EXCEPT !.asked = TRUE, !.dropped = refused]
  BY DEF Connect
<1> PICK r : r = ResetSocketTimeout(s)
  OBVIOUS
<1> PICK a : a = [r EXCEPT !.handle = "open", !.connecting = TRUE]
  OBVIOUS
<1> PICK e : e = env'
  OBVIOUS
<1>2. ~env.asked /\ ~s.connected /\ phase' = phase /\ batch' = batch
  BY DEF Connect
<1>3. env \in History /\ refused \in BOOLEAN /\ e = [env EXCEPT !.asked = TRUE, !.dropped = refused]
  BY <1>1, NetParts
<1>4. /\ e \in History /\ e.asked
      /\ e.late = env.late /\ e.early = env.early
      /\ e.others = env.others /\ e.serves = env.serves /\ e.again = env.again
  BY ONLY <1>3 DEF History
<1>5. s \in SocketRecord /\ s.handle = "none"
  BY <1>2, NetParts
<1>6. Match(s, r) /\ r.requests = s.requests
  BY <1>5, ResetMatches
<1>7. r \in SocketRecord /\ r.handle = "none" /\ ~r.connected /\ r.ticks = s.ticks
      /\ r.ending = s.ending /\ r.errored = s.errored
  BY <1>2, <1>5, <1>6 DEF Match
<1>8. Base(r, batch, e)
  BY <1>4, <1>6, NetParts, HistoryKeeps, MatchKeeps
<1>9. /\ a \in SocketRecord /\ a.handle = "open" /\ a.destroyed = r.destroyed
      /\ a.connected = r.connected /\ a.errored = r.errored /\ a.ready = r.ready
      /\ a.ending = r.ending /\ a.ended = r.ended /\ a.onFinish = r.onFinish
      /\ a.rbuffer = r.rbuffer /\ a.eof = r.eof /\ a.reading = r.reading
      /\ a.ticks = r.ticks /\ a.owned = r.owned /\ a.server = r.server
      /\ a.requests = r.requests /\ a.timer = r.timer /\ a.thrown = r.thrown
      /\ a.buffer = r.buffer /\ a.writing = r.writing
  BY ONLY <1>7, a = [r EXCEPT !.handle = "open", !.connecting = TRUE] DEF SocketRecord
<1>10. /\ "lookup" \notin r.requests /\ "connect" \notin r.requests /\ ~r.destroyed
       /\ ~Pending("lookupError", r, batch) /\ ~Pending("readStart", r, batch)
  BY <1>7, <1>8 DEF Base, Fits, TicksFit
<1>11. CASE refused
  <2>1. s' = a
    BY <1>1, <1>11 DEF GetAddrInfo
  <2>2. Base(a, batch, e)
    <3>1. Fits(a)
      BY <1>8, <1>9, <1>10 DEF Base, Fits
    <3>2. TicksFit(a, batch)
      BY <1>8, <1>9, <1>10 DEF Base, TicksFit, Pending
    <3>3. Written(a, batch, e.late) /\ Served(a, batch, e)
      BY <1>8, <1>9 DEF Base, Written, Served, Pending
    <3> QED
      BY <1>9, <3>1, <3>2, <3>3 DEF Base
  <2>3. Orderly(s, batch, phase) => Orderly(a, batch, phase)
    <3>1. Orderly(s, batch, phase) => Orderly(r, batch, phase)
      BY <1>6, MatchKeeps
    <3>2. Orderly(r, batch, phase) => Orderly(a, batch, phase)
      BY <1>9, <1>10 DEF Orderly, Pending
    <3> QED
      BY <3>1, <3>2
  <2>4. e.early \/ e.late \/ Orderly(s', batch, phase)
    BY <1>4, <2>1, <2>3, NetParts
  <2>5. /\ env' = e /\ s'.handle # "none" /\ s'.ticks = s.ticks /\ Base(s', batch, e)
    BY <1>7, <1>9, <2>1, <2>2
  <2> QED
    BY ONLY <1>2, <1>4, <2>4, <2>5, NetInv, UserKeeps
<1>12. CASE ~refused
  <2> PICK m : m = s'
    OBVIOUS
  <2>1. m = [a EXCEPT !.requests = a.requests \union {"lookup"}] /\ "lookup" \in NetRequests
    BY <1>1, <1>9, <1>12 DEF GetAddrInfo, NetRequests, SocketRecord
  <2>2. /\ m \in SocketRecord /\ m.requests = a.requests \union {"lookup"}
        /\ m.handle = a.handle /\ m.destroyed = a.destroyed /\ m.connected = a.connected
        /\ m.errored = a.errored /\ m.ready = a.ready /\ m.buffer = a.buffer
        /\ m.writing = a.writing /\ m.ending = a.ending /\ m.ended = a.ended
        /\ m.onFinish = a.onFinish /\ m.rbuffer = a.rbuffer /\ m.eof = a.eof
        /\ m.reading = a.reading /\ m.ticks = a.ticks /\ m.owned = a.owned
        /\ m.server = a.server /\ m.thrown = a.thrown /\ m.timer = a.timer
    BY ONLY <1>9, <2>1, Requested
  <2>3. "connect" \notin m.requests /\ ("write" \in m.requests <=> "write" \in r.requests)
    BY <1>9, <1>10, <2>2
  <2>4. Base(m, batch, e)
    <3>1. Fits(m)
      BY <1>8, <1>9, <1>10, <2>2, <2>3 DEF Base, Fits
    <3>2. TicksFit(m, batch)
      BY <1>8, <1>9, <1>10, <2>2 DEF Base, TicksFit, Pending
    <3>3. Written(m, batch, e.late) /\ Served(m, batch, e)
      BY <1>8, <1>9, <2>2 DEF Base, Written, Served, Pending
    <3> QED
      BY <2>2, <3>1, <3>2, <3>3 DEF Base
  <2>5. ASSUME ~e.early, ~e.late
        PROVE  Orderly(m, batch, phase)
    <3>1. Orderly(r, batch, phase)
      BY <1>4, <1>6, <2>5, NetParts, MatchKeeps
    <3>2. ~m.ending /\ ~m.connected /\ ~m.errored
      BY <1>4, <1>5, <1>7, <1>9, <2>2, <2>5, NetParts
    <3> QED
      BY <1>9, <1>10, <2>2, <2>3, <3>1, <3>2 DEF Orderly, Pending
  <2>6. env' = e /\ s' = m /\ m.handle # "none" /\ m.ticks = s.ticks
    BY <1>7, <1>9, <2>2
  <2> QED
    BY ONLY <1>2, <1>4, <2>4, <2>5, <2>6, NetInv, UserKeeps
<1> QED
  BY <1>11, <1>12

\* read() or resume().
LEMMA UserReadKeeps ==
    ASSUME NetInv, UserRead
    PROVE  NetInv'
<1> PICK r : r = [s EXCEPT !.rbuffer = FALSE]
  OBVIOUS
<1>1. s \in SocketRecord /\ s.rbuffer /\ phase' = phase /\ batch' = batch /\ env' = env
  BY NetParts DEF UserRead
<1>2. s' = IF s.eof THEN OnSocketEnd(r) ELSE r
  BY DEF UserRead
<1>3. /\ r \in SocketRecord /\ r.handle = s.handle /\ r.destroyed = s.destroyed
      /\ r.connected = s.connected /\ r.errored = s.errored /\ r.ready = s.ready
      /\ r.ending = s.ending /\ r.ended = s.ended /\ r.onFinish = s.onFinish
      /\ ~r.rbuffer /\ r.eof = s.eof /\ r.reading = s.reading
      /\ r.ticks = s.ticks /\ r.owned = s.owned /\ r.server = s.server
      /\ r.requests = s.requests /\ r.timer = s.timer /\ r.thrown = s.thrown
      /\ r.buffer = s.buffer /\ r.writing = s.writing
  BY ONLY <1>1, r = [s EXCEPT !.rbuffer = FALSE] DEF SocketRecord
<1>4. Base(r, batch, env)
  <2>0. Base(s, batch, env)
    BY NetParts
  <2>1. Fits(r) /\ TicksFit(r, batch)
    BY <1>3, <2>0 DEF Base, Fits, TicksFit, Pending
  <2>2. Written(r, batch, env.late) /\ Served(r, batch, env)
    BY <1>3, <2>0 DEF Base, Written, Served, Pending
  <2> QED
    BY <1>3, <2>1, <2>2 DEF Base
<1>5. Orderly(s, batch, phase) => Orderly(r, batch, phase)
  BY <1>3 DEF Orderly, Pending, Now, IsOpen
<1>6. Calm(r, s')
  BY <1>2, <1>3, OnSocketEndIsCalm, CalmIsReflexive
<1>7. s.connected /\ s.handle # "none"
  BY <1>1, NetParts, HasHandle DEF Base, Fits
<1>8. Base(s', batch, env) /\ Steady(r, s')
  BY <1>4, <1>6, NetParts, CalmKeepsBase, CalmIsSteady
<1>9. Orderly(r, batch, phase) => Orderly(s', batch, phase)
  BY <1>3, <1>4, <1>6, <1>7, NetParts, CalmKeepsOrderly
<1>10. s'.handle # "none" /\ (Waits("readStart", s'.ticks) => Waits("readStart", s.ticks))
  BY <1>3, <1>7, <1>8 DEF Steady
<1>11. env.early \/ env.late \/ Orderly(s', batch, phase)
  BY <1>5, <1>9, NetParts
<1> QED
  BY ONLY <1>1, <1>7, <1>8, <1>10, <1>11, NetInv, NetParts, UserKeeps

\* The server of the socket changes.
LEMMA ServerChanges ==
    ASSUME NEW k, NEW b, NEW p, NEW e \in History, Base(k, b, e), NEW v \in ServerRecord,
           NEW m, m = [k EXCEPT !.server = v], NEW f \in History,
           f.late = e.late, f.serves = e.serves,
           v.count = f.others + (IF k.owned THEN 1 ELSE 0),
           v.told \/ Pending("serverClose", k, b) => f.again \/ (v.count = 0 /\ v.handle = "none")
    PROVE  /\ Base(m, b, f) /\ (Orderly(k, b, p) => Orderly(m, b, p))
           /\ m.handle = k.handle /\ m.ending = k.ending /\ m.errored = k.errored
           /\ m.ticks = k.ticks
<1>0. k \in SocketRecord
  BY DEF Base
<1>1. /\ m \in SocketRecord /\ m.handle = k.handle /\ m.destroyed = k.destroyed
      /\ m.connected = k.connected /\ m.errored = k.errored /\ m.ready = k.ready
      /\ m.ending = k.ending /\ m.ended = k.ended /\ m.onFinish = k.onFinish
      /\ m.rbuffer = k.rbuffer /\ m.eof = k.eof /\ m.reading = k.reading
      /\ m.ticks = k.ticks /\ m.owned = k.owned /\ m.server = v
      /\ m.requests = k.requests /\ m.timer = k.timer /\ m.thrown = k.thrown
      /\ m.buffer = k.buffer /\ m.writing = k.writing
  BY <1>0 DEF SocketRecord
<1>2. Fits(m) /\ TicksFit(m, b)
  BY <1>1 DEF Base, Fits, TicksFit, Pending
<1>3. Written(m, b, f.late)
  BY <1>1 DEF Base, Written, Pending
<1>4. Served(m, b, f)
  BY <1>1 DEF Base, Served, Pending
<1>5. Orderly(k, b, p) => Orderly(m, b, p)
  BY <1>1 DEF Orderly, Pending, Now, IsOpen
<1> QED
  BY <1>1, <1>2, <1>3, <1>4, <1>5 DEF Base

\* _emitCloseIfDrained().
LEMMA DrainedIsCalm ==
    ASSUME NEW k \in SocketRecord, NEW m, m = EmitCloseIfDrained(k)
    PROVE  Calm(k, m) /\ m.ending = k.ending /\ m.handle = k.handle /\ m.errored = k.errored
<1>1. /\ m \in SocketRecord /\ Alike(k, m)
      /\ \A u : Waits(u, k.ticks) => Waits(u, m.ticks)
      /\ \A u : Waits(u, m.ticks) => Waits(u, k.ticks) \/ u = "serverClose"
      /\ Waits("serverClose", m.ticks) => \/ Waits("serverClose", k.ticks)
                                          \/ k.server.count <= 0 /\ k.server.handle = "none"
      /\ StartsFirst(k.ticks) => StartsFirst(m.ticks)
  BY DrainedKeeps
<1>2. Untouched(k, m) /\ Stays(k, m)
  BY <1>1 DEF Alike, Untouched, Stays
<1>3. Ticked(k, m)
  BY <1>1 DEF Alike, Ticked
<1>4. m.requests = k.requests /\ m.ending = k.ending /\ m.onFinish = k.onFinish
  BY <1>1 DEF Alike
<1> QED
  BY <1>1, <1>2, <1>3, <1>4 DEF Calm, Alike

\* listen() of the server.
LEMMA ListenKeeps ==
    ASSUME NetInv, Listen
    PROVE  NetInv'
<1> PICK e : e = env'
  OBVIOUS
<1>1. /\ s \in SocketRecord /\ phase' = phase /\ batch' = batch
      /\ \E ok \in BOOLEAN : s' = [s EXCEPT !.server.handle = IF ok THEN "open" ELSE "failed"]
  BY NetParts DEF Listen, ServerCall, Bind, TcpListen
<1>2. PICK h \in {"open", "failed"} : s' = [s EXCEPT !.server.handle = h]
  BY <1>1
<1> PICK v : v = [s.server EXCEPT !.handle = h]
  OBVIOUS
<1>3. s.server \in ServerRecord
  BY <1>1, ServerFields
<1>4. v \in ServerRecord /\ v.count = s.server.count /\ v.told = s.server.told
  BY <1>3 DEF ServerRecord
<1>5. s' = [s EXCEPT !.server = v]
  BY <1>1, <1>2 DEF SocketRecord
<1>6. /\ env \in History /\ env.calls + 1 \in Nat
      /\ e = [env EXCEPT !.calls = env.calls + 1, !.again = TRUE]
  BY NetParts DEF Listen, History
<1>7. /\ e \in History /\ e.again /\ e.late = env.late /\ e.early = env.early
      /\ e.others = env.others /\ e.serves = env.serves /\ e.asked = env.asked
  BY ONLY <1>6 DEF History
<1>8. Base(s, batch, env)
  BY NetParts
<1>9. v.count = e.others + (IF s.owned THEN 1 ELSE 0)
  BY <1>4, <1>7, <1>8 DEF Base, Served
<1>10. /\ Base(s', batch, e) /\ (Orderly(s, batch, phase) => Orderly(s', batch, phase))
       /\ s'.handle = s.handle /\ s'.ending = s.ending /\ s'.errored = s.errored
       /\ s'.ticks = s.ticks
  <2> PICK a : a = s'
    OBVIOUS
  <2>1. a = [s EXCEPT !.server = v] /\ v \in ServerRecord
    BY <1>4, <1>5
  <2>2. /\ e \in History /\ env \in History /\ e.late = env.late /\ e.serves = env.serves
        /\ e.again
    BY <1>6, <1>7
  <2>3. /\ Base(a, batch, e) /\ (Orderly(s, batch, phase) => Orderly(a, batch, phase))
        /\ a.handle = s.handle /\ a.ending = s.ending /\ a.errored = s.errored
        /\ a.ticks = s.ticks
    BY ONLY <1>8, <1>9, <2>1, <2>2, ServerChanges
  <2> QED
    BY <2>3
<1>11. env' = e
  OBVIOUS
<1> QED
  BY ONLY <1>1, <1>7, <1>10, <1>11, NetInv, NetParts, UserKeeps

\* close() of the server.
LEMMA ServerCloseKeeps ==
    ASSUME NetInv, ServerClose
    PROVE  NetInv'
<1> PICK e : e = env'
  OBVIOUS
<1> PICK v : v = [s.server EXCEPT !.handle = "none", !.told = FALSE]
  OBVIOUS
<1> PICK a : a = [s EXCEPT !.server = v]
  OBVIOUS
<1>1. s \in SocketRecord /\ phase' = phase /\ batch' = batch /\ s.server \in ServerRecord
  BY NetParts, ServerFields DEF ServerClose, ServerCall
<1>2. v \in ServerRecord /\ v.count = s.server.count /\ ~v.told /\ v.handle = "none"
  BY <1>1 DEF ServerRecord
<1>3. a = [s EXCEPT !.server.handle = "none", !.server.told = FALSE]
  BY <1>1 DEF SocketRecord
<1>4. s' = EmitCloseIfDrained(a)
  BY <1>3 DEF ServerClose
<1>5. env \in History /\ env.calls + 1 \in Nat /\ e = [env EXCEPT !.calls = env.calls + 1]
  BY NetParts DEF ServerClose, History
<1>6. /\ e \in History /\ e.again = env.again /\ e.late = env.late /\ e.early = env.early
      /\ e.others = env.others /\ e.serves = env.serves /\ e.asked = env.asked
  BY ONLY <1>5 DEF History
<1>7. Base(s, batch, env)
  BY NetParts
<1>8. /\ v.count = e.others + (IF s.owned THEN 1 ELSE 0)
      /\ v.told \/ Pending("serverClose", s, batch) => e.again \/ (v.count = 0 /\ v.handle = "none")
  BY <1>2, <1>6, <1>7 DEF Base, Served
<1>9. /\ Base(a, batch, e) /\ (Orderly(s, batch, phase) => Orderly(a, batch, phase))
      /\ a.handle = s.handle /\ a.ending = s.ending /\ a.errored = s.errored
      /\ a.ticks = s.ticks
  <2>1. a = [s EXCEPT !.server = v]
    OBVIOUS
  <2>2. e \in History /\ env \in History /\ e.late = env.late /\ e.serves = env.serves
    BY <1>5, <1>6
  <2>3. v \in ServerRecord
    BY <1>2
  <2> QED
    BY ONLY <1>7, <1>8, <2>1, <2>2, <2>3, ServerChanges
<1>10. /\ a \in SocketRecord /\ Calm(a, s') /\ s'.ending = a.ending /\ s'.handle = a.handle
       /\ s'.errored = a.errored
  BY <1>4, <1>9, DrainedIsCalm DEF Base
<1>11. Base(s', batch, e) /\ Steady(a, s') /\ (Orderly(a, batch, phase) => Orderly(s', batch, phase))
  BY <1>6, <1>9, <1>10, CalmKeepsBase, CalmIsSteady, CalmKeepsOrderly
<1>12. env' = e
  OBVIOUS
<1> QED
  BY ONLY <1>1, <1>6, <1>9, <1>10, <1>11, <1>12, NetInv, NetParts, UserKeeps DEF Steady

\* close() of another socket of the server.
LEMMA OtherClosesKeeps ==
    ASSUME NetInv, OtherCloses
    PROVE  NetInv'
<1> PICK e : e = env'
  OBVIOUS
<1> PICK v : v = [s.server EXCEPT !.count = s.server.count - 1]
  OBVIOUS
<1> PICK a : a = [s EXCEPT !.server = v]
  OBVIOUS
<1>1. s \in SocketRecord /\ phase' = phase /\ batch' = batch /\ s.server \in ServerRecord
  BY NetParts, ServerFields DEF OtherCloses
<1>2. s.server.count \in Int
  BY <1>1, ServerFields
<1>3. v \in ServerRecord /\ v.count = s.server.count - 1 /\ v.told = s.server.told
  BY <1>1, <1>2 DEF ServerRecord
<1>4. s' = EmitCloseIfDrained(a)
  BY <1>1 DEF OtherCloses, SocketRecord, ServerRecord
<1>5. /\ env \in History /\ env.others \in Nat /\ env.others > 0 /\ env.others - 1 \in Nat
      /\ e = [env EXCEPT !.others = env.others - 1]
  BY NetParts DEF OtherCloses, History
<1>6. /\ e \in History /\ e.again = env.again /\ e.late = env.late /\ e.early = env.early
      /\ e.others = env.others - 1 /\ e.serves = env.serves /\ e.asked = env.asked
  BY ONLY <1>5 DEF History
<1>7. Base(s, batch, env)
  BY NetParts
<1>8. /\ v.count = e.others + (IF s.owned THEN 1 ELSE 0)
      /\ v.told \/ Pending("serverClose", s, batch) => e.again
  <2>1. s.server.count = env.others + (IF s.owned THEN 1 ELSE 0)
    BY <1>7 DEF Base, Served
  <2>2. s.server.count # 0
    BY <1>5, <2>1
  <2>3. s.server.told \/ Pending("serverClose", s, batch) => env.again
    BY <1>7, <2>2 DEF Base, Served
  <2>4. v.count = e.others + (IF s.owned THEN 1 ELSE 0)
    BY <1>2, <1>3, <1>5, <1>6, <2>1
  <2> QED
    BY <1>3, <1>6, <2>3, <2>4
<1>9. /\ Base(a, batch, e) /\ (Orderly(s, batch, phase) => Orderly(a, batch, phase))
      /\ a.handle = s.handle /\ a.ending = s.ending /\ a.errored = s.errored
      /\ a.ticks = s.ticks
  <2>1. a = [s EXCEPT !.server = v]
    OBVIOUS
  <2>2. e \in History /\ env \in History /\ e.late = env.late /\ e.serves = env.serves
    BY <1>5, <1>6
  <2>3. v \in ServerRecord
    BY <1>3
  <2> QED
    BY ONLY <1>7, <1>8, <2>1, <2>2, <2>3, ServerChanges
<1>10. /\ a \in SocketRecord /\ Calm(a, s') /\ s'.ending = a.ending /\ s'.handle = a.handle
       /\ s'.errored = a.errored
  BY <1>4, <1>9, DrainedIsCalm DEF Base
<1>11. Base(s', batch, e) /\ Steady(a, s') /\ (Orderly(a, batch, phase) => Orderly(s', batch, phase))
  BY <1>6, <1>9, <1>10, CalmKeepsBase, CalmIsSteady, CalmKeepsOrderly
<1>12. env' = e
  OBVIOUS
<1> QED
  BY ONLY <1>1, <1>6, <1>9, <1>10, <1>11, <1>12, NetInv, NetParts, UserKeeps DEF Steady

\* The server accepts another connection.
LEMMA OnConnectionKeeps ==
    ASSUME NetInv, OnConnection
    PROVE  NetInv'
<1> PICK e : e = env'
  OBVIOUS
<1> PICK v : v = [s.server EXCEPT !.count = s.server.count + 1]
  OBVIOUS
<1>0. /\ s.server.handle = "open" /\ phase = "idle" /\ phase' = "callback" /\ batch' = batch
      /\ s' = [s EXCEPT !.server.count = @ + 1]
  BY DEF OnConnection, Callback
<1>1. s \in SocketRecord /\ s.server \in ServerRecord /\ s.server.count \in Int
  BY NetParts, ServerFields
<1>2. /\ v \in ServerRecord /\ v.count = s.server.count + 1 /\ v.told = s.server.told
      /\ v.handle = s.server.handle
  BY <1>1 DEF ServerRecord
<1>3. s' = [s EXCEPT !.server = v]
  BY <1>0, <1>1 DEF SocketRecord, ServerRecord
<1>4. /\ env \in History /\ env.others \in Nat /\ env.others + 1 \in Nat
      /\ e = [env EXCEPT !.others = env.others + 1]
  BY NetParts DEF OnConnection, History
<1>5. /\ e \in History /\ e.again = env.again /\ e.late = env.late /\ e.early = env.early
      /\ e.others = env.others + 1 /\ e.serves = env.serves /\ e.asked = env.asked
  BY ONLY <1>4 DEF History
<1>6. Base(s, <<>>, env)
  BY <1>0, IdleFacts
<1>7. v.told \/ Pending("serverClose", s, <<>>) => e.again
  BY <1>0, <1>2, <1>5, <1>6 DEF Base, Served
<1>8. v.count = e.others + (IF s.owned THEN 1 ELSE 0)
  <2>1. s.server.count = env.others + (IF s.owned THEN 1 ELSE 0)
    BY <1>6 DEF Base, Served
  <2> QED
    BY <1>1, <1>2, <1>4, <1>5, <2>1
<1>9. /\ Base(s', <<>>, e) /\ (Orderly(s, <<>>, "callback") => Orderly(s', <<>>, "callback"))
      /\ s'.handle = s.handle /\ s'.ending = s.ending /\ s'.errored = s.errored
  <2> PICK a : a = s'
    OBVIOUS
  <2>1. e \in History /\ env \in History /\ e.late = env.late /\ e.serves = env.serves
    BY <1>4, <1>5
  <2>2. v \in ServerRecord /\ a = [s EXCEPT !.server = v]
    BY <1>2, <1>3
  <2> PICK b : b = <<>>
    OBVIOUS
  <2>3. Base(s, b, env) /\ (v.told \/ Pending("serverClose", s, b) => e.again)
    BY <1>6, <1>7
  <2>4. /\ Base(a, b, e) /\ (Orderly(s, b, "callback") => Orderly(a, b, "callback"))
        /\ a.handle = s.handle /\ a.ending = s.ending /\ a.errored = s.errored
    BY ONLY <1>8, <2>1, <2>2, <2>3, ServerChanges
  <2> QED
    BY <2>4
<1>10. env' = e
  OBVIOUS
<1> QED
  BY ONLY <1>0, <1>5, <1>9, <1>10, NetInv, NetParts, IdleFacts, CallbackKeeps

\* The ticks that wait become the batch that runs.
LEMMA TicksBegin ==
    ASSUME NEW k, NEW e, Base(k, <<>>, e), NEW m, m = [k EXCEPT !.ticks = <<>>]
    PROVE  /\ Base(m, k.ticks, e) /\ (Orderly(k, <<>>, "callback") => Orderly(m, k.ticks, "ticks"))
           /\ m.handle = k.handle /\ m.ending = k.ending /\ m.errored = k.errored
           /\ ~Waits("readStart", m.ticks) /\ k.ticks \in Seq(TickNames)
<1>0. k \in SocketRecord
  BY DEF Base
<1> PICK q : q = <<>>
  OBVIOUS
<1>00. q \in Seq(TickNames) /\ m = [k EXCEPT !.ticks = q]
  OBVIOUS
<1>1. /\ m \in SocketRecord /\ m.handle = k.handle /\ m.destroyed = k.destroyed
      /\ m.connected = k.connected /\ m.errored = k.errored /\ m.ready = k.ready
      /\ m.ending = k.ending /\ m.ended = k.ended /\ m.onFinish = k.onFinish
      /\ m.rbuffer = k.rbuffer /\ m.eof = k.eof /\ m.reading = k.reading
      /\ m.owned = k.owned /\ m.server = k.server
      /\ m.requests = k.requests /\ m.timer = k.timer /\ m.thrown = k.thrown
      /\ m.buffer = k.buffer /\ m.writing = k.writing /\ m.ticks = q
  BY ONLY <1>0, <1>00 DEF SocketRecord
<1>2. \A u : ~Waits(u, m.ticks)
  BY <1>1, NothingWaits
<1>3. /\ Pending("finish", m, k.ticks) <=> Pending("finish", k, <<>>)
      /\ Pending("afterWrite", m, k.ticks) <=> Pending("afterWrite", k, <<>>)
      /\ Pending("lookupError", m, k.ticks) <=> Pending("lookupError", k, <<>>)
      /\ Pending("readStart", m, k.ticks) <=> Pending("readStart", k, <<>>)
      /\ Pending("serverClose", m, k.ticks) <=> Pending("serverClose", k, <<>>)
  BY <1>2, NothingWaits DEF Pending
<1>4. Fits(m) /\ TicksFit(m, k.ticks)
  BY <1>1, <1>3 DEF Base, Fits, TicksFit
<1>5. Written(m, k.ticks, e.late) /\ Served(m, k.ticks, e)
  BY <1>1, <1>3 DEF Base, Written, Served
<1>6. ASSUME Orderly(k, <<>>, "callback")
      PROVE  Orderly(m, k.ticks, "ticks")
  <2>1. StartsFirst(m.ticks) /\ StartsFirst(k.ticks)
    BY <1>1, <1>6, NothingWaits DEF Orderly
  <2> QED
    BY <1>1, <1>3, <1>6, <2>1 DEF Orderly, Now, IsOpen
<1> QED
  BY <1>0, <1>1, <1>2, <1>4, <1>5, <1>6, ServerFields DEF Base

LEMMA BeginKeeps ==
    ASSUME NetInv, phase \in {"callback", "idle"}, phase' = "ticks", batch' = s.ticks,
           s' = [s EXCEPT !.ticks = <<>>], env' = env
    PROVE  NetInv'
<1>1. /\ Base(s, <<>>, env)
      /\ env.early \/ env.late \/ Orderly(s, <<>>, "callback")
  <2>1. CASE phase = "callback"
    <3>1. batch = <<>>
      BY <2>1 DEF NetInv
    <3> QED
      BY <2>1, <3>1, NetParts
  <2>2. CASE phase = "idle"
    BY <2>2, IdleFacts
  <2> QED
    BY <2>1, <2>2
<1>2. /\ Base(s', s.ticks, env) /\ (Orderly(s, <<>>, "callback") => Orderly(s', s.ticks, "ticks"))
      /\ s'.handle = s.handle /\ s'.ending = s.ending /\ s'.errored = s.errored
      /\ ~Waits("readStart", s'.ticks) /\ s.ticks \in Seq(TickNames)
  BY <1>1, TicksBegin
<1>3. Sound(s', batch', phase', env')
  BY <1>1, <1>2 DEF Sound
<1> QED
  BY <1>2, <1>3, NetParts DEF NetInv

LEMMA BeginTicksKeeps ==
    ASSUME NetInv, BeginTicks \/ LoopTicks
    PROVE  NetInv'
BY BeginKeeps DEF BeginTicks, LoopTicks

\* The turn is over.
LEMMA EndTurnKeeps ==
    ASSUME NetInv, EndTurn
    PROVE  NetInv'
<1>1. /\ phase = "ticks" /\ batch = <<>> /\ phase' = "idle" /\ s' = s /\ batch' = batch
      /\ env' = env
  BY DEF EndTurn
<1>2. Orderly(s, batch, phase) => Orderly(s, batch, "idle")
  BY <1>1, NothingWaits DEF Orderly, Now
<1>3. ~Waits("readStart", s.ticks)
  BY <1>1 DEF NetInv
<1>4. Sound(s', batch', phase', env')
  BY <1>1, <1>2, NetParts DEF Sound
<1> QED
  BY <1>1, <1>3, <1>4 DEF NetInv

\* A callback, or a timer, begins.
LEMMA WakeKeeps ==
    ASSUME NetInv, OtherEvent \/ OnTimeout
    PROVE  NetInv'
<1>1. /\ phase = "idle" /\ phase' \in {"callback", "timeout"} /\ s' = s /\ batch' = batch
      /\ env' = env
  BY DEF OtherEvent, OnTimeout
<1>2. Orderly(s, batch, phase) => Orderly(s, batch, phase')
  BY <1>1 DEF Orderly
<1>3. ~Waits("readStart", s.ticks) /\ batch = <<>>
  BY <1>1 DEF NetInv
<1>4. Sound(s', batch', phase', env')
  BY <1>1, <1>2, NetParts DEF Sound
<1> QED
  BY <1>1, <1>3, <1>4 DEF NetInv

\* The listeners of 'timeout' are through.
LEMMA AfterTimeoutKeeps ==
    ASSUME NetInv, AfterTimeout
    PROVE  NetInv'
<1>1. /\ phase = "timeout" /\ phase' = "callback" /\ s' = [s EXCEPT !.timer = FALSE]
      /\ batch' = batch /\ env' = env /\ s \in SocketRecord
  BY NetParts DEF AfterTimeout
<1>2. Match(s, s')
  BY ONLY <1>1 DEF Match, SocketRecord
<1>3. Base(s', batch, env) /\ (Orderly(s, batch, phase) => Orderly(s', batch, phase))
  BY <1>2, NetParts, MatchKeeps
<1>4. /\ s'.handle = s.handle /\ s'.ending = s.ending /\ s'.errored = s.errored
      /\ s'.ticks = s.ticks
  BY <1>2 DEF Match
<1>5. Orderly(s', batch, phase) => Orderly(s', batch, phase')
  BY <1>1 DEF Orderly, Now
<1>6. Sound(s', batch', phase', env')
  BY <1>1, <1>3, <1>5, NetParts DEF Sound
<1> QED
  BY <1>1, <1>4, <1>6 DEF NetInv

-----------------------------------------------------------------------------
(* The ticks.                                                              *)

\* The batch without its first tick.
LEMMA TickTaken ==
    ASSUME NEW k, NEW b \in Seq(TickNames), b # <<>>, NEW e, Base(k, b, e)
    PROVE  /\ Base(k, Tail(b), e)
           /\ Orderly(k, b, "ticks") /\ Head(b) # "finish" => Orderly(k, Tail(b), "ticks")
<1>1. /\ \A u : Waits(u, Tail(b)) => Waits(u, b)
      /\ \A u : Waits(u, b) => Waits(u, Tail(b)) \/ u = Head(b)
      /\ StartsFirst(b) => StartsFirst(Tail(b))
  BY FirstTaken
<1>2. TicksFit(k, Tail(b))
  BY <1>1 DEF Base, TicksFit, Pending
<1>3. Written(k, Tail(b), e.late) /\ Served(k, Tail(b), e)
  BY <1>1 DEF Base, Written, Served, Pending
<1>4. Orderly(k, b, "ticks") /\ Head(b) # "finish" => Orderly(k, Tail(b), "ticks")
  BY <1>1 DEF Orderly, Now, Pending
<1> QED
  BY <1>2, <1>3, <1>4 DEF Base

\* What a tick has to leave.
LEMMA TickKeeps ==
    ASSUME NetInv, phase = "ticks", phase' = phase, batch # <<>>, batch' = Tail(batch),
           env' \in History, env'.late = env.late, env'.early = env.early,
           env'.others = env.others, env'.serves = env.serves, env'.again = env.again,
           env'.asked = env.asked,
           Base(s', Tail(batch), env), Steady(s, s'),
           s.handle = "none" /\ ~env.early => ~s'.ending /\ ~s'.errored,
           env.early \/ env.late \/ Orderly(s', Tail(batch), "ticks")
    PROVE  NetInv'
<1>1. Tail(batch) \in Seq(TickNames)
  BY NetParts, FirstTaken
<1>2. Base(s', Tail(batch), env')
  BY HistoryKeeps
<1>3. Sound(s', batch', phase', env')
  BY <1>2 DEF Sound
<1>4. ~Waits("readStart", s.ticks)
  BY DEF NetInv
<1> QED
  BY <1>1, <1>3, <1>4, NetParts DEF NetInv, Steady

\* 'finish': a socket that waits for its connection was destroyed, and closes.
LEMMA FinishTickKeeps ==
    ASSUME NEW k, NEW b \in Seq(TickNames), b # <<>>, Head(b) = "finish",
           NEW e \in History, Base(k, b, e), ~Waits("readStart", k.ticks),
           NEW m, m = EmitFinish(k)
    PROVE  /\ Base(m, Tail(b), e) /\ Steady(k, m) /\ k.ending
           /\ Orderly(k, b, "ticks") /\ ~e.late => Orderly(m, Tail(b), "ticks")
<1>0. k \in SocketRecord /\ k.buffer \in Nat
  BY ServerFields DEF Base
<1>1. /\ Waits("finish", b) /\ (StartsFirst(b) => ~Waits("readStart", b))
      /\ (StartsFirst(b) => StartsFirst(Tail(b)))
      /\ Waits("readStart", Tail(b)) => Waits("readStart", b)
  BY FirstTaken
<1>2. k.ending /\ (k.errored \/ e.late \/ (k.buffer = 0 /\ ~k.writing))
  BY <1>1 DEF Base, TicksFit, Written, Pending
<1>3. Base(k, Tail(b), e)
  BY TickTaken
<1>4. Base(m, Tail(b), e) /\ Steady(k, m)
  BY <1>0, <1>2, <1>3, EmitFinishKeepsBase, EmitFinishIsSteady
<1>5. ASSUME Orderly(k, b, "ticks"), ~e.late
      PROVE  Orderly(m, Tail(b), "ticks")
  <2>1. /\ ~Pending("readStart", k, Tail(b)) /\ StartsFirst(k.ticks) /\ StartsFirst(Tail(b))
        /\ ~k.thrown /\ "lookup" \notin k.requests
    BY <1>1, <1>2, <1>5 DEF Orderly, Pending
  <2>2. CASE k.ended
    <3>1. m = k
      BY <2>2 DEF EmitFinish
    <3>2. "connect" \in k.requests => ~k.connected /\ ~k.errored /\ k.destroyed
      BY <1>2, <1>5, <2>2 DEF Orderly
    <3> QED
      BY <2>1, <3>1, <3>2 DEF Orderly
  <2>3. CASE ~k.ended
    <3>1. ~k.destroyed
      BY <2>3 DEF Base, Fits
    <3>2. "connect" \in k.requests => ~k.connected /\ ~k.errored /\ k.onFinish
      BY <1>0, <1>2, <1>5, <3>1 DEF Orderly
    <3> QED
      BY <1>3, <2>1, <2>3, <3>2, EmitFinishKeepsOrderly
  <2> QED
    BY <2>2, <2>3
<1> QED
  BY <1>2, <1>4, <1>5

\* A chunk of a socket that failed.
LEMMA AfterWriteTickKeeps ==
    ASSUME NEW k, NEW b \in Seq(TickNames), b # <<>>, Head(b) = "afterWrite",
           NEW e \in History, Base(k, b, e), NEW m, m = OnWrite(k)
    PROVE  /\ Base(m, Tail(b), e) /\ Steady(k, m) /\ k.errored
           /\ Orderly(k, b, "ticks") /\ ~e.late => Orderly(m, Tail(b), "ticks")
<1>0. k \in SocketRecord
  BY DEF Base
<1>1. Waits("afterWrite", b) /\ (Waits("readStart", Tail(b)) => Waits("readStart", b))
  BY FirstTaken
<1>2. k.errored
  BY <1>1 DEF Base, TicksFit, Pending
<1>3. Base(k, Tail(b), e) /\ (Orderly(k, b, "ticks") => Orderly(k, Tail(b), "ticks"))
  BY TickTaken
<1>4. /\ Base(m, Tail(b), e)
      /\ Orderly(k, Tail(b), "ticks") /\ ~e.late /\ ~Pending("readStart", k, Tail(b))
           => Orderly(m, Tail(b), "ticks")
  BY ONLY <1>2, <1>3, m = OnWrite(k), e \in History, OnWriteKeeps
<1>5. Orderly(k, b, "ticks") => ~Pending("readStart", k, Tail(b))
  BY <1>1, <1>2 DEF Orderly, Pending
<1>6. Steady(k, m)
  BY <1>0, OnWriteIsSteady
<1> QED
  BY <1>2, <1>3, <1>4, <1>5, <1>6

\* The tick that starts to read finds the handle.
LEMMA ReadStartTickKeeps ==
    ASSUME NEW k, NEW b \in Seq(TickNames), b # <<>>, Head(b) = "readStart",
           NEW e \in History, Base(k, b, e), NEW m,
           m = IF IsOpen(k) THEN [k EXCEPT !.reading = TRUE] ELSE [k EXCEPT !.thrown = TRUE]
    PROVE  /\ Base(m, Tail(b), e) /\ Steady(k, m) /\ k.connected
           /\ Orderly(k, b, "ticks") => Orderly(m, Tail(b), "ticks")
<1>0. k \in SocketRecord
  BY DEF Base
<1>1. Pending("readStart", k, b)
  BY FirstTaken DEF Pending
<1>2. k.connected
  BY <1>1 DEF Base, TicksFit
<1>3. Base(k, Tail(b), e) /\ (Orderly(k, b, "ticks") => Orderly(k, Tail(b), "ticks"))
  BY TickTaken
<1>4. CASE IsOpen(k)
  <2>1. m = [k EXCEPT !.reading = TRUE]
    BY <1>4
  <2>2. /\ m \in SocketRecord /\ m.handle = k.handle /\ m.destroyed = k.destroyed
        /\ m.connected = k.connected /\ m.errored = k.errored /\ m.ready = k.ready
        /\ m.ending = k.ending /\ m.ended = k.ended /\ m.onFinish = k.onFinish
        /\ m.rbuffer = k.rbuffer /\ m.eof = k.eof
        /\ m.ticks = k.ticks /\ m.owned = k.owned /\ m.server = k.server
        /\ m.requests = k.requests /\ m.timer = k.timer /\ m.thrown = k.thrown
        /\ m.buffer = k.buffer /\ m.writing = k.writing
    BY ONLY <1>0, <2>1 DEF SocketRecord
  <2>3. Fits(m)
    BY <1>2, <1>3, <1>4, <2>2 DEF Base, Fits, IsOpen
  <2>4. TicksFit(m, Tail(b))
    BY <1>3, <2>2 DEF Base, TicksFit, Pending
  <2>5. Written(m, Tail(b), e.late) /\ Served(m, Tail(b), e)
    BY <1>3, <2>2 DEF Base, Written, Served, Pending
  <2>6. Base(m, Tail(b), e)
    BY <2>2, <2>3, <2>4, <2>5 DEF Base
  <2>7. Orderly(k, Tail(b), "ticks") => Orderly(m, Tail(b), "ticks")
    BY <2>2 DEF Orderly, Pending, Now, IsOpen
  <2> QED
    BY <1>2, <1>3, <2>2, <2>6, <2>7 DEF Steady
<1>5. CASE ~IsOpen(k)
  <2>1. m = [k EXCEPT !.thrown = TRUE]
    BY <1>5
  <2>2. Base(m, Tail(b), e) /\ m.handle = k.handle /\ m.ticks = k.ticks
    BY ONLY <1>3, <2>1, ThrownKeepsBase
  <2>3. m \in SocketRecord /\ m.connected = k.connected
    BY ONLY <1>0, <2>1 DEF SocketRecord
  <2>4. ~Orderly(k, b, "ticks")
    BY <1>1, <1>5 DEF Orderly
  <2> QED
    BY <1>2, <2>2, <2>3, <2>4 DEF Steady
<1> QED
  BY <1>4, <1>5

\* The lookup failed: destroy().
LEMMA LookupErrorTickKeeps ==
    ASSUME NEW k, NEW b \in Seq(TickNames), b # <<>>, Head(b) = "lookupError",
           NEW e \in History, Base(k, b, e), NEW m, m = Destroy(k)
    PROVE  /\ Base(m, Tail(b), e) /\ Steady(k, m) /\ k.handle # "none"
           /\ Orderly(k, b, "ticks") => Orderly(m, Tail(b), "ticks")
<1>0. k \in SocketRecord
  BY DEF Base
<1>1. Pending("lookupError", k, b)
  BY FirstTaken DEF Pending
<1>2. k.handle # "none" /\ "lookup" \notin k.requests /\ "connect" \notin k.requests
  BY <1>1 DEF Base, TicksFit
<1>3. Base(k, Tail(b), e) /\ (Orderly(k, b, "ticks") => Orderly(k, Tail(b), "ticks"))
  BY TickTaken
<1>4. Calm(k, m)
  BY <1>0, DestroyIsCalm
<1>5. Base(m, Tail(b), e) /\ Steady(k, m)
  BY <1>3, <1>4, CalmKeepsBase, CalmIsSteady
<1>6. Orderly(k, Tail(b), "ticks") => Orderly(m, Tail(b), "ticks")
  BY <1>2, <1>3, <1>4, CalmKeepsOrderly
<1> QED
  BY <1>2, <1>3, <1>5, <1>6

\* The server emits 'close'.
LEMMA ServerCloseTickKeeps ==
    ASSUME NEW k, NEW b \in Seq(TickNames), b # <<>>, Head(b) = "serverClose",
           NEW e \in History, Base(k, b, e), NEW m, m = [k EXCEPT !.server.told = TRUE]
    PROVE  /\ Base(m, Tail(b), e) /\ Steady(k, m) /\ m.ending = k.ending /\ m.errored = k.errored
           /\ Orderly(k, b, "ticks") => Orderly(m, Tail(b), "ticks")
<1> PICK v : v = [k.server EXCEPT !.told = TRUE]
  OBVIOUS
<1> PICK c : c = Tail(b)
  OBVIOUS
<1>0. k \in SocketRecord /\ k.server \in ServerRecord
  BY ServerFields DEF Base
<1>1. Pending("serverClose", k, b)
  BY FirstTaken DEF Pending
<1>2. Base(k, c, e) /\ (Orderly(k, b, "ticks") => Orderly(k, c, "ticks"))
  BY TickTaken
<1>3. v \in ServerRecord /\ v.count = k.server.count /\ v.handle = k.server.handle
  BY <1>0 DEF ServerRecord
<1>4. m = [k EXCEPT !.server = v]
  BY <1>0 DEF SocketRecord
<1>5. /\ v.count = e.others + (IF k.owned THEN 1 ELSE 0)
      /\ e.again \/ (v.count = 0 /\ v.handle = "none")
  BY <1>1, <1>3 DEF Base, Served
<1>6. v \in ServerRecord
  BY <1>3
<1>7. /\ Base(m, c, e) /\ (Orderly(k, c, "ticks") => Orderly(m, c, "ticks"))
      /\ m.handle = k.handle /\ m.ending = k.ending /\ m.errored = k.errored
      /\ m.ticks = k.ticks
  <2>1. Base(k, c, e)
    BY <1>2
  <2> PICK f : f = e
    OBVIOUS
  <2>2. /\ f \in History /\ e \in History /\ f.late = e.late /\ f.serves = e.serves
        /\ v.count = f.others + (IF k.owned THEN 1 ELSE 0)
        /\ v.told \/ Pending("serverClose", k, c) => f.again \/ (v.count = 0 /\ v.handle = "none")
    BY <1>5
  <2>3. /\ Base(m, c, f) /\ (Orderly(k, c, "ticks") => Orderly(m, c, "ticks"))
        /\ m.handle = k.handle /\ m.ending = k.ending /\ m.errored = k.errored
        /\ m.ticks = k.ticks
    BY ONLY <1>4, <1>6, <2>1, <2>2, ServerChanges
  <2> QED
    BY <2>3
<1>8. m \in SocketRecord /\ m.connected = k.connected
  BY ONLY <1>0, <1>4, <1>6 DEF SocketRecord
<1> QED
  BY <1>2, <1>7, <1>8 DEF Steady

\* nextTick.
LEMMA NextTickKeeps ==
    ASSUME NetInv, NextTick
    PROVE  NetInv'
<1> PICK h : h = Head(batch)
  OBVIOUS
<1>1. /\ phase = "ticks" /\ phase' = phase /\ batch # <<>> /\ batch' = Tail(batch)
      /\ s' = RunTick(s, h)
      /\ env' = [env EXCEPT !.answered = @ \/ h = "lookupError"]
  BY DEF NextTick
<1>2. /\ env \in History /\ s \in SocketRecord /\ batch \in Seq(TickNames)
      /\ Base(s, batch, env) /\ (env.early \/ env.late \/ Orderly(s, batch, "ticks"))
  BY <1>1, NetParts
<1>3. env' = [env EXCEPT !.answered = env.answered \/ h = "lookupError"]
  BY <1>1, <1>2 DEF History
<1>4. /\ env' \in History /\ env'.late = env.late /\ env'.early = env.early
      /\ env'.others = env.others /\ env'.serves = env.serves /\ env'.again = env.again
      /\ env'.asked = env.asked
  BY ONLY <1>2, <1>3 DEF History
<1>5. h \in TickNames
  BY <1>1, <1>2, FirstTaken
<1>6. ~Waits("readStart", s.ticks)
  BY <1>1 DEF NetInv
<1>7. s.handle = "none" /\ ~env.early => ~s.ending /\ ~s.errored
  BY NetParts
<1>8. /\ Base(s', Tail(batch), env) /\ Steady(s, s')
      /\ s.handle = "none" /\ ~env.early => ~s'.ending /\ ~s'.errored
      /\ env.early \/ env.late \/ Orderly(s', Tail(batch), "ticks")
  <2>1. CASE h = "finish"
    <3>1. s' = EmitFinish(s) /\ Head(batch) = "finish"
      BY <1>1, <2>1 DEF RunTick
    <3>2. /\ Base(s', Tail(batch), env) /\ Steady(s, s') /\ s.ending
          /\ Orderly(s, batch, "ticks") /\ ~env.late => Orderly(s', Tail(batch), "ticks")
      BY ONLY <1>1, <1>2, <1>6, <3>1, FinishTickKeeps
    <3> QED
      BY ONLY <1>2, <1>7, <3>2
  <2>2. CASE h = "afterWrite"
    <3>1. s' = OnWrite(s) /\ Head(batch) = "afterWrite"
      BY <1>1, <2>2 DEF RunTick
    <3>2. /\ Base(s', Tail(batch), env) /\ Steady(s, s') /\ s.errored
          /\ Orderly(s, batch, "ticks") /\ ~env.late => Orderly(s', Tail(batch), "ticks")
      BY ONLY <1>1, <1>2, <3>1, AfterWriteTickKeeps
    <3> QED
      BY ONLY <1>2, <1>7, <3>2
  <2>3. CASE h = "readStart"
    <3>1. /\ s' = IF IsOpen(s) THEN [s EXCEPT !.reading = TRUE] ELSE [s EXCEPT !.thrown = TRUE]
          /\ Head(batch) = "readStart"
      BY <1>1, <2>3 DEF RunTick
    <3>2. /\ Base(s', Tail(batch), env) /\ Steady(s, s') /\ s.connected
          /\ Orderly(s, batch, "ticks") => Orderly(s', Tail(batch), "ticks")
      BY ONLY <1>1, <1>2, <3>1, ReadStartTickKeeps
    <3>3. s.handle # "none"
      BY <1>2, <3>2, HasHandle
    <3> QED
      BY ONLY <1>2, <3>2, <3>3
  <2>4. CASE h = "lookupError"
    <3>1. s' = Destroy(s) /\ Head(batch) = "lookupError"
      BY <1>1, <2>4 DEF RunTick
    <3>2. /\ Base(s', Tail(batch), env) /\ Steady(s, s') /\ s.handle # "none"
          /\ Orderly(s, batch, "ticks") => Orderly(s', Tail(batch), "ticks")
      BY ONLY <1>1, <1>2, <3>1, LookupErrorTickKeeps
    <3> QED
      BY ONLY <1>2, <3>2
  <2>5. CASE h = "serverClose"
    <3>1. s' = [s EXCEPT !.server.told = TRUE] /\ Head(batch) = "serverClose"
      BY <1>1, <2>5 DEF RunTick
    <3>2. /\ Base(s', Tail(batch), env) /\ Steady(s, s') /\ s'.ending = s.ending
          /\ s'.errored = s.errored
          /\ Orderly(s, batch, "ticks") => Orderly(s', Tail(batch), "ticks")
      BY ONLY <1>1, <1>2, <3>1, ServerCloseTickKeeps
    <3> QED
      BY ONLY <1>2, <1>7, <3>2
  <2> QED
    BY <1>5, <2>1, <2>2, <2>3, <2>4, <2>5 DEF TickNames
<1> QED
  BY ONLY <1>1, <1>4, <1>8, NetInv, TickKeeps

-----------------------------------------------------------------------------
(* The callbacks of the TCP and of the DNS binding.                        *)

\* A callback that leaves the history alone, of a socket that has a handle.
LEMMA HandleCallbackKeeps ==
    ASSUME NetInv, phase = "idle", phase' = "callback", batch' = batch, env' = env,
           Base(s', <<>>, env), s.handle # "none", s'.handle # "none",
           env.early \/ env.late \/ Orderly(s', <<>>, "callback")
    PROVE  NetInv'
BY NetParts, CallbackKeeps

LEMMA OnDataKeeps ==
    ASSUME NetInv, OnData
    PROVE  NetInv'
<1> PICK e : e = env'
  OBVIOUS
<1> PICK t : t = ResetSocketTimeout(s)
  OBVIOUS
<1>1. PICK x \in {TRUE, s.rbuffer} : s' = [t EXCEPT !.rbuffer = x]
  BY DEF OnData, Callback
<1>2. s.reading /\ phase = "idle" /\ phase' = "callback" /\ batch' = batch
  BY DEF OnData, Callback
<1>3. env \in History /\ env.reads + 1 \in Nat /\ e = [env EXCEPT !.reads = env.reads + 1]
  BY NetParts DEF OnData, History
<1>4. /\ e \in History /\ e.again = env.again /\ e.late = env.late /\ e.early = env.early
      /\ e.others = env.others /\ e.serves = env.serves /\ e.asked = env.asked
  BY ONLY <1>3 DEF History
<1>5. s \in SocketRecord /\ Base(s, <<>>, env) /\ (env.early \/ env.late \/ Orderly(s, <<>>, "callback"))
  BY <1>2, IdleFacts
<1>6. Match(s, t) /\ t.requests = s.requests
  BY <1>5, ResetMatches
<1>7. Base(t, <<>>, e) /\ (Orderly(s, <<>>, "callback") => Orderly(t, <<>>, "callback"))
  BY <1>4, <1>5, <1>6, MatchKeeps, HistoryKeeps
<1>8. s.connected /\ s.handle # "none" /\ x \in BOOLEAN
  BY <1>1, <1>2, <1>5, HasHandle DEF Base, Fits, SocketRecord
<1>9. t \in SocketRecord /\ t.connected = s.connected /\ t.handle = s.handle
  BY <1>6 DEF Match
<1> PICK m : m = s'
  OBVIOUS
<1>10. /\ m \in SocketRecord /\ m.handle = t.handle /\ m.destroyed = t.destroyed
       /\ m.connected = t.connected /\ m.errored = t.errored /\ m.ready = t.ready
       /\ m.ending = t.ending /\ m.ended = t.ended /\ m.onFinish = t.onFinish
       /\ m.reading = t.reading /\ m.eof = t.eof
       /\ m.ticks = t.ticks /\ m.owned = t.owned /\ m.server = t.server
       /\ m.requests = t.requests /\ m.timer = t.timer /\ m.thrown = t.thrown
       /\ m.buffer = t.buffer /\ m.writing = t.writing
  <2>1. m = [t EXCEPT !.rbuffer = x]
    BY <1>1
  <2> QED
    BY ONLY <1>8, <1>9, <2>1 DEF SocketRecord
<1>11. Base(m, <<>>, e)
  <2>1. Fits(m)
    BY <1>7, <1>8, <1>9, <1>10 DEF Base, Fits
  <2>2. TicksFit(m, <<>>)
    BY <1>7, <1>10 DEF Base, TicksFit, Pending
  <2>3. Written(m, <<>>, e.late) /\ Served(m, <<>>, e)
    BY <1>7, <1>10 DEF Base, Written, Served, Pending
  <2> QED
    BY <1>10, <2>1, <2>2, <2>3 DEF Base
<1>12. Orderly(t, <<>>, "callback") => Orderly(m, <<>>, "callback")
  BY <1>10 DEF Orderly, Pending, Now, IsOpen
<1>13. env' = e /\ s' = m /\ s'.handle # "none"
  BY <1>8, <1>9, <1>10
<1> QED
  BY ONLY <1>2, <1>4, <1>5, <1>7, <1>8, <1>11, <1>12, <1>13, NetInv, NetParts, CallbackKeeps

LEMMA OnEofKeeps ==
    ASSUME NetInv, OnEof
    PROVE  NetInv'
<1>1. /\ s.reading /\ phase = "idle" /\ phase' = "callback" /\ batch' = batch
      /\ s' = OnReadEof(s) /\ env' = env
  BY DEF OnEof, Callback
<1>2. /\ Base(s, <<>>, env) /\ env \in History
      /\ env.early \/ env.late \/ Orderly(s, <<>>, "callback")
  BY <1>1, IdleFacts
<1>3. s.connected /\ s.handle # "none"
  BY <1>1, <1>2, HasHandle DEF Base, Fits
<1>4. /\ Base(s', <<>>, env) /\ Steady(s, s')
      /\ Orderly(s, <<>>, "callback") => Orderly(s', <<>>, "callback")
  BY ONLY <1>1, <1>2, <1>3, OnReadEofKeeps
<1> QED
  BY <1>1, <1>2, <1>3, <1>4, HandleCallbackKeeps DEF Steady

LEMMA OnReadErrorKeeps ==
    ASSUME NetInv, OnReadError
    PROVE  NetInv'
<1> PICK t : t = ResetSocketTimeout(s)
  OBVIOUS
<1>1. /\ s.reading /\ phase = "idle" /\ phase' = "callback" /\ batch' = batch
      /\ s' = [t EXCEPT !.reading = FALSE] /\ env' = env
  BY DEF OnReadError, Callback
<1>2. /\ s \in SocketRecord /\ Base(s, <<>>, env) /\ env \in History
      /\ env.early \/ env.late \/ Orderly(s, <<>>, "callback")
  BY <1>1, IdleFacts
<1>3. s.connected /\ s.handle # "none"
  BY <1>1, <1>2, HasHandle DEF Base, Fits
<1>4. Match(s, t)
  BY <1>2, ResetMatches
<1>5. Base(t, <<>>, env) /\ (Orderly(s, <<>>, "callback") => Orderly(t, <<>>, "callback"))
  BY <1>2, <1>4, MatchKeeps
<1>6. t \in SocketRecord /\ t.connected = s.connected /\ t.handle = s.handle
  BY <1>4 DEF Match
<1>7. Calm(t, s')
  BY <1>1, <1>6, IdleFields
<1>8. Base(s', <<>>, env) /\ Steady(t, s')
  BY <1>2, <1>5, <1>7, CalmKeepsBase, CalmIsSteady
<1>9. Orderly(t, <<>>, "callback") => Orderly(s', <<>>, "callback")
  BY <1>2, <1>3, <1>5, <1>6, <1>7, CalmKeepsOrderly
<1>10. s'.handle # "none"
  BY <1>3, <1>6, <1>8 DEF Steady
<1> QED
  BY ONLY <1>1, <1>2, <1>3, <1>5, <1>8, <1>9, <1>10, NetInv, HandleCallbackKeeps

LEMMA OnClosedKeeps ==
    ASSUME NetInv, OnClosed
    PROVE  NetInv'
<1>1. /\ s.handle = "closing" /\ s.requests \subseteq {"lookup"}
      /\ phase = "idle" /\ phase' = "callback" /\ batch' = batch
      /\ s' = [s EXCEPT !.handle = "closed"] /\ env' = env
  BY DEF OnClosed, Callback
<1>2. /\ s \in SocketRecord /\ Base(s, <<>>, env) /\ env \in History
      /\ env.early \/ env.late \/ Orderly(s, <<>>, "callback")
  BY <1>1, IdleFacts
<1>3. ~Pending("readStart", s, <<>>)
  BY <1>1, IdleFacts
<1> PICK m : m = s'
  OBVIOUS
<1>4. /\ m \in SocketRecord /\ m.handle = "closed" /\ m.destroyed = s.destroyed
      /\ m.connected = s.connected /\ m.errored = s.errored /\ m.ready = s.ready
      /\ m.ending = s.ending /\ m.ended = s.ended /\ m.onFinish = s.onFinish
      /\ m.reading = s.reading /\ m.eof = s.eof /\ m.rbuffer = s.rbuffer
      /\ m.ticks = s.ticks /\ m.owned = s.owned /\ m.server = s.server
      /\ m.requests = s.requests /\ m.timer = s.timer /\ m.thrown = s.thrown
      /\ m.buffer = s.buffer /\ m.writing = s.writing
  <2>1. m = [s EXCEPT !.handle = "closed"]
    BY <1>1
  <2> QED
    BY ONLY <1>2, <2>1 DEF SocketRecord
<1>5. Base(m, <<>>, env)
  <2>1. Fits(m)
    BY <1>1, <1>2, <1>4 DEF Base, Fits
  <2>2. TicksFit(m, <<>>)
    BY <1>1, <1>2, <1>4 DEF Base, TicksFit, Pending
  <2>3. Written(m, <<>>, env.late) /\ Served(m, <<>>, env)
    BY <1>2, <1>4 DEF Base, Written, Served, Pending
  <2> QED
    BY <1>4, <2>1, <2>2, <2>3 DEF Base
<1>6. Orderly(s, <<>>, "callback") => Orderly(m, <<>>, "callback")
  BY <1>3, <1>4 DEF Orderly, Pending, Now
<1>7. s' = m /\ s'.handle # "none" /\ s.handle # "none"
  BY <1>1, <1>4
<1> QED
  BY ONLY <1>1, <1>2, <1>5, <1>6, <1>7, NetInv, HandleCallbackKeeps

LEMMA OnShutdownKeeps ==
    ASSUME NetInv, OnShutdown
    PROVE  NetInv'
<1> PICK k : k = Without("shutdown")
  OBVIOUS
<1>1. /\ phase = "idle" /\ phase' = "callback" /\ batch' = batch
      /\ s' = (IF k.eof THEN Destroy(k) ELSE k) /\ env' = env
  BY DEF OnShutdown, Callback
<1>2. /\ s \in SocketRecord /\ Base(s, <<>>, env) /\ env \in History
      /\ env.early \/ env.late \/ Orderly(s, <<>>, "callback")
  BY <1>1, IdleFacts
<1>3. Match(s, k) /\ k.requests = s.requests \ {"shutdown"}
  <2>1. k = [s EXCEPT !.requests = s.requests \ {"shutdown"}]
    BY <1>2 DEF Without, SocketRecord
  <2> QED
    BY ONLY <1>2, <2>1, WithoutMatches
<1>4. Base(k, <<>>, env) /\ (Orderly(s, <<>>, "callback") => Orderly(k, <<>>, "callback"))
  BY <1>2, <1>3, MatchKeeps
<1>5. /\ k \in SocketRecord /\ k.handle = s.handle /\ k.ending = s.ending
      /\ k.errored = s.errored
  BY <1>3 DEF Match
<1>6. CASE k.eof
  <2>1. s' = Destroy(k) /\ k.connected /\ k.handle # "none"
    BY <1>1, <1>4, <1>6, HasHandle DEF Base, Fits
  <2>2. Calm(k, s')
    BY <1>5, <2>1, DestroyIsCalm
  <2>3. Base(s', <<>>, env) /\ Steady(k, s')
    BY <1>2, <1>4, <2>2, CalmKeepsBase, CalmIsSteady
  <2>4. Orderly(k, <<>>, "callback") => Orderly(s', <<>>, "callback")
    BY <1>2, <1>4, <2>1, <2>2, CalmKeepsOrderly
  <2>5. s'.handle # "none" /\ s.handle # "none"
    BY <1>5, <2>1, <2>3 DEF Steady
  <2> QED
    BY ONLY <1>1, <1>2, <1>4, <2>3, <2>4, <2>5, NetInv, HandleCallbackKeeps
<1>7. CASE ~k.eof
  <2>1. s' = k
    BY <1>1, <1>7
  <2> QED
    BY ONLY <1>1, <1>2, <1>4, <1>5, <2>1, NetInv, NetParts, CallbackKeeps
<1> QED
  BY <1>6, <1>7

LEMMA OnWrittenKeeps ==
    ASSUME NetInv, OnWritten
    PROVE  NetInv'
<1> PICK k : k = Without("write")
  OBVIOUS
<1>1. /\ phase = "idle" /\ phase' = "callback" /\ batch' = batch
      /\ s' = OnWrite(k) /\ env' = env /\ "write" \in s.requests
  BY DEF OnWritten, Callback
<1>2. /\ s \in SocketRecord /\ Base(s, <<>>, env) /\ env \in History
      /\ env.early \/ env.late \/ Orderly(s, <<>>, "callback")
      /\ ~Pending("readStart", s, <<>>)
  BY <1>1, IdleFacts
<1>3. Match(s, k) /\ k.requests = s.requests \ {"write"}
  <2>1. k = [s EXCEPT !.requests = s.requests \ {"write"}]
    BY <1>2 DEF Without, SocketRecord
  <2> QED
    BY ONLY <1>2, <2>1, WithoutMatches
<1>4. Base(k, <<>>, env) /\ (Orderly(s, <<>>, "callback") => Orderly(k, <<>>, "callback"))
  BY <1>2, <1>3, MatchKeeps
<1>5. /\ k \in SocketRecord /\ k.handle = s.handle /\ k.ending = s.ending
      /\ k.errored = s.errored /\ k.connected = s.connected /\ k.ticks = s.ticks
  BY <1>3 DEF Match
<1>6. s.connected \/ s.errored
  BY <1>1, <1>2 DEF Base, Fits
<1>7. k.connected \/ k.errored
  BY <1>5, <1>6
<1>8. "write" \notin k.requests \/ k.errored
  BY <1>3
<1>9. /\ Base(s', <<>>, env)
      /\ Orderly(k, <<>>, "callback") /\ ~env.late /\ ~Pending("readStart", k, <<>>)
           => Orderly(s', <<>>, "callback")
  <2>1. s' = OnWrite(k) /\ env \in History /\ Base(k, <<>>, env)
    BY <1>1, <1>2, <1>4
  <2> QED
    BY ONLY <1>7, <1>8, <2>1, OnWriteKeeps
<1>10. Steady(k, s')
  BY <1>1, <1>5, OnWriteIsSteady
<1>11. ~Pending("readStart", k, <<>>)
  BY <1>2, <1>5 DEF Pending
<1>12. env.early \/ env.late \/ Orderly(s', <<>>, "callback")
  BY <1>2, <1>4, <1>9, <1>11
<1>13. s'.handle = "none" => env.early
  <2>1. s.connected => s.handle # "none"
    BY <1>2, HasHandle
  <2> QED
    BY <1>5, <1>6, <1>10, <2>1, NetParts DEF Steady
<1>14. s'.handle = "none" <=> s.handle = "none"
  BY <1>5, <1>10 DEF Steady
<1> QED
  BY ONLY <1>1, <1>2, <1>9, <1>12, <1>13, <1>14, NetInv, NetParts, CallbackKeeps

LEMMA OnConnectKeeps ==
    ASSUME NetInv, OnConnect
    PROVE  NetInv'
<1> PICK k : k = Without("connect")
  OBVIOUS
<1> PICK e : e = env'
  OBVIOUS
<1>1. PICK ok \in {FALSE, IsOpen(s)} : s' = AfterConnect(k, ok)
  BY DEF OnConnect, Callback
<1>2. phase = "idle" /\ phase' = "callback" /\ batch' = batch /\ "connect" \in s.requests
  BY <1>1 DEF OnConnect, Callback
<1>3. env \in History /\ e = [env EXCEPT !.answered = TRUE]
  BY NetParts DEF OnConnect
<1>4. /\ e \in History /\ e.again = env.again /\ e.late = env.late /\ e.early = env.early
      /\ e.others = env.others /\ e.serves = env.serves /\ e.asked = env.asked
  BY ONLY <1>3 DEF History
<1>5. /\ s \in SocketRecord /\ Base(s, <<>>, env)
      /\ ~Pending("readStart", s, <<>>)
      /\ env.early \/ env.late \/ Orderly(s, <<>>, "idle")
  <2>1. batch = <<>>
    BY <1>2 DEF NetInv
  <2> QED
    BY <1>2, <2>1, IdleFacts, NetParts
<1>6. Match(s, k) /\ k.requests = s.requests \ {"connect"}
  <2>1. k = [s EXCEPT !.requests = s.requests \ {"connect"}]
    BY <1>5 DEF Without, SocketRecord
  <2> QED
    BY ONLY <1>5, <2>1, WithoutMatches
<1>7. Base(k, <<>>, e)
  BY <1>4, <1>5, <1>6, MatchKeeps, HistoryKeeps
<1>8. /\ k \in SocketRecord /\ k.handle = s.handle /\ k.ending = s.ending /\ k.ended = s.ended
      /\ k.errored = s.errored /\ k.buffer = s.buffer /\ k.ticks = s.ticks
      /\ k.destroyed = s.destroyed
  BY <1>6 DEF Match
<1>9. "lookup" \notin k.requests /\ "connect" \notin k.requests /\ k.handle # "none"
  BY <1>2, <1>5, <1>6, <1>8 DEF Base, Fits
<1>10. ok \in BOOLEAN /\ (ok => IsOpen(k))
  BY <1>1, <1>8 DEF IsOpen
<1>11. /\ Base(s', <<>>, e) /\ s'.handle # "none"
       /\ Orderly(k, <<>>, "callback") /\ ~e.late /\ ~Pending("readStart", k, <<>>) /\ ~k.errored
            /\ (k.destroyed \/ ~k.ending \/ (~k.ended /\ k.buffer > 0))
          => Orderly(s', <<>>, "callback")
  <2>1. s' = AfterConnect(k, ok) /\ e \in History
    BY <1>1, <1>4
  <2> QED
    BY ONLY <1>7, <1>9, <1>10, <2>1, AfterConnectKeeps
<1>12. ASSUME ~e.early, ~e.late
       PROVE  Orderly(s', <<>>, "callback")
  <2>1. Orderly(s, <<>>, "idle")
    BY <1>4, <1>5, <1>12
  <2>2. ~k.errored /\ (k.destroyed \/ ~k.ending \/ (~k.ended /\ k.buffer > 0))
    BY <1>2, <1>8, <2>1 DEF Orderly
  <2>3. Orderly(k, <<>>, "callback")
    <3>1. Orderly(k, <<>>, "idle")
      BY <1>6, <2>1, MatchKeeps
    <3> QED
      BY <3>1 DEF Orderly
  <2>4. ~Pending("readStart", k, <<>>)
    BY <1>5, <1>8 DEF Pending
  <2> QED
    BY ONLY <1>11, <1>12, <2>2, <2>3, <2>4
<1>13. s.handle # "none" /\ env' = e
  BY <1>8, <1>9
<1> QED
  BY ONLY <1>2, <1>4, <1>11, <1>12, <1>13, NetInv, NetParts, CallbackKeeps

\* The listeners of 'lookup' leave the socket l, which was k.
LEMMA LookupListeners ==
    ASSUME NEW k, NEW e \in History, Base(k, <<>>, e), ~k.destroyed, k.handle # "none",
           "lookup" \notin k.requests, "connect" \notin k.requests,
           ~Pending("lookupError", k, <<>>), NEW l \in {k, Destroy(k)}
    PROVE  /\ Base(l, <<>>, e) /\ l.handle # "none"
           /\ "lookup" \notin l.requests /\ "connect" \notin l.requests
           /\ ~Pending("lookupError", l, <<>>)
           /\ Orderly(k, <<>>, "callback") => Orderly(l, <<>>, "callback")
           /\ ~k.ending /\ ~k.connected /\ ~k.errored => MayConnect(l)
<1>0. k \in SocketRecord
  BY DEF Base
<1>1. k.handle = "open" /\ (k.ended => k.ending) /\ (k.writing => k.connected \/ k.errored)
  BY <1>0 DEF Base, Fits, SocketRecord
<1>2. CASE l = k
  BY <1>1, <1>2 DEF MayConnect, IsOpen
<1>3. CASE l = Destroy(k)
  <2>1. Calm(k, l) /\ (k.destroyed \/ l.destroyed \/ l.onFinish)
    BY <1>0, <1>3, DestroyIsCalm
  <2>2. /\ Untouched(k, l) /\ Ticked(k, l) /\ (Stays(k, l) \/ IsClosed(k, l))
        /\ \A r \in {"lookup", "connect", "write"} : r \in l.requests <=> r \in k.requests
        /\ l.ending => k.ending \/ Waits("finish", l.ticks) \/ k.buffer > 0 \/ k.writing
    BY ONLY <2>1 DEF Calm
  <2>3. Base(l, <<>>, e)
    BY <2>1, CalmKeepsBase
  <2>4. l.handle # "none"
    BY <1>1, <2>2 DEF Stays, IsClosed
  <2>5. "lookup" \notin l.requests /\ "connect" \notin l.requests
    BY <2>2
  <2>6. ~Pending("lookupError", l, <<>>)
    BY <2>2 DEF Ticked, Pending
  <2>7. Orderly(k, <<>>, "callback") => Orderly(l, <<>>, "callback")
    BY <2>1, CalmKeepsOrderly
  <2>8. ASSUME ~k.ending, ~k.connected, ~k.errored
        PROVE  MayConnect(l)
    <3>1. ~k.ended /\ ~k.writing
      BY <1>1, <2>8
    <3>2. IsOpen(l) /\ l.destroyed = k.destroyed
      BY <1>1, <2>2, <3>1 DEF Stays, IsClosed, IsOpen
    <3>3. l.onFinish
      BY <2>1, <3>2
    <3>4. ~l.connected /\ ~l.errored /\ ~l.ended /\ l.buffer = k.buffer
      BY <2>2, <2>8, <3>1 DEF Untouched
    <3> QED
      BY <2>2, <2>8, <3>1, <3>2, <3>3, <3>4 DEF MayConnect
  <2> QED
    BY <2>3, <2>4, <2>5, <2>6, <2>7, <2>8
<1> QED
  BY <1>2, <1>3

LEMMA OnLookupKeeps ==
    ASSUME NetInv, OnLookup
    PROVE  NetInv'
<1> PICK k : k = Without("lookup")
  OBVIOUS
<1>1. phase = "idle" /\ phase' = "callback" /\ batch' = batch /\ "lookup" \in s.requests
  BY DEF OnLookup, Callback
<1>2. /\ s \in SocketRecord /\ Base(s, <<>>, env) /\ env \in History
      /\ env.early \/ env.late \/ Orderly(s, <<>>, "callback")
  BY <1>1, IdleFacts
<1>3. Match(s, k) /\ k.requests = s.requests \ {"lookup"}
  <2>1. k = [s EXCEPT !.requests = s.requests \ {"lookup"}]
    BY <1>2 DEF Without, SocketRecord
  <2> QED
    BY ONLY <1>2, <2>1, WithoutMatches
<1>4. Base(k, <<>>, env) /\ (Orderly(s, <<>>, "callback") => Orderly(k, <<>>, "callback"))
  BY <1>2, <1>3, MatchKeeps
<1>5. /\ k \in SocketRecord /\ k.handle = s.handle /\ k.ending = s.ending
      /\ k.errored = s.errored /\ k.connected = s.connected /\ k.ticks = s.ticks
      /\ k.destroyed = s.destroyed
  BY <1>3 DEF Match
<1>6. /\ "lookup" \notin k.requests /\ "connect" \notin k.requests /\ k.handle # "none"
      /\ s.handle # "none"
  BY <1>1, <1>2, <1>3, <1>5 DEF Base, Fits
<1>7. ~Pending("lookupError", k, <<>>)
  BY <1>1, <1>2, <1>5 DEF Base, TicksFit, Pending
<1>8. CASE s.destroyed /\ s' = k /\ env' = env
  BY ONLY <1>1, <1>2, <1>4, <1>6, <1>8, NetInv, HandleCallbackKeeps
<1>9. CASE /\ ~s.destroyed
           /\ env' = [env EXCEPT !.answered = @ \/ s'.errored]
           /\ \E l \in {k, Destroy(k)}, err, accepted \in BOOLEAN : s' = AfterLookup(l, err, accepted)
  <2> PICK e : e = env'
    OBVIOUS
  <2>1. PICK l \in {k, Destroy(k)}, err \in BOOLEAN, accepted \in BOOLEAN :
          s' = AfterLookup(l, err, accepted)
    BY <1>9
  <2>2. /\ Base(l, <<>>, env) /\ l.handle # "none"
        /\ "lookup" \notin l.requests /\ "connect" \notin l.requests
        /\ ~Pending("lookupError", l, <<>>)
        /\ Orderly(k, <<>>, "callback") => Orderly(l, <<>>, "callback")
        /\ ~k.ending /\ ~k.connected /\ ~k.errored => MayConnect(l)
    <3>1. Base(k, <<>>, env) /\ env \in History /\ ~k.destroyed /\ l \in {k, Destroy(k)}
      BY <1>2, <1>4, <1>5, <1>9
    <3>2. "lookup" \notin k.requests /\ "connect" \notin k.requests /\ k.handle # "none"
      BY <1>6
    <3> QED
      BY ONLY <1>7, <3>1, <3>2, LookupListeners
  <2>3. /\ Base(s', <<>>, env) /\ s'.handle # "none"
        /\ Orderly(l, <<>>, "callback") /\ ~env.late /\ MayConnect(l)
             => Orderly(s', <<>>, "callback")
    <3>1. /\ Base(l, <<>>, env) /\ env \in History /\ l.handle # "none"
          /\ "lookup" \notin l.requests /\ "connect" \notin l.requests
          /\ ~Pending("lookupError", l, <<>>)
          /\ err \in BOOLEAN /\ accepted \in BOOLEAN
      BY <1>2, <2>2
    <3> PICK m : m = s'
      OBVIOUS
    <3>2. m = AfterLookup(l, err, accepted)
      BY <2>1
    <3>3. /\ Base(m, <<>>, env) /\ m.handle # "none"
          /\ Orderly(l, <<>>, "callback") /\ ~env.late /\ MayConnect(l)
               => Orderly(m, <<>>, "callback")
      BY ONLY <3>1, <3>2, AfterLookupKeeps
    <3> QED
      BY <3>3
  <2>4. (s'.errored) \in BOOLEAN /\ e = [env EXCEPT !.answered = env.answered \/ s'.errored]
    BY <1>2, <1>9, <2>3 DEF Base, SocketRecord, History
  <2>5. /\ e \in History /\ e.again = env.again /\ e.late = env.late /\ e.early = env.early
        /\ e.others = env.others /\ e.serves = env.serves /\ e.asked = env.asked
    BY ONLY <1>2, <2>4 DEF History
  <2>6. Base(s', <<>>, e)
    BY <2>3, <2>5, HistoryKeeps
  <2>7. ASSUME ~e.early, ~e.late
        PROVE  Orderly(s', <<>>, "callback")
    <3>1. Orderly(s, <<>>, "callback")
      BY <1>2, <2>5, <2>7
    <3>2. ~k.ending /\ ~k.connected /\ ~k.errored
      BY <1>1, <1>5, <3>1 DEF Orderly
    <3> QED
      BY ONLY <1>4, <2>2, <2>3, <2>5, <2>7, <3>1, <3>2
  <2>8. env' = e
    OBVIOUS
  <2> QED
    BY ONLY <1>1, <1>6, <2>3, <2>5, <2>6, <2>7, <2>8, NetInv, NetParts, CallbackKeeps
<1> QED
  BY <1>8, <1>9 DEF OnLookup, Callback

-----------------------------------------------------------------------------
\* A socket with no tick, no request and nothing written.
LEMMA FreshBase ==
    ASSUME NEW k \in SocketRecord, NEW e, k.handle \in {"none", "open"}, k.ticks = <<>>,
           k.requests = {}, ~k.destroyed, ~k.ended, ~k.ending, ~k.errored, ~k.connected, ~k.thrown,
           ~k.reading, ~k.rbuffer, ~k.eof, ~k.writing, ~k.ready,
           ~k.server.told, k.server.count = e.others + (IF k.owned THEN 1 ELSE 0),
           k.owned <=> e.serves
    PROVE  Base(k, <<>>, e) /\ Orderly(k, <<>>, "callback")
<1>1. \A u : ~Pending(u, k, <<>>)
  BY NothingWaits DEF Pending
<1>2. ~Pending("finish", k, <<>>) /\ ~Pending("afterWrite", k, <<>>)
      /\ ~Pending("lookupError", k, <<>>) /\ ~Pending("readStart", k, <<>>)
      /\ ~Pending("serverClose", k, <<>>)
  BY <1>1
<1>3. Fits(k)
  BY DEF Fits
<1>4. TicksFit(k, <<>>) /\ Written(k, <<>>, e.late)
  BY <1>2 DEF TicksFit, Written
<1>5. Served(k, <<>>, e)
  BY <1>2 DEF Served
<1>6. Orderly(k, <<>>, "callback")
  BY <1>2, NothingWaits DEF Orderly
<1> QED
  BY <1>3, <1>4, <1>5, <1>6 DEF Base

\* A socket that is new, or has just been accepted.
LEMMA NewSocketType ==
    ASSUME NEW half \in BOOLEAN
    PROVE  NewSocket(half) \in SocketRecord /\ NewServer \in ServerRecord
<1>1. <<>> \in Seq(TickNames) /\ {} \subseteq NetRequests
  OBVIOUS
<1>2. NewServer \in ServerRecord
  BY DEF NewServer, ServerRecord
<1> QED
  BY <1>1, <1>2 DEF NewSocket, SocketRecord

LEMMA AcceptedFields ==
    ASSUME NEW a \in SocketRecord, ~a.destroyed, ~a.writing, a.buffer = 0, ~a.ending,
           NEW m, m = OnSocketConnect(a)
    PROVE  m.owned = a.owned /\ m.connected
<1> PICK c : c = [a EXCEPT !.connecting = FALSE, !.connected = TRUE]
  OBVIOUS
<1> PICK r : r = ResetSocketTimeout(c)
  OBVIOUS
<1> PICK x : x = [r EXCEPT !.ready = TRUE]
  OBVIOUS
<1>1. /\ c \in SocketRecord /\ c.owned = a.owned /\ c.connected /\ c.writing = a.writing
      /\ c.buffer = a.buffer /\ c.ending = a.ending
  BY DEF SocketRecord
<1>2. Match(c, r)
  BY <1>1, ResetMatches
<1>3. /\ r \in SocketRecord /\ r.owned = a.owned /\ r.connected /\ ~r.writing /\ r.buffer = 0
      /\ ~r.ending
  BY <1>1, <1>2 DEF Match
<1>4. /\ x \in SocketRecord /\ x.owned = a.owned /\ x.connected /\ ~x.writing /\ x.buffer = 0
      /\ ~x.ending
  BY ONLY <1>3, x = [r EXCEPT !.ready = TRUE] DEF SocketRecord
<1>5. ReadyToWrite(r) = x
  BY <1>4 DEF ReadyToWrite, WriteBuffered
<1>6. m = Later(x, "readStart")
  BY <1>5 DEF OnSocketConnect
<1>7. Alike(x, m)
  BY <1>4, <1>6, LaterAdds DEF TickNames
<1> QED
  BY <1>4, <1>7 DEF Alike

LEMMA NetInvInit ==
    ASSUME NetInit
    PROVE  NetInv
<1>1. PICK half \in BOOLEAN : s \in {NewSocket(half), Accepted(half)}
  BY DEF NetInit
<1>2. phase = "callback" /\ batch = <<>> /\ batch \in Seq(TickNames)
  BY DEF NetInit
<1>3. SUFFICES /\ env \in History /\ (s.handle = "none" <=> ~env.asked)
               /\ s.handle = "none" => ~s.ending /\ ~s.errored
               /\ Base(s, <<>>, env) /\ Orderly(s, <<>>, "callback")
  BY <1>2 DEF NetInv, Sound
<1> PICK n : n = NewSocket(half)
  OBVIOUS
<1>4. /\ n \in SocketRecord /\ n.handle = "none" /\ n.ticks = <<>> /\ n.requests = {}
      /\ ~n.destroyed /\ ~n.ended /\ ~n.ending /\ ~n.errored /\ ~n.connected /\ ~n.thrown
      /\ ~n.reading /\ ~n.rbuffer /\ ~n.eof /\ ~n.writing /\ ~n.ready /\ ~n.owned
      /\ n.buffer = 0 /\ n.server = NewServer
  <2>1. n \in SocketRecord
    BY NewSocketType
  <2> QED
    BY <2>1 DEF NewSocket
<1>5. /\ env.others = 0 /\ env.serves = s.owned /\ env.asked = s.connected
      /\ s.owned \in BOOLEAN /\ s.connected \in BOOLEAN => env \in History
  BY DEF NetInit, History
<1>6. NewServer \in ServerRecord /\ NewServer.count = 0 /\ ~NewServer.told
  BY NewSocketType DEF NewServer
<1>7. CASE s = n
  <2>1. env \in History
    BY <1>4, <1>5, <1>7 DEF SocketRecord
  <2>2. Base(s, <<>>, env) /\ Orderly(s, <<>>, "callback")
    BY <1>4, <1>5, <1>6, <1>7, FreshBase
  <2> QED
    BY <1>4, <1>5, <1>7, <2>1, <2>2
<1>8. CASE s = Accepted(half)
  <2> PICK v : v = [NewServer EXCEPT !.handle = "open", !.count = 1]
    OBVIOUS
  <2> PICK a : a = [n EXCEPT !.handle = "open", !.owned = TRUE, !.server = v]
    OBVIOUS
  <2>0. v = [handle |-> "open", count |-> 1, told |-> FALSE]
    BY DEF NewServer
  <2>1. v \in ServerRecord /\ v.count = 1 /\ ~v.told
    BY ONLY <2>0 DEF ServerRecord
  <2>2. /\ a \in SocketRecord /\ a.handle = "open" /\ a.ticks = <<>> /\ a.requests = {}
        /\ ~a.destroyed /\ ~a.ended /\ ~a.ending /\ ~a.errored /\ ~a.connected /\ ~a.thrown
        /\ ~a.reading /\ ~a.rbuffer /\ ~a.eof /\ ~a.writing /\ ~a.ready /\ a.owned
        /\ a.buffer = 0 /\ a.server = v
    BY ONLY <1>4, <2>1, a = [n EXCEPT !.handle = "open", !.owned = TRUE, !.server = v]
       DEF SocketRecord
  <2>3. s = OnSocketConnect(a)
    BY <1>8 DEF Accepted
  <2>4. s.owned /\ s.connected
    BY <2>2, <2>3, AcceptedFields
  <2>5. env \in History /\ env.serves /\ env.asked
    BY <1>5, <2>4
  <2>6. Base(a, <<>>, env) /\ Orderly(a, <<>>, "callback")
    <3>1. /\ ~a.server.told /\ a.server.count = env.others + (IF a.owned THEN 1 ELSE 0)
          /\ a.owned <=> env.serves
      <4>1. env.others = 0 /\ env.serves /\ a.owned /\ a.server = v
        BY <1>5, <2>2, <2>5
      <4>2. a.server.count = 1 /\ ~a.server.told
        BY ONLY <2>1, <4>1
      <4> QED
        BY ONLY <4>1, <4>2
    <3> QED
      BY ONLY <2>2, <3>1, FreshBase
  <2>7. ~env.late /\ ~Pending("readStart", a, <<>>)
    BY <2>2, NothingWaits DEF NetInit, Pending
  <2>8. /\ Base(s, <<>>, env) /\ s.handle # "none"
        /\ Orderly(a, <<>>, "callback") /\ ~env.late /\ ~Pending("readStart", a, <<>>) /\ ~a.errored
             /\ ~a.ended /\ (a.ending => a.buffer > 0)
           => Orderly(s, <<>>, "callback")
    <3>1. IsOpen(a) /\ "lookup" \notin a.requests /\ "connect" \notin a.requests
      BY <2>2 DEF IsOpen
    <3> QED
      BY ONLY <2>3, <2>5, <2>6, <3>1, OnSocketConnectKeeps
  <2> QED
    BY <2>2, <2>5, <2>6, <2>7, <2>8
<1> QED
  BY <1>1, <1>7, <1>8

LEMMA NetInvStep ==
    ASSUME NetInv, [NetNext]_netVars
    PROVE  NetInv'
<1>1. CASE SocketUser
  BY <1>1, ConnectKeeps, WriteKeeps, EndActionKeeps, UserDestroyKeeps, SetTimeoutKeeps, UserReadKeeps
     DEF SocketUser
<1>2. CASE Server
  BY <1>2, ListenKeeps, ServerCloseKeeps, OtherClosesKeeps, OnConnectionKeeps DEF Server
<1>3. CASE Loop
  BY <1>3, AfterTimeoutKeeps, BeginTicksKeeps, NextTickKeeps, EndTurnKeeps DEF Loop
<1>4. CASE Answers
  BY <1>4, OnLookupKeeps, OnConnectKeeps, OnWrittenKeeps, OnShutdownKeeps, OnClosedKeeps
     DEF Answers
<1>5. CASE Arrivals
  BY <1>5, OnDataKeeps, OnEofKeeps, OnReadErrorKeeps, WakeKeeps DEF Arrivals
<1>6. CASE OtherEvent
  BY <1>6, WakeKeeps
<1>7. CASE UNCHANGED netVars
  <2>1. s' = s /\ phase' = phase /\ batch' = batch /\ env' = env
    BY <1>7 DEF netVars
  <2> QED
    BY <2>1 DEF NetInv
<1> QED
  BY <1>1, <1>2, <1>3, <1>4, <1>5, <1>6, <1>7 DEF NetNext, Crashed

LEMMA NetInvSuffices ==
    ASSUME NetInv
    PROVE  ClosedIsDone
<1>1. Base(s, batch, env) /\ (env.early \/ env.late \/ Orderly(s, batch, phase))
  BY NetParts
<1>2. NoNullHandle
  BY <1>1 DEF NoNullHandle, Orderly
<1>3. TimerStops
  BY <1>1 DEF TimerStops, Base, Fits
<1>4. NothingDropped
  BY <1>1 DEF NothingDropped, Base, Fits, Written
<1>5. ServerCounts
  BY <1>1 DEF ServerCounts, Base, Served
<1> QED
  BY <1>2, <1>3, <1>4, <1>5 DEF ClosedIsDone

\* A socket that closes is done (net.js:187-228, 303-341), in whatever order its user, its
\* ticks and the answers of uv come: nobody uses the handle it gave away, no timer is left, no
\* chunk written before end() was dropped, and its server's count is exact (net.js:554-590).
THEOREM ClosedSocketIsDone == NetSpec => []ClosedIsDone
<1>1. NetInit => NetInv
  BY NetInvInit
<1>2. NetInv /\ [NetNext]_netVars => NetInv'
  BY NetInvStep
<1>3. NetInv => ClosedIsDone
  BY NetInvSuffices
<1> QED
  BY <1>1, <1>2, <1>3, PTL DEF NetSpec

=============================================================================
