----------------------------- MODULE PoolProofs -----------------------------
(***************************************************************************)
(* Proofs about what libuv's pool of threads serves, the files of Fs and   *)
(* the devices of Peripherals, and about the module loader.                *)
(*                                                                         *)
(* Files: as long as no read or write has failed, a call uses only the     *)
(* descriptor it opened itself, for any number of calls and descriptors,   *)
(* and whatever the order in which the threads of the pool and the loop    *)
(* go on.  The functions of the code are operators on calls and kernels,   *)
(* so there is a lemma for each of them that says what it leaves alone and *)
(* what it changes; the steps follow from these lemmas.  And what a call   *)
(* reports is the whole file, unless one of its own reads or writes fails  *)
(* or a call that overlaps with it disturbs it.                            *)
(*                                                                         *)
(* Peripherals: undefined behaviour has a cause in what the program did,   *)
(* each request has its own effect and answer, and 'exit' closes what is   *)
(* open, for any number of requests and threads.  The six peripherals      *)
(* share the steps of RequestPool: each kind of step keeps the inductive   *)
(* invariant under conditions on the struct that it leaves, and the steps  *)
(* of a peripheral are shown to meet these conditions.                     *)
(*                                                                         *)
(* Modules: for every file system, every set of ids and any nesting of     *)
(* modules, require() returns only what has run to its end, all get the    *)
(* same module of a file unless it is required in a circle, and the code   *)
(* of a native module runs once.                                           *)
(***************************************************************************)
EXTENDS Fs, Peripherals, FiniteSetTheorems, SequenceTheorems, WellFoundedInduction, TLAPS

-----------------------------------------------------------------------------
(* The shapes of the records.                                              *)

Ops == {"open", "read", "write", "close", "stat", "mkdir", "rmdir", "unlink", "rename", "readdir"}
Uses == {"read", "write", "close"}

CallFields ==
  {"kind", "sync", "path", "to", "len", "fd", "got", "written", "round", "results", "threw",
   "inode", "failed", "stray", "with"}

CallShape(c) == DOMAIN c = CallFields

RequestShape(q) == DOMAIN q = {"call", "op", "arg", "n"} /\ q.op \in Ops

KernelShape(m) ==
  /\ DOMAIN m = {"names", "files", "fds"}
  /\ DOMAIN m.fds = Fds
  /\ \A f \in Fds : DOMAIN m.fds[f] = {"inode", "pos", "owner", "writable"}

\* Every nonempty set of numbers has a first one.
LEMMA FirstExists ==
    ASSUME NEW S \in SUBSET Nat, S # {}
    PROVE  \E x \in S : \A y \in S : x <= y
<1> DEFINE R == {p \in Nat \X Nat : p[1] < p[2]}
<1>1. IsWellFoundedOn(R, Nat)
  BY NatLessThanWellFounded, Zenon DEF OpToRel
<1> HIDE DEF R
<1>2. PICK x \in S : \A y \in S : ~(<<y, x>> \in R)
  BY <1>1, WFMin, Zenon
<1>3. \A y \in S : ~(y < x)
  BY <1>2 DEF R
<1> QED
  BY <1>3

\* open() takes a free descriptor.
LEMMA FirstFree ==
    ASSUME FreeFds # {}
    PROVE  Min(FreeFds) \in FreeFds
<1>1. FreeFds \in SUBSET Nat
  BY ConstantsAssumption DEF FreeFds, Fds
<1>2. \E x \in FreeFds : \A y \in FreeFds : x <= y
  BY <1>1, FirstExists
<1> QED
  BY <1>2, Zenon DEF Min

-----------------------------------------------------------------------------
(* The system calls.                                                       *)

\* The descriptors have the same owners in the kernels m and n.
SameOwners(m, n) == KernelShape(n) /\ \A f \in Fds : n.fds[f].owner = m.fds[f].owner

\* Descriptor g has another owner, and only it.
OwnerSet(m, n, g, who) ==
  KernelShape(n) /\ \A f \in Fds : n.fds[f].owner = IF f = g THEN who ELSE m.fds[f].owner

\* open() fails and leaves the kernel, or gives a descriptor that was free to the call.
LEMMA OpenEffect ==
    ASSUME KernelShape(k), NEW q
    PROVE  \/ Open(q).err /\ SameOwners(k, Open(q).k)
           \/ /\ ~Open(q).err /\ Open(q).val[1] \in FreeFds
              /\ OwnerSet(k, Open(q).k, Open(q).val[1], q.call)
<1> DEFINE p == calls[q.call].path
           w == calls[q.call].kind = "writeFile"
           i == IF k.names[p] = 0 THEN FreeInode ELSE k.names[p]
           f == Min(FreeFds)
           m == [k EXCEPT !.names[p] = i,
                          !.files = IF w THEN [@ EXCEPT ![i] = <<>>] ELSE @,
                          !.fds[f] = [inode |-> i, pos |-> 0, owner |-> q.call, writable |-> w]]
<1>1. CASE FreeFds = {} \/ (IF w THEN k.names[p] = -1 ELSE k.names[p] = 0)
  <2>1. Open(q) = Failure
    BY <1>1 DEF Open
  <2> QED
    BY <2>1 DEF Failure, SameOwners
<1>2. CASE ~(FreeFds = {} \/ (IF w THEN k.names[p] = -1 ELSE k.names[p] = 0))
  <2>1. Open(q) = Outcome(m, <<f, i>>)
    BY <1>2 DEF Open
  <2>2. f \in FreeFds /\ f \in Fds
    BY <1>2, FirstFree DEF FreeFds
  <2> HIDE DEF f, i, w, p
  <2>3. /\ DOMAIN m = {"names", "files", "fds"}
        /\ m.fds = [k.fds EXCEPT ![f] = [inode |-> i, pos |-> 0, owner |-> q.call, writable |-> w]]
    BY DEF KernelShape
  <2> HIDE DEF m
  <2>4. OwnerSet(k, m, f, q.call)
    BY <2>2, <2>3 DEF KernelShape, OwnerSet
  <2>5. Open(q).k = m /\ Open(q).err = FALSE /\ Open(q).val = <<f, i>>
    BY <2>1 DEF Outcome
  <2> QED
    BY <2>2, <2>4, <2>5
<1> QED
  BY <1>1, <1>2

\* Read moves the position only.
LEMMA ReadEffect ==
    ASSUME KernelShape(k), NEW q
    PROVE  SameOwners(k, Read(q).k)
<1> DEFINE f == calls[q.call].fd
           d == k.fds[f]
           m == [k EXCEPT !.fds[f].pos = @ + 1]
<1>1. Read(q).k = k \/ Read(q).k = m
  BY DEF Read, Failure, Outcome
<1>2. SameOwners(k, k)
  BY DEF SameOwners
<1>3. SameOwners(k, m)
  <2> HIDE DEF f
  <2>1. DOMAIN m = {"names", "files", "fds"} /\ m.fds = [k.fds EXCEPT ![f].pos = @ + 1]
    BY DEF KernelShape
  <2>2. m.fds = [k.fds EXCEPT ![f] = [k.fds[f] EXCEPT !.pos = @ + 1]]
    BY <2>1
  <2> HIDE DEF m
  <2>3. \A g \in Fds : m.fds[g] = IF g = f THEN [k.fds[f] EXCEPT !.pos = @ + 1] ELSE k.fds[g]
    BY <2>2 DEF KernelShape
  <2>4. DOMAIN m.fds = Fds
    BY <2>2 DEF KernelShape
  <2>5. \A g \in Fds : /\ DOMAIN [k.fds[g] EXCEPT !.pos = @ + 1] = {"inode", "pos", "owner", "writable"}
                       /\ [k.fds[g] EXCEPT !.pos = @ + 1].owner = k.fds[g].owner
    BY DEF KernelShape
  <2> QED
    BY <2>1, <2>3, <2>4, <2>5 DEF SameOwners, KernelShape
<1> QED
  BY <1>1, <1>2, <1>3

\* Write changes a file only.
LEMMA WriteEffect ==
    ASSUME KernelShape(k), NEW q
    PROVE  SameOwners(k, Write(q).k)
<1>1. Write(q).k = k \/ \E i, v : Write(q).k = [k EXCEPT !.files[i] = v]
  BY DEF Write, Failure, Outcome
<1>2. \A i, v : DOMAIN [k EXCEPT !.files[i] = v] = DOMAIN k /\ [k EXCEPT !.files[i] = v].fds = k.fds
  BY DEF KernelShape
<1> QED
  BY <1>1, <1>2 DEF KernelShape, SameOwners

\* Close frees the descriptor of the call, or fails because there is none.
LEMMA CloseEffect ==
    ASSUME KernelShape(k), NEW q
    PROVE  \/ SameOwners(k, Close(q).k)
           \/ OwnerSet(k, Close(q).k, calls[q.call].fd, 0)
<1> DEFINE f == calls[q.call].fd
           m == [k EXCEPT !.fds[f] = NoFd]
<1>1. Close(q).k = k \/ Close(q).k = m
  BY DEF Close, Failure, Outcome
<1>2. SameOwners(k, k)
  BY DEF SameOwners
<1>3. OwnerSet(k, m, f, 0)
  <2> HIDE DEF f
  <2>1. DOMAIN m = {"names", "files", "fds"} /\ m.fds = [k.fds EXCEPT ![f] = NoFd]
    BY DEF KernelShape
  <2> HIDE DEF m
  <2>2. DOMAIN NoFd = {"inode", "pos", "owner", "writable"} /\ NoFd.owner = 0
    BY DEF NoFd
  <2> QED
    BY <2>1, <2>2 DEF KernelShape, OwnerSet
<1> QED
  BY <1>1, <1>2, <1>3

\* The other system calls change names only.
LEMMA NamesEffect ==
    ASSUME KernelShape(k), NEW q,
           q.op \in {"stat", "mkdir", "rmdir", "unlink", "rename", "readdir"}
    PROVE  SameOwners(k, System(q).k)
<1>1. System(q).k = k \/ \E v : System(q).k = [k EXCEPT !.names = v]
  <2>1. CASE q.op \in {"stat", "readdir"}
    BY <2>1 DEF System, Stat, ReadDir, Failure, Outcome
  <2>2. CASE q.op \in {"mkdir", "rmdir", "unlink"}
    BY <2>2 DEF System, MkDir, RmDir, Unlink, Failure, Outcome
  <2>3. CASE q.op = "rename"
    BY <2>3 DEF System, Rename, Failure, Outcome
  <2> QED
    BY <2>1, <2>2, <2>3
<1>2. \A v : DOMAIN [k EXCEPT !.names = v] = DOMAIN k /\ [k EXCEPT !.names = v].fds = k.fds
  BY DEF KernelShape
<1> QED
  BY <1>1, <1>2 DEF KernelShape, SameOwners

\* What a request does to the owners, whether it fails of itself or not.
LEMMA OutcomeEffect ==
    ASSUME KernelShape(k), NEW q, q.op \in Ops, NEW o \in Outcomes(q)
    PROVE  /\ q.op \notin {"open", "close"} => SameOwners(k, o.k)
           /\ q.op = "open" => \/ o.err /\ SameOwners(k, o.k)
                               \/ /\ ~o.err /\ o.val[1] \in FreeFds
                                  /\ OwnerSet(k, o.k, o.val[1], q.call)
           /\ q.op = "close" => \/ SameOwners(k, o.k)
                                \/ OwnerSet(k, o.k, calls[q.call].fd, 0)
<1>1. CASE o = System(q)
  <2>1. CASE q.op = "open"
    <3>1. System(q) = Open(q)
      BY <2>1 DEF System
    <3> QED
      BY <1>1, <2>1, <3>1, OpenEffect
  <2>2. CASE q.op = "close"
    <3>1. System(q) = Close(q)
      BY <2>2 DEF System
    <3> QED
      BY <1>1, <2>2, <3>1, CloseEffect
  <2>3. CASE q.op = "read"
    <3>1. System(q) = Read(q)
      BY <2>3 DEF System
    <3> QED
      BY <1>1, <2>3, <3>1, ReadEffect
  <2>4. CASE q.op = "write"
    <3>1. System(q) = Write(q)
      BY <2>4 DEF System
    <3> QED
      BY <1>1, <2>4, <3>1, WriteEffect
  <2>5. CASE q.op \notin {"open", "read", "write", "close"}
    BY <1>1, <2>5, NamesEffect DEF Ops
  <2> QED
    BY <2>1, <2>2, <2>3, <2>4, <2>5
<1>2. CASE o = Fault(q)
  <2>1. CASE q.op = "close"
    <3>1. System(q) = Close(q) /\ o = [System(q) EXCEPT !.err = TRUE]
      BY <1>2, <2>1 DEF System, Fault
    <3>2. DOMAIN Close(q) = {"k", "err", "val"}
      BY DEF Close, Outcome, Failure
    <3>3. o.k = Close(q).k
      BY <3>1, <3>2
    <3> QED
      BY <2>1, <3>3, CloseEffect
  <2>2. CASE q.op # "close"
    <3>1. o.k = k /\ o.err
      BY <1>2, <2>2 DEF Fault, Failure
    <3> QED
      BY <2>2, <3>1 DEF SameOwners
  <2> QED
    BY <2>1, <2>2
<1> QED
  BY <1>1, <1>2 DEF Outcomes

-----------------------------------------------------------------------------
(* The continuations.                                                      *)

\* x is what becomes of a call c after its request q: the requests that follow use the
\* descriptor that q has used, or the one it has opened.
Follows(q, c, o, x) ==
  /\ CallShape(x.call) /\ x.call.sync = c.sync /\ x.call.stray = c.stray
  /\ \A r \in x.reqs : RequestShape(r) /\ r.call = q.call /\ r.op \in Uses
  /\ x.reqs # {} => \/ q.op \in {"read", "write"} /\ x.call.fd = c.fd
                    \/ q.op = "open" /\ ~o.err /\ x.call.fd = o.val[1]

\* The requests that the continuations make.
LEMMA RequestsMade ==
    ASSUME NEW q, NEW op \in Uses, NEW a, NEW n
    PROVE  LET r == Request(q, op, a, n)
           IN  RequestShape(r) /\ r.call = q.call /\ r.op = op
  BY DEF Request, RequestShape, Ops, Uses

\* The requests that read() and write() make belong to the call d that c has become.
Restarts(q, d, x) ==
  /\ CallShape(x.call) /\ x.call.sync = d.sync /\ x.call.stray = d.stray
  /\ x.call.failed = d.failed /\ x.call.fd = d.fd
  /\ \A r \in x.reqs : RequestShape(r) /\ r.call = q.call /\ r.op \in {"read", "write"}
  /\ \A r1, r2 \in x.reqs : r1 = r2

\* The call of read() or write() for a call d.
LEMMA StartEffect ==
    ASSUME NEW q, NEW d, CallShape(d), NEW x \in StartRead(q, d) \union StartWrite(q, d)
    PROVE  Restarts(q, d, x)
<1> DEFINE rd == Request(q, "read", 0, 1)
           wr == Request(q, "write", d.written, 1)
           th == [d EXCEPT !.threw = TRUE]
<1>1. \/ x = [call |-> d, reqs |-> {rd}]
      \/ x = [call |-> d, reqs |-> {wr}]
      \/ x = [call |-> th, reqs |-> {}]
  BY DEF StartRead, StartWrite, Goes
<1>2. /\ RequestShape(rd) /\ rd.call = q.call /\ rd.op = "read"
      /\ RequestShape(wr) /\ wr.call = q.call /\ wr.op = "write"
  BY RequestsMade DEF Uses
<1>3. /\ CallShape(th) /\ th.sync = d.sync /\ th.stray = d.stray /\ th.failed = d.failed
      /\ th.fd = d.fd
  BY DEF CallShape, CallFields
<1> HIDE DEF rd, wr, th
<1> QED
  BY <1>1, <1>2, <1>3 DEF Restarts

\* The callbacks.
LEMMA CallsEffect ==
    ASSUME NEW q, NEW c, CallShape(c), NEW o, NEW e, NEW d, NEW x \in Calls(c, e, d)
    PROVE  Follows(q, c, o, x) /\ x.call.failed = c.failed /\ x.reqs = {}
  BY DEF Calls, Goes, Follows, CallShape, CallFields

\* An asynchronous call: unless a read or write failed, one request follows at most.
LEMMA AsyncEffect ==
    ASSUME NEW q, RequestShape(q), NEW c, CallShape(c), ~c.sync, NEW o, NEW x \in Continue(q, c, o)
    PROVE  /\ Follows(q, c, o, x)
           /\ c.failed => x.call.failed
           /\ ~x.call.failed => \A r1, r2 \in x.reqs : r1 = r2
<1> DEFINE end == CloseEnd(q, c)
           error == CloseError(q, c)
<1>0. /\ RequestShape(end) /\ end.call = q.call /\ end.op = "close"
      /\ RequestShape(error) /\ error.call = q.call /\ error.op = "close"
  BY RequestsMade DEF CloseEnd, CloseError, Uses
<1>1. CASE q.op \notin {"open", "read", "write", "close"}
  <2>1. x \in Calls(c, o.err, o.val)
    BY <1>1 DEF Continue
  <2> QED
    BY <2>1, CallsEffect
<1>2. CASE q.op = "open"
  <2>1. x \in AfterOpen(q, c, o)
    BY <1>2 DEF Continue
  <2>2. CASE o.err
    <3>1. x \in Calls(c, TRUE, <<>>)
      BY <2>1, <2>2 DEF AfterOpen
    <3> QED
      BY <3>1, CallsEffect
  <2>3. CASE ~o.err
    <3> DEFINE opened == [c EXCEPT !.fd = o.val[1], !.inode = o.val[2]]
    <3>1. x \in StartRead(q, opened) \union StartWrite(q, opened)
      BY <2>1, <2>3 DEF AfterOpen
    <3>2. /\ CallShape(opened) /\ opened.sync = c.sync /\ opened.stray = c.stray
          /\ opened.failed = c.failed /\ opened.fd = o.val[1]
      BY DEF CallShape, CallFields
    <3> HIDE DEF opened
    <3>3. Restarts(q, opened, x)
      BY <3>1, <3>2, StartEffect
    <3> QED
      BY <1>2, <2>3, <3>2, <3>3 DEF Restarts, Follows, Uses
  <2> QED
    BY <2>2, <2>3
<1>3. CASE q.op = "read"
  <2>1. x \in AfterRead(q, c, o)
    BY <1>3 DEF Continue
  <2>2. CASE o.err
    <3>1. x = [call |-> [c EXCEPT !.failed = TRUE], reqs |-> {error, end}]
      BY <2>1, <2>2 DEF AfterRead, Goes
    <3>2. /\ x.reqs = {error, end} /\ CallShape(x.call) /\ x.call.sync = c.sync
          /\ x.call.stray = c.stray /\ x.call.failed = TRUE /\ x.call.fd = c.fd
      BY <3>1 DEF CallShape, CallFields
    <3> HIDE DEF error, end
    <3> QED
      BY <1>0, <1>3, <3>2 DEF Follows, Uses
  <2>3. CASE ~o.err /\ o.val = <<>>
    <3>1. x.call = c /\ x.reqs = {end}
      BY <2>1, <2>3 DEF AfterRead, Goes
    <3> HIDE DEF error, end
    <3> QED
      BY <1>0, <1>3, <3>1 DEF Follows, Uses
  <2>4. CASE ~o.err /\ o.val # <<>>
    <3> DEFINE more == [c EXCEPT !.got = c.got \o o.val]
    <3>1. x \in StartRead(q, more)
      BY <2>1, <2>4 DEF AfterRead
    <3>2. /\ CallShape(more) /\ more.sync = c.sync /\ more.stray = c.stray
          /\ more.failed = c.failed /\ more.fd = c.fd
      BY DEF CallShape, CallFields
    <3> HIDE DEF more
    <3>3. x \in StartRead(q, more) \union StartWrite(q, more)
      BY <3>1
    <3>4. Restarts(q, more, x)
      BY <3>2, <3>3, StartEffect
    <3> QED
      BY <1>3, <3>2, <3>4 DEF Restarts, Follows, Uses
  <2> QED
    BY <2>2, <2>3, <2>4
<1>4. CASE q.op = "write"
  <2>1. x \in AfterWrite(q, c, o)
    BY <1>4 DEF Continue
  <2>2. CASE o.err
    <3> DEFINE next == [c EXCEPT !.failed = TRUE, !.round = @ + 1]
               last == [next EXCEPT !.threw = TRUE]
               again == Request(q, "write", 0, 0)
    <3>1. \/ x.call = last /\ x.reqs = {error}
          \/ x.call = next /\ x.reqs = {error, again}
      BY <2>1, <2>2 DEF AfterWrite, Goes
    <3>2. /\ CallShape(next) /\ next.sync = c.sync /\ next.stray = c.stray /\ next.failed = TRUE
          /\ next.fd = c.fd
      BY DEF CallShape, CallFields
    <3> HIDE DEF next
    <3>3. /\ CallShape(last) /\ last.sync = c.sync /\ last.stray = c.stray /\ last.failed = TRUE
          /\ last.fd = c.fd
      BY <3>2 DEF CallShape, CallFields
    <3>4. RequestShape(again) /\ again.call = q.call /\ again.op = "write"
      BY RequestsMade DEF Uses
    <3> HIDE DEF last, again, error
    <3> QED
      BY <1>0, <1>4, <3>1, <3>2, <3>3, <3>4 DEF Follows, Uses
  <2>3. CASE ~o.err /\ (o.val = <<0>> \/ c.written + 1 = c.len)
    <3>1. x.call = c /\ x.reqs = {end}
      BY <2>1, <2>3 DEF AfterWrite, Goes
    <3> HIDE DEF error, end
    <3> QED
      BY <1>0, <1>4, <3>1 DEF Follows, Uses
  <2>4. CASE ~o.err /\ ~(o.val = <<0>> \/ c.written + 1 = c.len)
    <3> DEFINE more == [c EXCEPT !.written = c.written + 1]
    <3>1. x \in StartWrite(q, more)
      BY <2>1, <2>4 DEF AfterWrite
    <3>2. /\ CallShape(more) /\ more.sync = c.sync /\ more.stray = c.stray
          /\ more.failed = c.failed /\ more.fd = c.fd
      BY DEF CallShape, CallFields
    <3> HIDE DEF more
    <3>3. x \in StartRead(q, more) \union StartWrite(q, more)
      BY <3>1
    <3>4. Restarts(q, more, x)
      BY <3>2, <3>3, StartEffect
    <3> QED
      BY <1>4, <3>2, <3>4 DEF Restarts, Follows, Uses
  <2> QED
    BY <2>2, <2>3, <2>4
<1>5. CASE q.op = "close"
  <2>1. x \in Calls(c, o.err, IF q.arg = 0 /\ c.kind = "readFile" THEN c.got ELSE <<>>)
    BY <1>5 DEF Continue, AfterClose
  <2> QED
    BY <2>1, CallsEffect
<1> QED
  BY <1>1, <1>2, <1>3, <1>4, <1>5

\* A synchronous call: one request follows at most, and after a failure only close().
LEMMA SyncEffect ==
    ASSUME NEW q, RequestShape(q), NEW c, CallShape(c), c.sync, q.op # "close" => ~c.failed,
           NEW o, NEW x \in Continue(q, c, o)
    PROVE  /\ Follows(q, c, o, x)
           /\ c.failed => x.call.failed
           /\ \A r1, r2 \in x.reqs : r1 = r2
           /\ \A r \in x.reqs : r.op # "close" => ~x.call.failed
<1> DEFINE end == CloseEnd(q, c)
<1>0. RequestShape(end) /\ end.call = q.call /\ end.op = "close"
  BY RequestsMade DEF CloseEnd, Uses
<1>1. CASE q.op \notin {"open", "read", "write", "close"}
  <2>1. x \in Calls(c, o.err, o.val)
    BY <1>1 DEF Continue
  <2> QED
    BY <2>1, CallsEffect
<1>2. CASE q.op = "open"
  <2> DEFINE opened == [c EXCEPT !.fd = o.val[1], !.inode = o.val[2]]
  <2>1. /\ CallShape(opened) /\ opened.sync = c.sync /\ opened.stray = c.stray
        /\ opened.failed = c.failed /\ opened.fd = o.val[1]
    BY DEF CallShape, CallFields
  <2>2. Continue(q, c, o) =
          IF o.err THEN Calls(c, TRUE, <<>>)
          ELSE IF c.kind = "readFile" THEN StartRead(q, opened)
          ELSE IF Accepts(0, 1, c.len) THEN StartWrite(q, opened)
          ELSE Goes(opened, {end})
    BY <1>2 DEF Continue, AfterSyncStep
  <2> HIDE DEF opened, end
  <2>3. CASE x \in Calls(c, TRUE, <<>>)
    BY <2>3, CallsEffect
  <2>4. CASE ~o.err /\ x \in StartRead(q, opened) \union StartWrite(q, opened)
    <3>1. Restarts(q, opened, x)
      BY <2>1, <2>4, StartEffect
    <3> QED
      BY <1>2, <2>1, <2>4, <3>1 DEF Restarts, Follows, Uses
  <2>5. CASE ~o.err /\ x \in Goes(opened, {end})
    <3>1. x.call = opened /\ x.reqs = {end}
      BY <2>5 DEF Goes
    <3> QED
      BY <1>0, <1>2, <2>1, <2>5, <3>1 DEF Follows, Uses
  <2> QED
    BY <2>2, <2>3, <2>4, <2>5
<1>3. CASE q.op \in {"read", "write"}
  <2> DEFINE ended == [c EXCEPT !.failed = o.err]
             read == [c EXCEPT !.got = c.got \o o.val]
             wrote == [c EXCEPT !.written = c.written + 1]
  <2>1. /\ CallShape(ended) /\ ended.sync = c.sync /\ ended.stray = c.stray /\ ended.fd = c.fd
        /\ CallShape(read) /\ read.sync = c.sync /\ read.stray = c.stray /\ read.fd = c.fd
        /\ CallShape(wrote) /\ wrote.sync = c.sync /\ wrote.stray = c.stray /\ wrote.fd = c.fd
        /\ read.failed = c.failed /\ wrote.failed = c.failed
    BY DEF CallShape, CallFields
  <2>2. \/ Continue(q, c, o) = Goes(ended, {end})
        \/ Continue(q, c, o) = StartRead(q, read)
        \/ Continue(q, c, o) = StartWrite(q, wrote)
    <3>1. CASE q.op = "read"
      BY <3>1 DEF Continue, AfterSyncStep
    <3>2. CASE q.op = "write"
      BY <3>2 DEF Continue, AfterSyncStep
    <3> QED
      BY <1>3, <3>1, <3>2
  <2> HIDE DEF ended, read, wrote, end
  <2>3. CASE x \in Goes(ended, {end})
    <3>1. x.call = ended /\ x.reqs = {end}
      BY <2>3 DEF Goes
    <3>2. ~c.failed
      BY <1>3
    <3> QED
      BY <1>0, <1>3, <2>1, <3>1, <3>2 DEF Follows, Uses
  <2>4. CASE x \in StartRead(q, read)
    <3>1. Restarts(q, read, x)
      BY <2>1, <2>4, StartEffect
    <3> QED
      BY <1>3, <2>1, <3>1 DEF Restarts, Follows, Uses
  <2>5. CASE x \in StartWrite(q, wrote)
    <3>1. Restarts(q, wrote, x)
      BY <2>1, <2>5, StartEffect
    <3> QED
      BY <1>3, <2>1, <3>1 DEF Restarts, Follows, Uses
  <2> QED
    BY <2>2, <2>3, <2>4, <2>5
<1>4. CASE q.op = "close"
  <2>1. x \in Calls(c, o.err, IF q.arg = 0 /\ c.kind = "readFile" THEN c.got ELSE <<>>)
    BY <1>4 DEF Continue, AfterSyncStep, AfterClose
  <2> QED
    BY <2>1, CallsEffect
<1> QED
  BY <1>1, <1>2, <1>3, <1>4

-----------------------------------------------------------------------------
(* The invariant.                                                          *)

Owns(c, f) == f \in Fds /\ k.fds[f].owner = c

\* No read or write has failed.
Quiet == \A c \in DOMAIN calls : ~calls[c].failed

\* A request that waits to be executed uses a descriptor of its own call.
Held(q) == q.op \in Uses => Owns(q.call, calls[q.call].fd)

\* One that has been executed has left the call its descriptor, unless it was close().
HeldDone(d) ==
  /\ d.q.op \in {"read", "write"} => Owns(d.q.call, calls[d.q.call].fd)
  /\ d.q.op = "open" /\ ~d.err => Owns(d.q.call, d.val[1])

ShapeInv ==
  /\ KernelShape(k)
  /\ \E S : calls \in Seq(S)
  /\ \E S : done \in Seq(S)
  /\ \A c \in DOMAIN calls : CallShape(calls[c])

\* The requests of asynchronous calls go through the pool, and a synchronous call has one
\* request at a time, which is close() if another one failed.
PoolInv == \A q \in pool : RequestShape(q) /\ q.call \in DOMAIN calls /\ ~calls[q.call].sync

DoneInv ==
  \A i \in DOMAIN done :
      /\ RequestShape(done[i].q) /\ done[i].q.call \in DOMAIN calls
      /\ ~calls[done[i].q.call].sync

JsInv ==
  \/ js = <<>>
  \/ \E q : /\ js = <<q>> /\ RequestShape(q) /\ q.call \in DOMAIN calls /\ calls[q.call].sync
            /\ q.op # "close" => ~calls[q.call].failed

\* An asynchronous call has one request at a time.
OneRequest ==
  /\ \A q, r \in pool : q.call = r.call => q = r
  /\ \A q \in pool, i \in DOMAIN done : q.call # done[i].q.call
  /\ \A i, j \in DOMAIN done : done[i].q.call = done[j].q.call => i = j

OwnPart ==
  /\ \A c \in DOMAIN calls : ~calls[c].stray
  /\ OneRequest
  /\ \A q \in pool : Held(q)
  /\ \A i \in DOMAIN done : HeldDone(done[i])
  /\ \A i \in DOMAIN js : Held(js[i])

FsInv == ShapeInv /\ PoolInv /\ DoneInv /\ JsInv /\ (Quiet => OwnPart)

\* The sequence of at most one request.
LEMMA SeqOfOne ==
    ASSUME NEW S, \A a, b \in S : a = b
    PROVE  SetToSeq(S) = <<>> \/ \E a \in S : SetToSeq(S) = <<a>>
<1>1. CASE S = {}
  <2>1. Cardinality(S) = 0
    BY <1>1, FS_EmptySet
  <2> DEFINE f == [i \in 1 .. 0 |-> 0]
  <2>2. f \in [1 .. Cardinality(S) -> S] /\ IsInjective(f)
    BY <2>1 DEF IsInjective
  <2>3. SetToSeq(S) \in [1 .. Cardinality(S) -> S]
    BY <2>2, Zenon DEF SetToSeq
  <2> QED
    BY <2>1, <2>3
<1>2. ASSUME NEW a \in S PROVE SetToSeq(S) = <<a>>
  <2>1. S = {a}
    OBVIOUS
  <2>2. Cardinality(S) = 1
    BY <2>1, FS_Singleton
  <2> DEFINE f == [i \in 1 .. 1 |-> a]
  <2>3. f \in [1 .. Cardinality(S) -> S] /\ IsInjective(f)
    BY <2>2 DEF IsInjective
  <2>4. SetToSeq(S) \in [1 .. Cardinality(S) -> S]
    BY <2>3, Zenon DEF SetToSeq
  <2> QED
    BY <2>1, <2>2, <2>4
<1> QED
  BY <1>1, <1>2

\* What a call owns stays its own while requests of others, or its own but close(), run.
LEMMA OwnsKept ==
    ASSUME KernelShape(k), NEW q, q.op \in Ops, Held(q), NEW o \in Outcomes(q),
           NEW c, NEW f, Owns(c, f), c # 0, c # q.call \/ q.op # "close"
    PROVE  f \in Fds /\ o.k.fds[f].owner = c
<1>1. f \in Fds /\ k.fds[f].owner = c
  BY DEF Owns
<1>2. CASE SameOwners(k, o.k)
  BY <1>1, <1>2 DEF SameOwners
<1>3. CASE q.op = "open" /\ o.val[1] \in FreeFds /\ OwnerSet(k, o.k, o.val[1], q.call)
  <2>1. k.fds[o.val[1]].owner = 0
    BY <1>3 DEF FreeFds, NoFd
  <2>2. f # o.val[1]
    BY <1>1, <2>1
  <2> QED
    BY <1>1, <1>3, <2>2 DEF OwnerSet
<1>4. CASE q.op = "close" /\ OwnerSet(k, o.k, calls[q.call].fd, 0)
  <2>1. k.fds[calls[q.call].fd].owner = q.call
    BY <1>4 DEF Held, Owns, Uses
  <2>2. f # calls[q.call].fd
    BY <1>1, <1>4, <2>1
  <2> QED
    BY <1>1, <1>4, <2>2 DEF OwnerSet
<1> QED
  BY <1>2, <1>3, <1>4, OutcomeEffect

-----------------------------------------------------------------------------
(* The steps.                                                              *)

\* What the user's call adds to the calls.
LEMMA StartCalls ==
    ASSUME FsInv, NEW what, NEW sync, NEW path, NEW to, NEW len, Start(what, sync, path, to, len)
    PROVE  LET c == Len(calls) + 1
           IN  /\ c \notin DOMAIN calls /\ DOMAIN calls' = DOMAIN calls \union {c}
               /\ \E S : calls' \in Seq(S)
               /\ CallShape(calls'[c]) /\ calls'[c].sync = sync
               /\ ~calls'[c].failed /\ ~calls'[c].stray
               /\ \A d \in DOMAIN calls :
                     /\ CallShape(calls'[d]) /\ calls'[d].sync = calls[d].sync
                     /\ calls'[d].failed = calls[d].failed /\ calls'[d].stray = calls[d].stray
                     /\ calls'[d].fd = calls[d].fd
<1> DEFINE c == Len(calls) + 1
           new == [NewCall(what, sync, path, to, len) EXCEPT !.with = Active]
           upd(d) == IF d \in Active THEN [calls[d] EXCEPT !.with = @ \union {c}] ELSE calls[d]
           old == [d \in DOMAIN calls |-> upd(d)]
<1>1. PICK S : calls \in Seq(S)
  BY DEF FsInv, ShapeInv
<1>2. DOMAIN calls = 1 .. Len(calls) /\ Len(calls) \in Nat
  BY <1>1
<1>3. calls' = Append(old, new)
  BY DEF Start
<1>4. CallShape(new) /\ new.sync = sync /\ ~new.failed /\ ~new.stray
  BY DEF NewCall, CallShape, CallFields
<1>5. ASSUME NEW d \in DOMAIN calls
      PROVE  /\ CallShape(upd(d)) /\ upd(d).sync = calls[d].sync
             /\ upd(d).failed = calls[d].failed /\ upd(d).stray = calls[d].stray
             /\ upd(d).fd = calls[d].fd
  <2>1. CallShape(calls[d])
    BY DEF FsInv, ShapeInv
  <2> QED
    BY <2>1 DEF CallShape, CallFields
<1> HIDE DEF new, upd
<1>6. /\ old \in Seq({upd(d) : d \in DOMAIN calls} \union {new})
      /\ Len(old) = Len(calls)
      /\ \A d \in DOMAIN calls : old[d] = upd(d)
  BY <1>2
<1> HIDE DEF old
<1>7. /\ calls' \in Seq({upd(d) : d \in DOMAIN calls} \union {new})
      /\ DOMAIN calls' = DOMAIN calls \union {c} /\ c \notin DOMAIN calls
      /\ calls'[c] = new
      /\ \A d \in DOMAIN calls : calls'[d] = old[d]
  BY <1>2, <1>3, <1>6
<1> QED
  BY <1>4, <1>5, <1>6, <1>7

\* A new call has no request but its first one, which uses no descriptor.
LEMMA UserKeeps ==
    ASSUME FsInv, UserCall
    PROVE  FsInv'
<1>1. PICK what \in Kinds, sync \in BOOLEAN, path \in Paths, to \in Paths, len \in Lengths :
         Start(what, sync, path, to, len)
  BY DEF UserCall
<1> DEFINE c == Len(calls) + 1
           q == [call |-> c, arg |-> 0, n |-> 0,
                 op |-> IF what \in {"readFile", "writeFile"} THEN "open" ELSE what]
<1>2. /\ c \notin DOMAIN calls /\ DOMAIN calls' = DOMAIN calls \union {c}
      /\ \E S : calls' \in Seq(S)
      /\ CallShape(calls'[c]) /\ calls'[c].sync = sync
      /\ ~calls'[c].failed /\ ~calls'[c].stray
      /\ \A d \in DOMAIN calls :
            /\ CallShape(calls'[d]) /\ calls'[d].sync = calls[d].sync
            /\ calls'[d].failed = calls[d].failed /\ calls'[d].stray = calls[d].stray
            /\ calls'[d].fd = calls[d].fd
  BY <1>1, StartCalls
<1>3. /\ js = <<>> /\ UNCHANGED <<k, done>>
      /\ pool' = IF sync THEN pool ELSE pool \union {q}
      /\ js' = IF sync THEN <<q>> ELSE js
  BY <1>1 DEF Start
<1>4. RequestShape(q) /\ q.call = c /\ q.op \notin Uses
  <2>1. what \in {"readFile", "writeFile", "stat", "mkdir", "rmdir", "unlink", "rename", "readdir"}
    BY ConstantsAssumption
  <2> QED
    BY <2>1 DEF RequestShape, Ops, Uses
<1> HIDE DEF c, q
<1>5. ShapeInv'
  BY <1>2, <1>3 DEF FsInv, ShapeInv, KernelShape, Fds
<1>6. PoolInv'
  BY <1>2, <1>3, <1>4 DEF FsInv, PoolInv
<1>7. DoneInv'
  BY <1>2, <1>3 DEF FsInv, DoneInv
<1>8. JsInv'
  BY <1>2, <1>3, <1>4 DEF JsInv
<1>9. ASSUME Quiet' PROVE OwnPart'
  <2>1. Quiet
    BY <1>2, <1>9 DEF Quiet
  <2>2. OwnPart
    BY <2>1 DEF FsInv
  <2>3. OneRequest'
    BY <1>2, <1>3, <1>4, <2>2 DEF FsInv, PoolInv, DoneInv, OwnPart, OneRequest
  <2>4. \A r \in pool' : Held(r)'
    BY <1>2, <1>3, <1>4, <2>2 DEF FsInv, PoolInv, OwnPart, Held, Owns
  <2>5. \A i \in DOMAIN done' : HeldDone(done[i])'
    BY <1>2, <1>3, <2>2 DEF FsInv, DoneInv, OwnPart, HeldDone, Owns
  <2>6. \A i \in DOMAIN js' : Held(js[i])'
    BY <1>3, <1>4 DEF Held
  <2>7. \A d \in DOMAIN calls' : ~calls'[d].stray
    BY <1>2, <2>2 DEF OwnPart
  <2> QED
    BY <2>3, <2>4, <2>5, <2>6, <2>7 DEF OwnPart
<1> QED
  BY <1>5, <1>6, <1>7, <1>8, <1>9 DEF FsInv

\* A request that is executed leaves the kernel in shape.
LEMMA OutcomeShape ==
    ASSUME KernelShape(k), NEW q, q.op \in Ops, NEW o \in Outcomes(q)
    PROVE  KernelShape(o.k)
  BY OutcomeEffect DEF SameOwners, OwnerSet

\* A thread executes a request of an asynchronous call.
LEMMA WorkerKeeps ==
    ASSUME FsInv, Worker
    PROVE  FsInv'
<1>1. PICK q \in pool : \E o \in Outcomes(q) :
         /\ k' = o.k /\ pool' = pool \ {q}
         /\ done' = Append(done, [q |-> q, err |-> o.err, val |-> o.val])
         /\ calls' = [calls EXCEPT ![q.call].stray = @ \/ Stray(q)]
         /\ UNCHANGED js
  BY DEF Worker, Execute
<1>2. PICK o \in Outcomes(q) :
         /\ k' = o.k /\ pool' = pool \ {q}
         /\ done' = Append(done, [q |-> q, err |-> o.err, val |-> o.val])
         /\ calls' = [calls EXCEPT ![q.call].stray = @ \/ Stray(q)]
         /\ UNCHANGED js
  BY <1>1
<1>3. RequestShape(q) /\ q.op \in Ops /\ q.call \in DOMAIN calls /\ ~calls[q.call].sync
  BY DEF FsInv, PoolInv, RequestShape
<1>4. PICK S : calls \in Seq(S)
  BY DEF FsInv, ShapeInv
<1>5. PICK T : done \in Seq(T)
  BY DEF FsInv, ShapeInv
<1> DEFINE d == [q |-> q, err |-> o.err, val |-> o.val]
           c == [calls[q.call] EXCEPT !.stray = @ \/ Stray(q)]
<1>6. /\ CallShape(c) /\ c.sync = calls[q.call].sync /\ c.failed = calls[q.call].failed
      /\ c.fd = calls[q.call].fd /\ c.stray = (calls[q.call].stray \/ Stray(q))
  <2>1. CallShape(calls[q.call])
    BY <1>3 DEF FsInv, ShapeInv
  <2> QED
    BY <2>1 DEF CallShape, CallFields
<1>7. calls' = [calls EXCEPT ![q.call] = c]
  BY <1>2
<1>8. d.q = q /\ d.err = o.err /\ d.val = o.val
  OBVIOUS
<1>9. done' = Append(done, d)
  BY <1>2
<1> HIDE DEF c, d
<1>10. /\ DOMAIN calls' = DOMAIN calls /\ calls' \in Seq(S \union {c})
       /\ \A e \in DOMAIN calls :
            /\ CallShape(calls'[e]) /\ calls'[e].sync = calls[e].sync
            /\ calls'[e].failed = calls[e].failed /\ calls'[e].fd = calls[e].fd
            /\ calls'[e].stray => calls[e].stray \/ Stray(q)
  <2>1. DOMAIN calls' = DOMAIN calls
    BY <1>7
  <2>2. \A e \in DOMAIN calls : calls'[e] = IF e = q.call THEN c ELSE calls[e]
    BY <1>7
  <2>3. calls' \in Seq(S \union {c})
    <3>1. calls \in Seq(S \union {c}) /\ c \in S \union {c}
      BY <1>4
    <3> QED
      BY <1>3, <1>7, <3>1
  <2>4. \A e \in DOMAIN calls : CallShape(calls[e])
    BY DEF FsInv, ShapeInv
  <2> QED
    BY <1>6, <2>1, <2>2, <2>3, <2>4
<1>11. /\ done' \in Seq(T \union {d})
       /\ DOMAIN done' = DOMAIN done \union {Len(done) + 1} /\ Len(done) + 1 \notin DOMAIN done
       /\ done'[Len(done) + 1] = d
       /\ \A i \in DOMAIN done : done'[i] = done[i]
  BY <1>5, <1>9
<1> DEFINE n == Len(done) + 1
<1> HIDE DEF n
<1>12. ShapeInv'
  <2>1. KernelShape(k')
    BY <1>2, <1>3, OutcomeShape DEF FsInv, ShapeInv
  <2>2. KernelShape(k)'
    BY <2>1 DEF KernelShape, Fds
  <2> QED
    BY <1>10, <1>11, <2>2 DEF ShapeInv
<1>13. PoolInv'
  BY <1>2, <1>10 DEF FsInv, PoolInv
<1>14. DoneInv'
  BY <1>3, <1>8, <1>10, <1>11 DEF FsInv, DoneInv, n
<1>15. JsInv'
  BY <1>2, <1>10 DEF FsInv, JsInv
<1>16. ASSUME Quiet' PROVE OwnPart'
  <2>1. Quiet
    BY <1>10, <1>16 DEF Quiet
  <2>2. OwnPart /\ Held(q)
    BY <2>1 DEF FsInv, OwnPart
  <2>3. ~Stray(q)
    BY <2>2 DEF Held, Owns, Stray, Uses
  <2>4. \A e \in DOMAIN calls' : ~calls'[e].stray
    BY <1>10, <2>2, <2>3 DEF OwnPart
  <2>5. \A e \in DOMAIN calls : e # 0
    BY <1>4
  <2>6. ASSUME NEW e \in DOMAIN calls, NEW f, Owns(e, f), e # q.call \/ q.op # "close"
        PROVE  Owns(e, f)'
    <3>1. f \in Fds /\ o.k.fds[f].owner = e
      BY <1>3, <2>2, <2>5, <2>6, OwnsKept DEF FsInv, ShapeInv
    <3> QED
      BY <1>2, <3>1 DEF Owns, Fds
  <2>7. \A r \in pool : r # q => r.call # q.call
    BY <2>2 DEF OwnPart, OneRequest
  <2>8. \A i \in DOMAIN done : done[i].q.call # q.call
    BY <2>2 DEF OwnPart, OneRequest
  <2>9. OneRequest'
    BY <1>2, <1>8, <1>11, <2>2, <2>7, <2>8 DEF OwnPart, OneRequest, n
  <2>10. \A r \in pool' : Held(r)'
    <3> SUFFICES ASSUME NEW r \in pool', r.op \in Uses PROVE Owns(r.call, calls[r.call].fd)'
      BY DEF Held
    <3>1. r \in pool /\ r # q /\ r.call \in DOMAIN calls
      BY <1>2 DEF FsInv, PoolInv
    <3>2. Owns(r.call, calls[r.call].fd)
      BY <2>2, <3>1 DEF OwnPart, Held
    <3> QED
      BY <1>10, <2>6, <2>7, <3>1, <3>2
  <2>11. \A i \in DOMAIN js' : Held(js[i])'
    <3> SUFFICES ASSUME NEW i \in DOMAIN js, js[i].op \in Uses
                 PROVE  Owns(js[i].call, calls[js[i].call].fd)'
      BY <1>2 DEF Held
    <3>1. js[i].call \in DOMAIN calls /\ calls[js[i].call].sync
      BY DEF FsInv, JsInv
    <3>2. Owns(js[i].call, calls[js[i].call].fd)
      BY <2>2 DEF OwnPart, Held
    <3>3. js[i].call # q.call
      BY <1>3, <3>1
    <3> QED
      BY <1>2, <1>10, <2>6, <3>1, <3>2, <3>3 DEF Owns
  <2>12. /\ q.op \in {"read", "write"} => Owns(q.call, calls[q.call].fd)'
         /\ q.op = "open" /\ ~o.err => Owns(q.call, o.val[1])'
    <3>1. ASSUME q.op \in {"read", "write"} PROVE Owns(q.call, calls[q.call].fd)'
      <4>1. Owns(q.call, calls[q.call].fd)
        BY <2>2, <3>1 DEF Held, Uses
      <4> QED
        BY <1>3, <1>10, <2>6, <3>1, <4>1
    <3>2. ASSUME q.op = "open", ~o.err PROVE Owns(q.call, o.val[1])'
      <4>1. o.val[1] \in FreeFds /\ OwnerSet(k, o.k, o.val[1], q.call)
        BY <1>3, <3>2, OutcomeEffect DEF FsInv, ShapeInv
      <4> QED
        BY <1>2, <4>1 DEF FreeFds, OwnerSet, Owns, Fds
    <3> QED
      BY <3>1, <3>2
  <2>13. \A i \in DOMAIN done : HeldDone(done[i])'
    <3> SUFFICES ASSUME NEW i \in DOMAIN done PROVE HeldDone(done[i])'
      OBVIOUS
    <3>1. done[i].q.call \in DOMAIN calls /\ HeldDone(done[i])
      BY <2>2 DEF FsInv, DoneInv, OwnPart
    <3> QED
      BY <1>10, <1>11, <2>6, <2>8, <3>1 DEF HeldDone
  <2>14. \A i \in DOMAIN done' : HeldDone(done[i])'
    <3> SUFFICES ASSUME NEW i \in DOMAIN done', i \notin DOMAIN done PROVE HeldDone(done[i])'
      BY <2>13
    <3>1. done'[i] = d
      BY <1>11
    <3> QED
      BY <1>8, <2>12, <3>1 DEF HeldDone
  <2> QED
    BY <2>4, <2>9, <2>10, <2>11, <2>14 DEF OwnPart
<1> QED
  BY <1>12, <1>13, <1>14, <1>15, <1>16 DEF FsInv

\* The loop runs the continuation of the first request that is done.
LEMMA AfterAsyncKeeps ==
    ASSUME FsInv, AfterAsync
    PROVE  FsInv'
<1> DEFINE d == Head(done)
           c == d.q.call
<1>1. js = <<>> /\ done # <<>> /\ done' = Tail(done) /\ UNCHANGED <<k, js>>
  BY DEF AfterAsync
<1>2. PICK x \in Continue(d.q, calls[c], d) :
         calls' = [calls EXCEPT ![c] = x.call] /\ pool' = pool \union x.reqs
  BY DEF AfterAsync
<1>3. PICK S : calls \in Seq(S)
  BY DEF FsInv, ShapeInv
<1>4. PICK T : done \in Seq(T)
  BY DEF FsInv, ShapeInv
<1>5. /\ d = done[1] /\ 1 \in DOMAIN done
      /\ done' \in Seq(T)
      /\ \A i \in DOMAIN done' : i + 1 \in DOMAIN done /\ i + 1 # 1 /\ done'[i] = done[i + 1] /\ i \in Int
  BY <1>1, <1>4
<1>6. RequestShape(d.q) /\ c \in DOMAIN calls /\ ~calls[c].sync /\ CallShape(calls[c])
  BY <1>5 DEF FsInv, DoneInv, ShapeInv
<1>7. /\ Follows(d.q, calls[c], d, x)
      /\ calls[c].failed => x.call.failed
      /\ ~x.call.failed => \A r1, r2 \in x.reqs : r1 = r2
  BY <1>6, AsyncEffect
<1>8. /\ CallShape(x.call) /\ ~x.call.sync /\ x.call.stray = calls[c].stray
      /\ \A r \in x.reqs : RequestShape(r) /\ r.call = c /\ r.op \in Uses
      /\ x.reqs # {} => \/ d.q.op \in {"read", "write"} /\ x.call.fd = calls[c].fd
                        \/ d.q.op = "open" /\ ~d.err /\ x.call.fd = d.val[1]
  BY <1>6, <1>7 DEF Follows
<1> HIDE DEF c, d
<1>9. /\ DOMAIN calls' = DOMAIN calls
      /\ \A e \in DOMAIN calls : calls'[e] = IF e = c THEN x.call ELSE calls[e]
  BY <1>2
<1>10. calls' \in Seq(S \union {x.call})
  <2>1. calls \in Seq(S \union {x.call}) /\ x.call \in S \union {x.call}
    BY <1>3
  <2> QED
    BY <1>2, <1>6, <2>1
<1>11. ShapeInv'
  <2>1. KernelShape(k)'
    BY <1>1 DEF FsInv, ShapeInv, KernelShape, Fds
  <2>2. \A e \in DOMAIN calls' : CallShape(calls'[e])
    BY <1>8, <1>9 DEF FsInv, ShapeInv
  <2> QED
    BY <1>5, <1>10, <2>1, <2>2 DEF ShapeInv
<1>12. PoolInv'
  BY <1>2, <1>6, <1>8, <1>9 DEF FsInv, PoolInv
<1>13. DoneInv'
  BY <1>5, <1>8, <1>9 DEF FsInv, DoneInv
<1>14. JsInv'
  BY <1>1 DEF JsInv
<1>15. ASSUME Quiet' PROVE OwnPart'
  <2>1. Quiet /\ ~x.call.failed
    BY <1>6, <1>7, <1>9, <1>15 DEF Quiet
  <2>2. OwnPart
    BY <2>1 DEF FsInv
  <2>3. \A e \in DOMAIN calls' : ~calls'[e].stray
    BY <1>6, <1>8, <1>9, <2>2 DEF OwnPart
  <2>4. /\ \A r \in pool : r.call # c
        /\ \A i \in DOMAIN done' : done'[i].q.call # c
    BY <1>5, <2>2 DEF OwnPart, OneRequest, c
  <2>5. OneRequest'
    <3>1. \A q, r \in pool' : q.call = r.call => q = r
      BY <1>2, <1>7, <1>8, <2>1, <2>2, <2>4 DEF OwnPart, OneRequest
    <3>2. \A q \in pool', i \in DOMAIN done' : q.call # done'[i].q.call
      BY <1>2, <1>5, <1>8, <2>2, <2>4 DEF OwnPart, OneRequest
    <3>3. ASSUME NEW i \in DOMAIN done', NEW j \in DOMAIN done', done'[i].q.call = done'[j].q.call
          PROVE  i = j
      <4>1. i + 1 = j + 1 /\ i \in Int /\ j \in Int
        BY <1>5, <2>2, <3>3 DEF OwnPart, OneRequest
      <4> QED
        BY <4>1
    <3> QED
      BY <3>1, <3>2, <3>3 DEF OneRequest
  <2>6. x.reqs # {} => Owns(c, x.call.fd)
    <3>1. HeldDone(d)
      BY <1>5, <2>2 DEF OwnPart
    <3> QED
      BY <1>8, <3>1 DEF HeldDone, c
  <2>7. \A r \in pool' : Held(r)'
    <3> SUFFICES ASSUME NEW r \in pool', r.op \in Uses PROVE Owns(r.call, calls[r.call].fd)'
      BY DEF Held
    <3>1. CASE r \in x.reqs
      <4>1. r.call = c /\ calls'[c] = x.call /\ Owns(c, x.call.fd)
        BY <1>6, <1>8, <1>9, <2>6, <3>1
      <4> QED
        BY <1>1, <4>1 DEF Owns, Fds
    <3>2. CASE r \in pool
      <4>1. r.call \in DOMAIN calls /\ Owns(r.call, calls[r.call].fd)
        BY <2>2, <3>2 DEF FsInv, PoolInv, OwnPart, Held
      <4>2. calls'[r.call] = calls[r.call]
        BY <1>9, <2>4, <3>2, <4>1
      <4> QED
        BY <1>1, <4>1, <4>2 DEF Owns, Fds
    <3> QED
      BY <1>2, <3>1, <3>2
  <2>8. \A i \in DOMAIN done' : HeldDone(done[i])'
    <3> SUFFICES ASSUME NEW i \in DOMAIN done' PROVE HeldDone(done[i])'
      OBVIOUS
    <3>1. /\ i + 1 \in DOMAIN done /\ done'[i] = done[i + 1] /\ HeldDone(done[i + 1])
          /\ done[i + 1].q.call \in DOMAIN calls
      BY <1>5, <2>2 DEF FsInv, DoneInv, OwnPart
    <3>2. calls'[done'[i].q.call] = calls[done[i + 1].q.call]
      BY <1>9, <2>4, <3>1
    <3> QED
      BY <1>1, <3>1, <3>2 DEF HeldDone, Owns, Fds
  <2>9. \A i \in DOMAIN js' : Held(js[i])'
    BY <1>1
  <2> QED
    BY <2>3, <2>5, <2>7, <2>8, <2>9 DEF OwnPart
<1> QED
  BY <1>11, <1>12, <1>13, <1>14, <1>15 DEF FsInv

\* A synchronous request is executed and continued at once.
LEMMA SyncKeeps ==
    ASSUME FsInv, SyncStep
    PROVE  FsInv'
<1>1. PICK q : /\ js = <<q>> /\ RequestShape(q) /\ q.call \in DOMAIN calls /\ calls[q.call].sync
               /\ q.op # "close" => ~calls[q.call].failed
  BY DEF SyncStep, FsInv, JsInv
<1> DEFINE c == q.call
<1>2. Head(js) = q /\ UNCHANGED <<pool, done>>
  BY <1>1 DEF SyncStep
<1>3. PICK o \in Outcomes(q) :
         /\ k' = o.k
         /\ \E x \in Continue(q, calls[c], o) :
               /\ calls' = [calls EXCEPT ![c] = [x.call EXCEPT !.stray = @ \/ Stray(q)]]
               /\ js' = SetToSeq(x.reqs)
  BY <1>2 DEF SyncStep, Execute
<1>4. PICK x \in Continue(q, calls[c], o) :
         /\ calls' = [calls EXCEPT ![c] = [x.call EXCEPT !.stray = @ \/ Stray(q)]]
         /\ js' = SetToSeq(x.reqs)
  BY <1>3
<1> DEFINE v == [x.call EXCEPT !.stray = @ \/ Stray(q)]
<1>5. PICK S : calls \in Seq(S)
  BY DEF FsInv, ShapeInv
<1>6. CallShape(calls[c]) /\ q.op \in Ops
  BY <1>1 DEF FsInv, ShapeInv, RequestShape
<1>7. /\ Follows(q, calls[c], o, x)
      /\ calls[c].failed => x.call.failed
      /\ \A r1, r2 \in x.reqs : r1 = r2
      /\ \A r \in x.reqs : r.op # "close" => ~x.call.failed
  BY <1>1, <1>6, SyncEffect
<1>8. /\ CallShape(x.call) /\ x.call.sync /\ x.call.stray = calls[c].stray
      /\ \A r \in x.reqs : RequestShape(r) /\ r.call = c /\ r.op \in Uses
      /\ x.reqs # {} => \/ q.op \in {"read", "write"} /\ x.call.fd = calls[c].fd
                        \/ q.op = "open" /\ ~o.err /\ x.call.fd = o.val[1]
  BY <1>1, <1>7 DEF Follows
<1>9. /\ CallShape(v) /\ v.sync = x.call.sync /\ v.failed = x.call.failed /\ v.fd = x.call.fd
      /\ v.stray = (x.call.stray \/ Stray(q))
  BY <1>8 DEF CallShape, CallFields
<1>10. calls' = [calls EXCEPT ![c] = v]
  BY <1>4
<1> HIDE DEF c, v
<1>11. /\ DOMAIN calls' = DOMAIN calls
       /\ \A e \in DOMAIN calls : calls'[e] = IF e = c THEN v ELSE calls[e]
  BY <1>10
<1>12. calls' \in Seq(S \union {v})
  <2>1. calls \in Seq(S \union {v}) /\ v \in S \union {v}
    BY <1>5
  <2> QED
    BY <1>10, <1>1, <2>1 DEF c
<1>13. c \in DOMAIN calls /\ calls'[c] = v
  BY <1>1, <1>11 DEF c
<1>14. ShapeInv'
  <2>1. KernelShape(k')
    BY <1>3, <1>6, OutcomeShape DEF FsInv, ShapeInv
  <2>2. KernelShape(k)'
    BY <2>1 DEF KernelShape, Fds
  <2>3. \A e \in DOMAIN calls' : CallShape(calls'[e])
    BY <1>9, <1>11 DEF FsInv, ShapeInv
  <2>4. done' = done
    BY <1>2
  <2> QED
    BY <1>12, <2>2, <2>3, <2>4 DEF FsInv, ShapeInv
<1>15. /\ \A r \in pool : r.call \in DOMAIN calls /\ r.call # c
       /\ \A i \in DOMAIN done : done[i].q.call \in DOMAIN calls /\ done[i].q.call # c
  BY <1>1 DEF FsInv, PoolInv, DoneInv, c
<1>16. PoolInv'
  BY <1>2, <1>11, <1>15 DEF FsInv, PoolInv
<1>17. DoneInv'
  BY <1>2, <1>11, <1>15 DEF FsInv, DoneInv
<1>18. js' = <<>> \/ \E r \in x.reqs : js' = <<r>>
  BY <1>4, <1>7, SeqOfOne
<1>19. JsInv'
  <2>1. ASSUME NEW r \in x.reqs, js' = <<r>> PROVE JsInv'
    <3>1. RequestShape(r) /\ r.call = c /\ (r.op # "close" => ~x.call.failed)
      BY <1>7, <1>8
    <3> QED
      BY <1>8, <1>9, <1>11, <1>13, <2>1, <3>1 DEF JsInv
  <2> QED
    BY <1>18, <2>1 DEF JsInv
<1>20. ASSUME Quiet' PROVE OwnPart'
  <2>1. ~x.call.failed
    BY <1>9, <1>11, <1>13, <1>20 DEF Quiet
  <2>2. Quiet
    BY <1>7, <1>11, <1>20, <2>1 DEF Quiet
  <2>3. OwnPart /\ Held(q)
    BY <1>1, <2>2 DEF FsInv, OwnPart
  <2>4. ~Stray(q)
    BY <2>3 DEF Held, Owns, Stray, Uses
  <2>5. \A e \in DOMAIN calls' : ~calls'[e].stray
    BY <1>8, <1>9, <1>11, <1>13, <2>3, <2>4 DEF OwnPart
  <2>6. \A e \in DOMAIN calls : e # 0
    BY <1>5
  <2>7. ASSUME NEW e \in DOMAIN calls, NEW f, Owns(e, f), e # q.call \/ q.op # "close"
        PROVE  Owns(e, f)'
    <3>1. f \in Fds /\ o.k.fds[f].owner = e
      BY <1>6, <2>3, <2>6, <2>7, OwnsKept DEF FsInv, ShapeInv
    <3> QED
      BY <1>3, <3>1 DEF Owns, Fds
  <2>8. OneRequest'
    BY <1>2, <2>3 DEF OwnPart, OneRequest
  <2>9. \A r \in pool' : Held(r)'
    <3> SUFFICES ASSUME NEW r \in pool, r.op \in Uses PROVE Owns(r.call, calls[r.call].fd)'
      BY <1>2 DEF Held
    <3>1. Owns(r.call, calls[r.call].fd)
      BY <2>3 DEF OwnPart, Held
    <3>2. calls'[r.call] = calls[r.call]
      BY <1>11, <1>15
    <3> QED
      BY <1>15, <2>7, <3>1, <3>2 DEF c
  <2>10. \A i \in DOMAIN done' : HeldDone(done[i])'
    <3> SUFFICES ASSUME NEW i \in DOMAIN done PROVE HeldDone(done[i])'
      BY <1>2
    <3>1. HeldDone(done[i]) /\ done'[i] = done[i]
      BY <1>2, <2>3 DEF OwnPart
    <3>2. calls'[done[i].q.call] = calls[done[i].q.call]
      BY <1>11, <1>15
    <3> QED
      BY <1>15, <2>7, <3>1, <3>2 DEF HeldDone, c
  <2>11. x.reqs # {} => v.fd \in Fds /\ k'.fds[v.fd].owner = c
    <3>1. CASE q.op \in {"read", "write"} /\ x.call.fd = calls[c].fd
      <4>1. Owns(c, calls[c].fd)
        BY <2>3, <3>1 DEF Held, Uses, c
      <4>2. c # q.call \/ q.op # "close"
        BY <3>1
      <4>3. calls[c].fd \in Fds /\ o.k.fds[calls[c].fd].owner = c
        BY <1>6, <1>13, <2>3, <2>6, <4>1, <4>2, OwnsKept DEF FsInv, ShapeInv
      <4> QED
        BY <1>3, <1>9, <3>1, <4>3
    <3>2. CASE q.op = "open" /\ ~o.err /\ x.call.fd = o.val[1]
      <4>1. o.val[1] \in FreeFds /\ OwnerSet(k, o.k, o.val[1], q.call)
        BY <1>6, <3>2, OutcomeEffect DEF FsInv, ShapeInv
      <4> QED
        BY <1>3, <1>9, <3>2, <4>1 DEF FreeFds, OwnerSet, c
    <3> QED
      BY <1>8, <3>1, <3>2
  <2>12. \A i \in DOMAIN js' : Held(js[i])'
    <3>1. ASSUME NEW r \in x.reqs, js' = <<r>>, NEW i \in DOMAIN js' PROVE Held(js[i])'
      <4>1. js'[i] = r /\ r.call = c
        BY <1>8, <3>1
      <4> QED
        BY <1>13, <2>11, <4>1 DEF Held, Owns, Fds
    <3> QED
      BY <1>18, <3>1
  <2> QED
    BY <2>5, <2>8, <2>9, <2>10, <2>12 DEF OwnPart
<1> QED
  BY <1>14, <1>16, <1>17, <1>19, <1>20 DEF FsInv

\* A step keeps the invariant.
LEMMA FsNext == FsInv /\ [Next]_vars => FsInv'
<1> SUFFICES ASSUME FsInv, [Next]_vars PROVE FsInv'
  OBVIOUS
<1>1. CASE UNCHANGED vars
  BY <1>1 DEF vars, FsInv, ShapeInv, PoolInv, DoneInv, JsInv, Quiet, OwnPart, OneRequest, Held,
              HeldDone, Owns, KernelShape, Fds
<1> QED
  BY <1>1, UserKeeps, WorkerKeeps, AfterAsyncKeeps, SyncKeeps DEF Next

LEMMA FsInit == Init => FsInv
<1> SUFFICES ASSUME Init PROVE FsInv
  OBVIOUS
<1>1. /\ DOMAIN k = {"names", "files", "fds"} /\ k.fds = [f \in Fds |-> NoFd]
      /\ calls = <<>> /\ pool = {} /\ done = <<>> /\ js = <<>>
  BY DEF Init
<1>2. KernelShape(k)
  BY <1>1 DEF KernelShape, NoFd
<1> QED
  BY <1>1, <1>2 DEF FsInv, ShapeInv, PoolInv, DoneInv, JsInv, Quiet, OwnPart, OneRequest

\* As long as no read or write fails, every call reads, writes and closes only the
\* descriptor it opened itself, for any number of calls, threads' orders, descriptors and
\* failures of other requests (fs.js over iotjs_module_fs.c).
THEOREM OwnDescriptors == Spec => []OwnDescriptor
<1>1. FsInv => OwnDescriptor
  BY DEF FsInv, Quiet, OwnPart, OwnDescriptor
<1> QED
  BY <1>1, FsInit, FsNext, PTL DEF Spec

-----------------------------------------------------------------------------
(***************************************************************************)
(* Whole files.  A call is Clean as long as none of its own reads and      *)
(* writes failed and nobody disturbs it.  The request of a clean call      *)
(* finds the descriptor as the call has left it (Waiting), and leaves it   *)
(* so to the continuation (Ended); the kernel m and the record c of the    *)
(* call are arguments, because a synchronous step executes the request and *)
(* runs the continuation at once.                                          *)
(***************************************************************************)

Units == Nat \X Nat
Names == Inodes \union {0, -1}
FileKinds == {"readFile", "writeFile"}

FdType(d) ==
  /\ DOMAIN d = {"inode", "pos", "owner", "writable"}
  /\ d.inode \in Names /\ d.pos \in Nat /\ d.writable \in BOOLEAN
  /\ d.writable => d.inode \in Inodes

KernelType(m) ==
  /\ KernelShape(m) /\ m.names \in [Paths -> Names] /\ m.files \in [Inodes -> Seq(Units)]
  /\ \A f \in Fds : FdType(m.fds[f])

CallType(c) ==
  /\ CallShape(c) /\ c.kind \in Kinds /\ c.path \in Paths /\ {c.len, c.written} \subseteq Nat
  /\ c.fd \in Fds \union {0} /\ c.got \in Seq(Units) /\ {c.sync, c.failed, c.stray} \subseteq BOOLEAN

\* The request q is one that the function makes; those after open() have a descriptor.
OpFits(q, c) ==
  /\ q.op \in Uses \union {"open"} <=> c.kind \in FileKinds
  /\ q.op = "read" => c.kind = "readFile"
  /\ q.op = "write" => c.kind = "writeFile"
  /\ q.op \in Uses => c.fd \in Fds
  /\ q.op = "open" => ~c.failed
  /\ q.arg \in Nat

ValFits(q, err, val) ==
  /\ q.op = "open" /\ ~err => val[1] \in Fds /\ val[2] \in Names
  /\ q.op = "read" /\ ~err => val \in Seq(Units)

\* The requests that are to be executed.
Asking == pool \union {js[i] : i \in DOMAIN js}

\* A call has one request at a time until a read or write of it fails.
SingleInv ==
  /\ \A q, r \in pool : q.call = r.call /\ ~calls[q.call].failed => q = r
  /\ \A q \in pool, i \in DOMAIN done : ~calls[q.call].failed => q.call # done[i].q.call
  /\ \A i, j \in DOMAIN done :
        done[i].q.call = done[j].q.call /\ ~calls[done[i].q.call].failed => i = j

\* Calls that are under way at the same time know of each other.
OverlapInv == \A c, d \in Active : c # d => d \in calls[c].with

\* An inode in use was there at the start or was made by an open() that was executed: there
\* is a free one for every open() to come.
Unopened == {q.call : q \in {r \in Asking : r.op = "open"}}
InUse(m, i) == (\E p \in Paths : m.names[p] = i) \/ (\E f \in Fds : m.fds[f].inode = i)
InodeInv == \A i \in Inodes : InUse(k, i) => i <= 1 + Cardinality(DOMAIN calls \ Unopened)

Clean(c) == ~calls[c].failed /\ Disturbing(c) = {}

\* Call n with the record c has descriptor f, of the inode i.
Holds(m, n, c, f, i) ==
  /\ f \in Fds /\ m.fds[f].owner = n /\ m.fds[f].inode = i
  /\ i \in Inodes \union {-1} /\ m.fds[f].writable = (c.kind = "writeFile")

\* What was read of inode i is the beginning of it; what call n writes.
Prefix(m, i, got) ==
  i \in Inodes => /\ Len(got) <= Len(m.files[i])
                  /\ \A j \in 1 .. Len(got) : got[j] = m.files[i][j]
UnitsOf(n, len) == [j \in 1 .. len |-> <<n, j>>]

Whole(m, n, c) ==
  /\ c.kind = "readFile" /\ c.inode # -1 => c.got = m.files[c.inode]
  /\ c.kind = "writeFile" => m.files[c.inode] = UnitsOf(n, c.len)

Waiting(m, q, c) ==
  /\ c.results = <<>>
  /\ q.op = "open" => c.got = <<>> /\ c.written = 0
  /\ q.op = "read" =>
       /\ Holds(m, q.call, c, c.fd, c.inode) /\ m.fds[c.fd].pos = Len(c.got)
       /\ Prefix(m, c.inode, c.got)
  /\ q.op = "write" =>
       /\ Holds(m, q.call, c, c.fd, c.inode) /\ q.n = 1 /\ q.arg = c.written
       /\ c.written < c.len /\ m.files[c.inode] = UnitsOf(q.call, c.written)
  /\ q.op = "close" => q.arg = 0 /\ Whole(m, q.call, c)

Ended(m, q, err, val, c) ==
  /\ c.results = <<>>
  /\ q.op = "open" /\ ~err =>
       /\ Holds(m, q.call, c, val[1], val[2]) /\ m.fds[val[1]].pos = 0
       /\ c.got = <<>> /\ c.written = 0
       /\ c.kind = "writeFile" => m.files[val[2]] = <<>>
  /\ q.op = "read" /\ ~err =>
       /\ Holds(m, q.call, c, c.fd, c.inode) /\ m.fds[c.fd].pos = Len(c.got) + Len(val)
       /\ Prefix(m, c.inode, c.got \o val)
       /\ val = <<>> => c.inode \in Inodes /\ Len(c.got) = Len(m.files[c.inode])
  /\ q.op = "write" /\ ~err =>
       /\ Holds(m, q.call, c, c.fd, c.inode) /\ val = <<1>>
       /\ c.written < c.len /\ m.files[c.inode] = UnitsOf(q.call, c.written + 1)
  /\ q.op = "close" => q.arg = 0 /\ Whole(m, q.call, c)

TypeInv ==
  /\ KernelType(k) /\ Len(calls) <= MaxCalls
  /\ \A c \in DOMAIN calls : CallType(calls[c]) /\ calls[c].with \subseteq DOMAIN calls
FitInv ==
  /\ \A q \in Asking : OpFits(q, calls[q.call])
  /\ \A i \in DOMAIN done : /\ OpFits(done[i].q, calls[done[i].q.call])
                            /\ ValFits(done[i].q, done[i].err, done[i].val)
                            /\ done[i].err \in BOOLEAN
CleanInv ==
  \A c \in DOMAIN calls :
     Clean(c) => /\ \A q \in Asking : q.call = c => Waiting(k, q, calls[c])
                 /\ \A i \in DOMAIN done : done[i].q.call = c =>
                       Ended(k, done[i].q, done[i].err, done[i].val, calls[c])

WholeInv == TypeInv /\ FitInv /\ SingleInv /\ OverlapInv /\ InodeInv /\ CleanInv

-----------------------------------------------------------------------------
(* What the system calls do, exactly.                                      *)

\* The kernel n has these names, files and descriptors.
Becomes(n, names, files, fds) ==
  /\ DOMAIN n = {"names", "files", "fds"}
  /\ n.names = names /\ n.files = files /\ n.fds = fds

LEMMA KernelAlike ==
    ASSUME NEW m, KernelShape(m)
    PROVE  Becomes(m, m.names, m.files, m.fds)
  BY DEF KernelShape, Becomes

\* open(): a free descriptor for the file of that name, or for a new one.
OpenDoes(q, o) ==
  LET p == calls[q.call].path
      w == calls[q.call].kind = "writeFile"
      i == IF k.names[p] = 0 THEN FreeInode ELSE k.names[p]
  IN  \/ o.err /\ o.k = k
      \/ \E f \in FreeFds :
           /\ ~o.err /\ o.val = <<f, i>>
           /\ IF w THEN k.names[p] # -1 ELSE k.names[p] # 0
           /\ Becomes(o.k, [k.names EXCEPT ![p] = i],
                      IF w THEN [k.files EXCEPT ![i] = <<>>] ELSE k.files,
                      [k.fds EXCEPT ![f] = [inode |-> i, pos |-> 0, owner |-> q.call,
                                            writable |-> w]])

LEMMA OpenExact ==
    ASSUME KernelType(k), NEW q
    PROVE  OpenDoes(q, Open(q))
<1> DEFINE p == calls[q.call].path
           w == calls[q.call].kind = "writeFile"
           i == IF k.names[p] = 0 THEN FreeInode ELSE k.names[p]
           f == Min(FreeFds)
           m == [k EXCEPT !.names[p] = i,
                          !.files = IF w THEN [@ EXCEPT ![i] = <<>>] ELSE @,
                          !.fds[f] = [inode |-> i, pos |-> 0, owner |-> q.call, writable |-> w]]
<1>1. CASE FreeFds = {} \/ (IF w THEN k.names[p] = -1 ELSE k.names[p] = 0)
  <2>1. Open(q) = Failure
    BY <1>1 DEF Open
  <2> QED
    BY <2>1 DEF Failure, OpenDoes
<1>2. CASE ~(FreeFds = {} \/ (IF w THEN k.names[p] = -1 ELSE k.names[p] = 0))
  <2>1. Open(q) = Outcome(m, <<f, i>>)
    BY <1>2 DEF Open
  <2>2. f \in FreeFds
    BY <1>2, FirstFree
  <2>3. IF w THEN k.names[p] # -1 ELSE k.names[p] # 0
    BY <1>2
  <2> HIDE DEF f, i, w, p
  <2>4. Becomes(m, [k.names EXCEPT ![p] = i],
                IF w THEN [k.files EXCEPT ![i] = <<>>] ELSE k.files,
                [k.fds EXCEPT ![f] = [inode |-> i, pos |-> 0, owner |-> q.call, writable |-> w]])
    BY DEF Becomes, KernelType, KernelShape
  <2> HIDE DEF m
  <2>5. Open(q).k = m /\ Open(q).err = FALSE /\ Open(q).val = <<f, i>>
    BY <2>1 DEF Outcome
  <2> QED
    BY <2>2, <2>3, <2>4, <2>5 DEF p, w, i, OpenDoes
<1> QED
  BY <1>1, <1>2

\* read(): the unit at the position, which moves on, or nothing at the end.
ReadDoes(q, o) ==
  LET f == calls[q.call].fd
      d == k.fds[f]
  IN  \/ o.err /\ o.k = k
      \/ /\ ~o.err /\ d.inode \in Inodes /\ ~d.writable
         /\ \/ d.pos >= Len(k.files[d.inode]) /\ o.val = <<>> /\ o.k = k
            \/ /\ d.pos < Len(k.files[d.inode])
               /\ o.val = <<k.files[d.inode][d.pos + 1]>>
               /\ Becomes(o.k, k.names, k.files,
                          [k.fds EXCEPT ![f] = [d EXCEPT !.pos = d.pos + 1]])

LEMMA ReadExact ==
    ASSUME KernelType(k), NEW q, calls[q.call].fd \in Fds
    PROVE  ReadDoes(q, Read(q))
<1> DEFINE f == calls[q.call].fd
           d == k.fds[f]
           m == [k EXCEPT !.fds[f].pos = @ + 1]
<1>0. /\ d.inode \in Names /\ d.pos \in Nat /\ d.writable \in BOOLEAN
      /\ d.inode \in Inodes => Len(k.files[d.inode]) \in Nat
  BY DEF KernelType, FdType
<1>1. Becomes(m, k.names, k.files, [k.fds EXCEPT ![f] = [d EXCEPT !.pos = d.pos + 1]])
  <2>1. m.fds = [k.fds EXCEPT ![f] = [d EXCEPT !.pos = d.pos + 1]]
    BY DEF KernelType, KernelShape
  <2>2. DOMAIN m = {"names", "files", "fds"} /\ m.names = k.names /\ m.files = k.files
    BY DEF KernelType, KernelShape
  <2> HIDE DEF m
  <2> QED
    BY <2>1, <2>2 DEF Becomes
<1>2. Read(q) = IF d.inode \in {0, -1} \/ d.writable THEN Failure
                ELSE IF d.pos >= Len(k.files[d.inode]) THEN Outcome(k, <<>>)
                ELSE Outcome(m, <<k.files[d.inode][d.pos + 1]>>)
  BY DEF Read
<1> HIDE DEF f, d, m
<1>3. CASE d.inode \in {0, -1} \/ d.writable
  <2>1. Read(q).err /\ Read(q).k = k
    BY <1>2, <1>3 DEF Failure
  <2> QED
    BY <2>1 DEF ReadDoes
<1>4. CASE ~(d.inode \in {0, -1} \/ d.writable) /\ d.pos >= Len(k.files[d.inode])
  <2>1. Read(q).k = k /\ Read(q).err = FALSE /\ Read(q).val = <<>>
    BY <1>2, <1>4 DEF Outcome
  <2> QED
    BY <1>0, <1>4, <2>1 DEF Names, f, d, ReadDoes
<1>5. CASE ~(d.inode \in {0, -1} \/ d.writable) /\ ~(d.pos >= Len(k.files[d.inode]))
  <2>1. /\ Read(q).k = m /\ Read(q).err = FALSE
        /\ Read(q).val = <<k.files[d.inode][d.pos + 1]>>
    BY <1>2, <1>5 DEF Outcome
  <2>2. d.inode \in Inodes
    BY <1>0, <1>5 DEF Names
  <2>3. ~d.writable /\ d.pos < Len(k.files[d.inode])
    BY <1>0, <1>5, <2>2
  <2> QED
    BY <1>1, <2>1, <2>2, <2>3 DEF f, d, ReadDoes
<1> QED
  BY <1>3, <1>4, <1>5

\* A unit written at position a of a file.
Overwritten(old, n, a) ==
  [j \in 1 .. (IF Len(old) > a THEN Len(old) ELSE a + 1) |->
     IF j = a + 1 THEN <<n, j>> ELSE IF j <= Len(old) THEN old[j] ELSE <<0, 0>>]

LEMMA OverwrittenFile ==
    ASSUME NEW old \in Seq(Units), NEW n \in Nat, NEW a \in Nat
    PROVE  /\ Overwritten(old, n, a) \in Seq(Units)
           /\ old = UnitsOf(n, a) => Overwritten(old, n, a) = UnitsOf(n, a + 1)
<1> DEFINE size == IF Len(old) > a THEN Len(old) ELSE a + 1
           Unit(j) == IF j = a + 1 THEN <<n, j>> ELSE IF j <= Len(old) THEN old[j] ELSE <<0, 0>>
<1>1. Len(old) \in Nat /\ size \in Nat /\ Overwritten(old, n, a) = [j \in 1 .. size |-> Unit(j)]
  BY DEF Overwritten
<1>2. ASSUME NEW j \in 1 .. size PROVE Unit(j) \in Units
  <2>1. CASE j = a + 1
    BY <2>1 DEF Units
  <2>2. CASE j # a + 1 /\ j <= Len(old)
    <3>1. j \in 1 .. Len(old)
      BY <1>1, <2>2
    <3> QED
      BY <2>2, <3>1, ElementOfSeq
  <2>3. CASE j # a + 1 /\ ~(j <= Len(old))
    BY <2>3 DEF Units
  <2> QED
    BY <2>1, <2>2, <2>3
<1>3. ASSUME old = UnitsOf(n, a) PROVE Overwritten(old, n, a) = UnitsOf(n, a + 1)
  <2>1. DOMAIN old = 1 .. a /\ \A j \in 1 .. a : old[j] = <<n, j>>
    BY <1>3 DEF UnitsOf
  <2>2. Len(old) = a
    BY <1>1, <2>1, LenProperties
  <2>3. size = a + 1
    BY <2>2
  <2>4. \A j \in 1 .. a + 1 : Unit(j) = <<n, j>>
    BY <2>1, <2>2
  <2> HIDE DEF size, Unit
  <2> QED
    BY <1>1, <2>3, <2>4 DEF UnitsOf
<1> HIDE DEF size, Unit
<1>4. [j \in 1 .. size |-> Unit(j)] \in Seq(Units)
  BY <1>1, <1>2
<1> QED
  BY <1>1, <1>3, <1>4

\* write(): a unit at the position of the request, or nothing.
WriteDoes(q, o) ==
  LET d == k.fds[calls[q.call].fd]
  IN  \/ o.err /\ o.k = k
      \/ /\ ~o.err /\ d.inode \in Inodes /\ d.writable
         /\ \/ q.n = 0 /\ o.k = k
            \/ /\ q.n # 0 /\ o.val = <<1>>
               /\ Becomes(o.k, k.names,
                          [k.files EXCEPT ![d.inode] =
                             Overwritten(k.files[d.inode], q.call, q.arg)],
                          k.fds)

LEMMA WriteExact ==
    ASSUME KernelType(k), NEW q, calls[q.call].fd \in Fds
    PROVE  WriteDoes(q, Write(q))
<1> DEFINE d == k.fds[calls[q.call].fd]
           new == Overwritten(k.files[d.inode], q.call, q.arg)
           m == [k EXCEPT !.files[d.inode] = new]
<1>0. d.writable \in BOOLEAN /\ (d.writable => d.inode \in Inodes)
  BY DEF KernelType, FdType
<1>1. Write(q) = IF ~d.writable THEN Failure
                 ELSE IF q.n = 0 THEN Outcome(k, <<0>>) ELSE Outcome(m, <<1>>)
  BY DEF Write, Overwritten
<1> HIDE DEF d, new
<1>2. Becomes(m, k.names, [k.files EXCEPT ![d.inode] = new], k.fds)
  BY DEF Becomes, KernelType, KernelShape
<1> HIDE DEF m
<1>3. CASE ~d.writable
  <2>1. Write(q).err /\ Write(q).k = k
    BY <1>1, <1>3 DEF Failure
  <2> QED
    BY <2>1 DEF WriteDoes
<1>4. CASE d.writable /\ q.n = 0
  <2>1. Write(q).err = FALSE /\ Write(q).k = k
    BY <1>1, <1>4 DEF Outcome
  <2> QED
    BY <1>0, <1>4, <2>1 DEF d, WriteDoes
<1>5. CASE d.writable /\ q.n # 0
  <2>1. Write(q).err = FALSE /\ Write(q).k = m /\ Write(q).val = <<1>>
    BY <1>1, <1>5 DEF Outcome
  <2> QED
    BY <1>0, <1>2, <1>5, <2>1 DEF d, new, WriteDoes
<1> QED
  BY <1>0, <1>3, <1>4, <1>5

\* close().
CloseDoes(q, o) ==
  \/ o.k = k
  \/ Becomes(o.k, k.names, k.files, [k.fds EXCEPT ![calls[q.call].fd] = NoFd])

LEMMA CloseExact ==
    ASSUME KernelType(k), NEW q
    PROVE  CloseDoes(q, Close(q))
<1> DEFINE f == calls[q.call].fd
           m == [k EXCEPT !.fds[f] = NoFd]
<1>1. Close(q).k = k \/ Close(q).k = m
  BY DEF Close, Failure, Outcome
<1> HIDE DEF f
<1>2. Becomes(m, k.names, k.files, [k.fds EXCEPT ![f] = NoFd])
  BY DEF Becomes, KernelType, KernelShape
<1> HIDE DEF m
<1> QED
  BY <1>1, <1>2 DEF f, CloseDoes

\* The other requests only change names, and give a file no name that had none.
NamesDoes(o) ==
  \E names \in [Paths -> Names] :
    /\ Becomes(o.k, names, k.files, k.fds)
    /\ \A p \in Paths : names[p] \in Inodes => \E r \in Paths : k.names[r] = names[p]

LEMMA NamesExact ==
    ASSUME KernelType(k), NEW q, CallType(calls[q.call]), q.op \in Ops,
           q.op \notin Uses \union {"open"}
    PROVE  NamesDoes(System(q))
<1> DEFINE p == calls[q.call].path
           to == calls[q.call].to
<1>0. p \in Paths /\ k.names \in [Paths -> Names] /\ KernelShape(k) /\ -1 \notin Inodes /\ 0 \notin Inodes
  BY ConstantsAssumption DEF CallType, KernelType, Inodes
<1>1. CASE System(q).k = k
  BY <1>0, <1>1, KernelAlike DEF NamesDoes
<1>2. ASSUME NEW v \in Names, v \notin Inodes, System(q).k = [k EXCEPT !.names[p] = v]
      PROVE  NamesDoes(System(q))
  <2> DEFINE names == [k.names EXCEPT ![p] = v]
  <2>1. Becomes(System(q).k, names, k.files, k.fds)
    BY <1>0, <1>2 DEF Becomes, KernelShape
  <2>2. names \in [Paths -> Names] /\ \A s \in Paths : names[s] \in Inodes => names[s] = k.names[s]
    BY <1>0, <1>2
  <2> QED
    BY <2>1, <2>2 DEF NamesDoes
<1>3. CASE q.op \in {"stat", "readdir"}
  <2>1. System(q).k = k
    BY <1>3 DEF System, Stat, ReadDir, Failure, Outcome
  <2> QED
    BY <1>1, <2>1
<1>4. CASE q.op \in {"mkdir", "rmdir", "unlink"}
  <2>1. \/ System(q).k = k
        \/ System(q).k = [k EXCEPT !.names[p] = 0] \/ System(q).k = [k EXCEPT !.names[p] = -1]
    BY <1>4 DEF System, MkDir, RmDir, Unlink, Failure, Outcome
  <2> QED
    BY <1>0, <1>1, <1>2, <2>1 DEF Names
<1>5. CASE q.op = "rename"
  <2> DEFINE names == [k.names EXCEPT ![to] = k.names[p],
                                      ![p] = IF p = to THEN @ ELSE 0]
             m == [k EXCEPT !.names[to] = k.names[p], !.names[p] = IF p = to THEN @ ELSE 0]
  <2>1. System(q).k = k \/ System(q).k = m
    BY <1>5 DEF System, Rename, Failure, Outcome
  <2> HIDE DEF p, to
  <2>2. Becomes(m, names, k.files, k.fds)
    BY <1>0 DEF Becomes, KernelShape
  <2>3. names \in [Paths -> Names] /\ \A s \in Paths : names[s] \in {k.names[p], k.names[s], 0}
    BY <1>0 DEF Names
  <2> QED
    BY <1>0, <1>1, <2>1, <2>2, <2>3 DEF NamesDoes
<1> QED
  BY <1>3, <1>4, <1>5 DEF Ops, Uses

\* Every request, also when it fails of itself.
LEMMA OutcomeDoes ==
    ASSUME KernelType(k), NEW q, q.op \in Ops, CallType(calls[q.call]), OpFits(q, calls[q.call]),
           NEW o \in Outcomes(q)
    PROVE  /\ q.op = "open" => OpenDoes(q, o)
           /\ q.op = "read" => ReadDoes(q, o)
           /\ q.op = "write" => WriteDoes(q, o)
           /\ q.op = "close" => CloseDoes(q, o)
           /\ q.op \notin Uses \union {"open"} => NamesDoes(o)
<1>1. o = System(q) \/ o = Fault(q)
  BY DEF Outcomes
<1>2. CASE q.op = "close"
  <2>1. System(q) = Close(q) /\ DOMAIN Close(q) = {"k", "err", "val"}
    BY <1>2 DEF System, Close, Outcome, Failure
  <2>2. o.k = Close(q).k
    BY <1>1, <1>2, <2>1 DEF Fault
  <2> QED
    BY <1>2, <2>2, CloseExact DEF CloseDoes, Uses
<1>3. CASE q.op # "close" /\ o = Fault(q)
  <2>1. o.k = k /\ o.err
    BY <1>3 DEF Fault, Failure
  <2>2. NamesDoes(o)
    <3>1. Becomes(o.k, k.names, k.files, k.fds)
      BY <2>1, KernelAlike DEF KernelType
    <3>2. k.names \in [Paths -> Names]
      BY DEF KernelType
    <3> QED
      BY <3>1, <3>2 DEF NamesDoes
  <2> QED
    BY <1>3, <2>1, <2>2 DEF OpenDoes, ReadDoes, WriteDoes
<1>4. CASE q.op # "close" /\ o = System(q)
  <2>1. CASE q.op = "open"
    <3>1. o = Open(q)
      BY <1>4, <2>1 DEF System
    <3> QED
      BY <2>1, <3>1, OpenExact DEF Uses
  <2>2. CASE q.op = "read"
    <3>1. o = Read(q)
      BY <1>4, <2>2 DEF System
    <3> QED
      BY <2>2, <3>1, ReadExact DEF Uses, OpFits
  <2>3. CASE q.op = "write"
    <3>1. o = Write(q)
      BY <1>4, <2>3 DEF System
    <3> QED
      BY <2>3, <3>1, WriteExact DEF Uses, OpFits
  <2>4. CASE q.op \notin Uses \union {"open"}
    BY <1>4, <2>4, NamesExact DEF Uses
  <2> QED
    BY <1>4, <2>1, <2>2, <2>3, <2>4 DEF Uses
<1> QED
  BY <1>1, <1>2, <1>3, <1>4

\* A kernel whose parts have their types.
LEMMA BecomesTyped ==
    ASSUME NEW m, NEW names \in [Paths -> Names], NEW files \in [Inodes -> Seq(Units)], NEW fds,
           DOMAIN fds = Fds, Becomes(m, names, files, fds),
           \A f \in Fds : FdType(fds[f])
    PROVE  KernelType(m)
  BY DEF KernelType, KernelShape, Becomes, FdType

\* A request leaves a kernel in order, and takes into use at most one inode, the free one.
LEMMA KernelStep ==
    ASSUME KernelType(k), NEW q, q.op \in Ops, q.call \in Nat,
           CallType(calls[q.call]), OpFits(q, calls[q.call]),
           q.op = "open" => FreeInode \in Inodes, NEW o \in Outcomes(q)
    PROVE  /\ KernelType(o.k) /\ ValFits(q, o.err, o.val)
           /\ \A i \in Inodes : InUse(o.k, i) => InUse(k, i) \/ (q.op = "open" /\ i = FreeInode)
<1> DEFINE c == calls[q.call]
<1>0. /\ k.names \in [Paths -> Names] /\ k.files \in [Inodes -> Seq(Units)] /\ DOMAIN k.fds = Fds
      /\ \A f \in Fds : FdType(k.fds[f])
  BY DEF KernelType, KernelShape
<1>1. CASE o.k = k /\ ValFits(q, o.err, o.val)
  BY <1>1
<1>2. CASE q.op = "open"
  <2> DEFINE p == c.path
             w == c.kind = "writeFile"
             i == IF k.names[p] = 0 THEN FreeInode ELSE k.names[p]
             fd == [inode |-> i, pos |-> 0, owner |-> q.call, writable |-> w]
  <2>1. CASE o.err /\ o.k = k
    BY <1>1, <1>2, <2>1 DEF ValFits
  <2>2. ASSUME NEW f \in FreeFds, ~o.err, o.val = <<f, i>>,
               IF w THEN k.names[p] # -1 ELSE k.names[p] # 0,
               Becomes(o.k, [k.names EXCEPT ![p] = i],
                       IF w THEN [k.files EXCEPT ![i] = <<>>] ELSE k.files,
                       [k.fds EXCEPT ![f] = fd])
        PROVE  /\ KernelType(o.k) /\ ValFits(q, o.err, o.val)
               /\ \A j \in Inodes : InUse(o.k, j) => InUse(k, j) \/ (q.op = "open" /\ j = FreeInode)
    <3>1. f \in Fds /\ p \in Paths /\ k.names[p] \in Names /\ w \in BOOLEAN
      BY <1>0, <2>2 DEF FreeFds, CallType
    <3>2. i \in Names /\ (w => i \in Inodes) /\ (i = FreeInode \/ i = k.names[p])
      BY <1>2, <2>2, <3>1 DEF Names
    <3> HIDE DEF p, w, i
    <3>3. FdType(fd) /\ fd.inode = i
      BY <3>1, <3>2 DEF FdType
    <3> HIDE DEF fd
    <3> DEFINE names == [k.names EXCEPT ![p] = i]
                 files == IF w THEN [k.files EXCEPT ![i] = <<>>] ELSE k.files
                 fds == [k.fds EXCEPT ![f] = fd]
    <3>4. names \in [Paths -> Names] /\ \A r \in Paths : names[r] = k.names[r] \/ names[r] = i
      BY <1>0, <3>2
    <3>5. files \in [Inodes -> Seq(Units)]
      <4>1. <<>> \in Seq(Units)
        OBVIOUS
      <4> QED
        BY <1>0, <4>1
    <3>6. DOMAIN fds = Fds /\ \A g \in Fds : fds[g] = IF g = f THEN fd ELSE k.fds[g]
      BY <1>0
    <3>7. Becomes(o.k, names, files, fds)
      BY <2>2
    <3> HIDE DEF names, files, fds
    <3>8. KernelType(o.k)
      BY <1>0, <3>3, <3>4, <3>5, <3>6, <3>7, BecomesTyped
    <3>9. \A j \in Inodes : InUse(o.k, j) => InUse(k, j) \/ j = FreeInode
      <4> SUFFICES ASSUME NEW j \in Inodes, InUse(o.k, j)
                   PROVE  InUse(k, j) \/ j = FreeInode
        OBVIOUS
      <4>1. o.k.names = names /\ o.k.fds = fds
        BY <3>7 DEF Becomes
      <4>2. j = i => InUse(k, j) \/ j = FreeInode
        BY <3>1, <3>2 DEF InUse
      <4>3. CASE \E r \in Paths : names[r] = j
        BY <3>4, <4>2, <4>3 DEF InUse
      <4>4. CASE \E g \in Fds : fds[g].inode = j
        BY <3>3, <3>6, <4>2, <4>4 DEF InUse
      <4> QED
        BY <4>1, <4>3, <4>4 DEF InUse
    <3>10. ValFits(q, o.err, o.val)
      BY <1>2, <2>2, <3>1, <3>2 DEF ValFits
    <3> QED
      BY <1>2, <3>8, <3>9, <3>10
  <2> QED
    BY <1>2, <2>1, <2>2, OutcomeDoes DEF OpenDoes
<1>3. CASE q.op = "read"
  <2> DEFINE f == c.fd
             d == k.fds[f]
             fd == [d EXCEPT !.pos = d.pos + 1]
  <2>1. f \in Fds
    BY <1>3 DEF OpFits, Uses
  <2>2. CASE o.err /\ o.k = k
    BY <1>1, <1>3, <2>2 DEF ValFits
  <2>3. CASE ~o.err /\ o.val = <<>> /\ o.k = k
    BY <1>1, <1>3, <2>3 DEF ValFits
  <2>4. CASE /\ ~o.err /\ d.inode \in Inodes /\ d.pos < Len(k.files[d.inode])
             /\ o.val = <<k.files[d.inode][d.pos + 1]>>
             /\ Becomes(o.k, k.names, k.files, [k.fds EXCEPT ![f] = fd])
    <3>1. /\ d.pos \in Nat /\ k.files[d.inode] \in Seq(Units)
          /\ FdType(d)
      BY <1>0, <2>1, <2>4 DEF FdType
    <3> HIDE DEF f, d
    <3>2. FdType(fd) /\ fd.inode = d.inode
      BY <3>1 DEF FdType
    <3> HIDE DEF fd
    <3> DEFINE fds == [k.fds EXCEPT ![f] = fd]
    <3>4. DOMAIN fds = Fds /\ \A g \in Fds : fds[g] = IF g = f THEN fd ELSE k.fds[g]
      BY <1>0
    <3>5. Becomes(o.k, k.names, k.files, fds)
      BY <2>4
    <3> HIDE DEF fds
    <3>6. KernelType(o.k)
      BY <1>0, <3>2, <3>4, <3>5, BecomesTyped
    <3>7. \A j \in Inodes : InUse(o.k, j) => InUse(k, j)
      BY <2>1, <3>2, <3>4, <3>5 DEF InUse, Becomes, d
    <3>8. k.files[d.inode][d.pos + 1] \in Units
      BY <2>4, <3>1, ElementOfSeq
    <3>9. ValFits(q, o.err, o.val)
      BY <1>3, <2>4, <3>8 DEF ValFits
    <3> QED
      BY <3>6, <3>7, <3>9
  <2> QED
    BY <1>3, <2>2, <2>3, <2>4, OutcomeDoes DEF ReadDoes
<1>4. CASE q.op = "write"
  <2> DEFINE i == k.fds[c.fd].inode
             new == Overwritten(k.files[i], q.call, q.arg)
  <2>0. ValFits(q, o.err, o.val)
    BY <1>4 DEF ValFits
  <2>1. CASE i \in Inodes /\ Becomes(o.k, k.names, [k.files EXCEPT ![i] = new], k.fds)
    <3>1. new \in Seq(Units)
      BY <1>0, <2>1, OverwrittenFile DEF OpFits
    <3> HIDE DEF i, new
    <3>2. [k.files EXCEPT ![i] = new] \in [Inodes -> Seq(Units)]
      BY <1>0, <3>1
    <3>3. KernelType(o.k)
      BY <1>0, <2>1, <3>2, BecomesTyped
    <3>4. \A j \in Inodes : InUse(o.k, j) => InUse(k, j)
      BY <2>1 DEF InUse, Becomes
    <3> QED
      BY <2>0, <3>3, <3>4
  <2> QED
    BY <1>1, <1>4, <2>0, <2>1, OutcomeDoes DEF WriteDoes
<1>5. CASE q.op = "close"
  <2>0. ValFits(q, o.err, o.val)
    BY <1>5 DEF ValFits
  <2>1. CASE Becomes(o.k, k.names, k.files, [k.fds EXCEPT ![c.fd] = NoFd])
    <3> DEFINE fds == [k.fds EXCEPT ![c.fd] = NoFd]
    <3>2. DOMAIN fds = Fds /\ \A g \in Fds : fds[g] = IF g = c.fd THEN NoFd ELSE k.fds[g]
      BY <1>0
    <3>3. FdType(NoFd) /\ NoFd.inode = 0 /\ 0 \notin Inodes
      BY ConstantsAssumption DEF NoFd, Inodes, FdType, Names
    <3>4. Becomes(o.k, k.names, k.files, fds)
      BY <2>1
    <3> HIDE DEF fds, c
    <3>5. KernelType(o.k)
      <4>1. \A g \in Fds : FdType(fds[g])
        BY <1>0, <3>2, <3>3
      <4> QED
        BY <1>0, <3>2, <3>4, <4>1, BecomesTyped
    <3>6. \A j \in Inodes : InUse(o.k, j) => InUse(k, j)
      BY <3>2, <3>3, <3>4 DEF InUse, Becomes
    <3> QED
      BY <2>0, <3>5, <3>6
  <2> QED
    BY <1>1, <1>5, <2>0, <2>1, OutcomeDoes DEF CloseDoes
<1>6. CASE q.op \notin Uses \union {"open"}
  <2>1. PICK names \in [Paths -> Names] :
          /\ Becomes(o.k, names, k.files, k.fds)
          /\ \A p \in Paths : names[p] \in Inodes => \E r \in Paths : k.names[r] = names[p]
    BY <1>6, OutcomeDoes DEF NamesDoes
  <2>2. KernelType(o.k)
    BY <1>0, <2>1, BecomesTyped
  <2>3. \A j \in Inodes : InUse(o.k, j) => InUse(k, j)
    BY <2>1 DEF InUse, Becomes
  <2>4. ValFits(q, o.err, o.val)
    BY <1>6 DEF ValFits, Uses
  <2> QED
    BY <2>2, <2>3, <2>4
<1> QED
  BY <1>2, <1>3, <1>4, <1>5, <1>6 DEF Uses

\* The files and the descriptors of one call are the same in the kernels m and n.
Spared(m, n, call) ==
  n.files = m.files /\ \A f \in Fds : m.fds[f].owner = call => n.fds[f] = m.fds[f]

\* A request of a call that does not write and has its own descriptor spares all others.
LEMMA OthersSpared ==
    ASSUME KernelType(k), NEW q, q.op \in Ops, CallType(calls[q.call]), OpFits(q, calls[q.call]),
           calls[q.call].kind # "writeFile", ~Stray(q), NEW o \in Outcomes(q),
           NEW call, call # 0, call # q.call
    PROVE  Spared(k, o.k, call)
<1> DEFINE c == calls[q.call]
<1>0. DOMAIN k.fds = Fds
  BY DEF KernelType, KernelShape
<1>1. CASE o.k = k
  BY <1>1 DEF Spared
<1>2. ASSUME NEW names, NEW f, NEW v, Becomes(o.k, names, k.files, [k.fds EXCEPT ![f] = v]),
             f \in Fds => k.fds[f].owner \in {0, q.call}
      PROVE  Spared(k, o.k, call)
  <2>1. o.k.files = k.files /\ o.k.fds = [k.fds EXCEPT ![f] = v]
    BY <1>2 DEF Becomes
  <2>2. \A g \in Fds : g # f => o.k.fds[g] = k.fds[g]
    BY <1>0, <2>1
  <2> QED
    BY <1>2, <2>1, <2>2 DEF Spared
<1>3. CASE q.op = "open"
  <2>1. ASSUME NEW f \in FreeFds, NEW names, NEW v,
               Becomes(o.k, names, k.files, [k.fds EXCEPT ![f] = v])
        PROVE  Spared(k, o.k, call)
    <3>1. k.fds[f].owner = 0
      BY DEF FreeFds, NoFd
    <3> QED
      BY <1>2, <2>1, <3>1
  <2>2. OpenDoes(q, o)
    BY <1>3, OutcomeDoes
  <2> QED
    BY <1>1, <2>1, <2>2 DEF OpenDoes
<1>4. CASE q.op \in {"read", "close"}
  <2>1. k.fds[c.fd].owner = q.call
    BY <1>4 DEF Stray
  <2>2. \/ o.k = k
        \/ \E v : Becomes(o.k, k.names, k.files, [k.fds EXCEPT ![c.fd] = v])
    <3>1. CASE q.op = "read"
      BY <3>1, OutcomeDoes DEF ReadDoes
    <3>2. CASE q.op = "close"
      BY <3>2, OutcomeDoes DEF CloseDoes
    <3> QED
      BY <1>4, <3>1, <3>2
  <2> QED
    BY <1>1, <1>2, <2>1, <2>2
<1>5. CASE q.op \notin Uses \union {"open"}
  <2>1. PICK names : Becomes(o.k, names, k.files, k.fds)
    BY <1>5, OutcomeDoes DEF NamesDoes
  <2> QED
    BY <2>1 DEF Becomes, Spared
<1>6. q.op # "write"
  BY DEF OpFits
<1> QED
  BY <1>3, <1>4, <1>5, <1>6 DEF Uses

LEMMA SparedKeeps ==
    ASSUME NEW m, NEW n, NEW q, NEW c, Spared(m, n, q.call)
    PROVE  /\ Waiting(m, q, c) => Waiting(n, q, c)
           /\ \A err, val : Ended(m, q, err, val, c) => Ended(n, q, err, val, c)
<1>1. \A f, i : Holds(m, q.call, c, f, i) => Holds(n, q.call, c, f, i) /\ n.fds[f].pos = m.fds[f].pos
  BY DEF Spared, Holds
<1>2. n.files = m.files
  BY DEF Spared
<1>3. \A i, got : Prefix(m, i, got) <=> Prefix(n, i, got)
  BY <1>2 DEF Prefix
<1>4. Whole(m, q.call, c) <=> Whole(n, q.call, c)
  BY <1>2 DEF Whole
<1>5. Waiting(m, q, c) => Waiting(n, q, c)
  BY <1>1, <1>2, <1>3, <1>4 DEF Waiting
<1>6. ASSUME NEW err, NEW val, Ended(m, q, err, val, c) PROVE Ended(n, q, err, val, c)
  BY <1>1, <1>2, <1>3, <1>4, <1>6 DEF Ended
<1> QED
  BY <1>5, <1>6

\* What the request of a call leaves to its continuation.
LEMMA ExecutedWell ==
    ASSUME KernelType(k), NEW q, q.op \in Ops, q.call \in Nat, CallType(calls[q.call]),
           OpFits(q, calls[q.call]), q.op = "open" => FreeInode \in Inodes,
           NEW o \in Outcomes(q), Waiting(k, q, calls[q.call])
    PROVE  Ended(o.k, q, o.err, o.val, calls[q.call])
<1> DEFINE c == calls[q.call]
<1>0. /\ k.names \in [Paths -> Names] /\ k.files \in [Inodes -> Seq(Units)] /\ DOMAIN k.fds = Fds
      /\ \A f \in Fds : FdType(k.fds[f])
  BY DEF KernelType, KernelShape
<1>1. c.results = <<>> /\ c.got \in Seq(Units) /\ Len(c.got) \in Nat
  BY DEF Waiting, CallType
<1>2. CASE q.op = "open"
  <2> DEFINE p == c.path
             w == c.kind = "writeFile"
             i == IF k.names[p] = 0 THEN FreeInode ELSE k.names[p]
             fd == [inode |-> i, pos |-> 0, owner |-> q.call, writable |-> w]
  <2>1. CASE o.err
    BY <1>1, <1>2, <2>1 DEF Ended
  <2>2. ASSUME NEW f \in FreeFds, ~o.err, o.val = <<f, i>>,
               IF w THEN k.names[p] # -1 ELSE k.names[p] # 0,
               Becomes(o.k, [k.names EXCEPT ![p] = i],
                       IF w THEN [k.files EXCEPT ![i] = <<>>] ELSE k.files,
                       [k.fds EXCEPT ![f] = fd])
        PROVE  Ended(o.k, q, o.err, o.val, c)
    <3>1. f \in Fds /\ p \in Paths /\ k.names[p] \in Names /\ w \in BOOLEAN
      BY <1>0, <2>2 DEF FreeFds, CallType
    <3>2. i \in Inodes \union {-1} /\ (w => i \in Inodes)
      BY <1>2, <2>2, <3>1 DEF Names
    <3>3. w <=> c.kind = "writeFile"
      OBVIOUS
    <3> HIDE DEF p, w, i
    <3>4. fd.inode = i /\ fd.pos = 0 /\ fd.owner = q.call /\ fd.writable = w
      OBVIOUS
    <3> HIDE DEF fd
    <3>5. o.k.fds[f] = fd
      BY <1>0, <2>2, <3>1 DEF Becomes
    <3>6. w => o.k.files[i] = <<>>
      BY <1>0, <2>2, <3>2 DEF Becomes
    <3>7. Holds(o.k, q.call, c, f, i) /\ o.k.fds[f].pos = 0
      BY <3>1, <3>2, <3>3, <3>4, <3>5 DEF Holds
    <3>8. c.got = <<>> /\ c.written = 0
      BY <1>2 DEF Waiting
    <3>9. o.val[1] = f /\ o.val[2] = i
      BY <2>2
    <3> QED
      BY <1>1, <1>2, <3>3, <3>6, <3>7, <3>8, <3>9 DEF Ended
  <2>3. OpenDoes(q, o)
    BY <1>2, OutcomeDoes
  <2> QED
    BY <2>1, <2>2, <2>3 DEF OpenDoes
<1>3. CASE q.op = "read"
  <2> DEFINE f == c.fd
             d == k.fds[f]
             i == c.inode
             fd == [d EXCEPT !.pos = d.pos + 1]
  <2>1. /\ Holds(k, q.call, c, f, i) /\ d.pos = Len(c.got) /\ Prefix(k, i, c.got)
        /\ f \in Fds /\ d.inode = i /\ FdType(d)
    BY <1>0, <1>3 DEF Waiting, Holds
  <2>2. CASE o.err
    BY <1>1, <1>3, <2>2 DEF Ended
  <2>3. CASE ~o.err /\ d.inode \in Inodes /\ d.pos >= Len(k.files[d.inode]) /\ o.val = <<>> /\ o.k = k
    <3>1. /\ c.got \o <<>> = c.got /\ Len(<<>>) = 0 /\ Len(c.got) + 0 = Len(c.got)
          /\ Len(k.files[i]) \in Nat
      BY <1>0, <1>1, <2>1, <2>3
    <3>2. Len(c.got) = Len(k.files[i])
      BY <1>1, <2>1, <2>3, <3>1 DEF Prefix
    <3> QED
      BY <1>1, <1>3, <2>1, <2>3, <3>1, <3>2 DEF Ended
  <2>4. CASE /\ ~o.err /\ d.inode \in Inodes /\ d.pos < Len(k.files[d.inode])
             /\ o.val = <<k.files[d.inode][d.pos + 1]>>
             /\ Becomes(o.k, k.names, k.files, [k.fds EXCEPT ![f] = fd])
    <3> DEFINE u == k.files[i][Len(c.got) + 1]
    <3>1. fd.pos = Len(c.got) + 1 /\ fd.inode = i /\ fd.owner = d.owner /\ fd.writable = d.writable
      BY <2>1 DEF FdType
    <3> HIDE DEF fd
    <3>2. o.k.fds[f] = fd /\ o.k.files = k.files
      BY <1>0, <2>1, <2>4 DEF Becomes
    <3>3. Holds(o.k, q.call, c, f, i)
      BY <2>1, <3>1, <3>2 DEF Holds
    <3>4. o.val = <<u>> /\ i \in Inodes /\ Len(c.got) < Len(k.files[i])
      BY <2>1, <2>4
    <3>5. k.files[i] \in Seq(Units) /\ Len(k.files[i]) \in Nat /\ u \in Units
      BY <1>0, <1>1, <3>4, ElementOfSeq
    <3> HIDE DEF u, f, d
    <3>6. /\ Len(c.got \o <<u>>) = Len(c.got) + 1 /\ (c.got \o <<u>>)[Len(c.got) + 1] = u
          /\ \A j \in 1 .. Len(c.got) : (c.got \o <<u>>)[j] = c.got[j]
      BY <1>1, <3>5
    <3>7. Prefix(o.k, i, c.got \o <<u>>)
      <4>1. \A j \in 1 .. Len(c.got) : (c.got \o <<u>>)[j] = k.files[i][j]
        BY <2>1, <3>4, <3>6 DEF Prefix
      <4>2. ASSUME NEW j \in 1 .. Len(c.got) + 1 PROVE (c.got \o <<u>>)[j] = k.files[i][j]
        <5>1. j \in 1 .. Len(c.got) \/ j = Len(c.got) + 1
          BY <1>1
        <5> QED
          BY <3>6, <4>1, <5>1 DEF u
      <4>3. Len(c.got) + 1 <= Len(k.files[i])
        BY <1>1, <3>4, <3>5
      <4> QED
        BY <3>2, <3>6, <4>2, <4>3 DEF Prefix
    <3>8. Len(<<u>>) = 1 /\ <<u>> # <<>>
      OBVIOUS
    <3> QED
      BY <1>1, <1>3, <3>1, <3>2, <3>3, <3>4, <3>7, <3>8 DEF Ended, f
  <2>5. ReadDoes(q, o)
    BY <1>3, OutcomeDoes
  <2> QED
    BY <2>2, <2>3, <2>4, <2>5 DEF ReadDoes
<1>4. CASE q.op = "write"
  <2> DEFINE i == c.inode
             new == Overwritten(k.files[i], q.call, q.arg)
  <2>1. /\ Holds(k, q.call, c, c.fd, i) /\ q.n = 1 /\ q.arg = c.written /\ c.written < c.len
        /\ k.files[i] = UnitsOf(q.call, c.written) /\ k.fds[c.fd].inode = i
    BY <1>4 DEF Waiting, Holds
  <2>2. CASE o.err
    BY <1>1, <1>4, <2>2 DEF Ended
  <2>3. CASE /\ ~o.err /\ i \in Inodes /\ o.val = <<1>>
             /\ Becomes(o.k, k.names, [k.files EXCEPT ![i] = new], k.fds)
    <3>1. new = UnitsOf(q.call, c.written + 1)
      <4>1. k.files[i] \in Seq(Units) /\ q.arg \in Nat
        BY <1>0, <2>3 DEF OpFits
      <4> QED
        BY <2>1, <4>1, OverwrittenFile
    <3> HIDE DEF new
    <3>2. o.k.files[i] = new /\ o.k.fds = k.fds
      BY <1>0, <2>3 DEF Becomes
    <3>3. Holds(o.k, q.call, c, c.fd, i)
      BY <2>1, <3>2 DEF Holds
    <3> QED
      BY <1>1, <1>4, <2>1, <2>3, <3>1, <3>2, <3>3 DEF Ended
  <2>4. WriteDoes(q, o)
    BY <1>4, OutcomeDoes
  <2> QED
    BY <2>1, <2>2, <2>3, <2>4 DEF WriteDoes
<1>5. CASE q.op = "close"
  <2>1. o.k.files = k.files
    BY <1>5, OutcomeDoes DEF CloseDoes, Becomes
  <2>2. q.arg = 0 /\ Whole(o.k, q.call, c)
    BY <1>5, <2>1 DEF Waiting, Whole
  <2> QED
    BY <1>1, <1>5, <2>2 DEF Ended
<1>6. CASE q.op \notin Uses \union {"open"}
  BY <1>1, <1>6 DEF Ended, Uses
<1> QED
  BY <1>2, <1>3, <1>4, <1>5, <1>6 DEF Uses

-----------------------------------------------------------------------------
(* The continuations, with the data.                                       *)

\* The answer a that call n with the record c gives is the whole file.
Told(m, n, c, a) ==
  /\ c.kind = "readFile" /\ c.inode # -1 => a.data = m.files[c.inode]
  /\ c.kind = "writeFile" => m.files[c.inode] = UnitsOf(n, c.len)

\* The record d of the call c later on, without an answer.
Carries(c, d) ==
  /\ CallType(d) /\ d.kind = c.kind /\ d.with = c.with /\ d.len = c.len /\ d.results = c.results
  /\ c.fd \in Fds => d.fd \in Fds

\* The continuation x of request q of the call c, with the outcome o: the requests that
\* follow fit, those of a call that is in order find all in order, and what it answers
\* without an error is the whole file.
Sound(m, q, c, o, x) ==
  /\ CallType(x.call) /\ x.call.kind = c.kind /\ x.call.with = c.with
  /\ c.fd \in Fds => x.call.fd \in Fds
  /\ \A r \in x.reqs : r.call = q.call /\ OpFits(r, x.call)
  /\ Ended(m, q, o.err, o.val, c) /\ ~x.call.failed =>
       /\ \A r \in x.reqs : Waiting(m, r, x.call)
       /\ \/ x.call.results = c.results
          \/ c.kind \notin FileKinds
          \/ \E a : x.call.results = <<a>> /\ (a.err \/ Told(m, q.call, c, a))

LEMMA AnswerSound ==
    ASSUME NEW m, NEW q, NEW c, CallType(c), NEW o, NEW e, NEW data, NEW x \in Calls(c, e, data),
           Ended(m, q, o.err, o.val, c) =>
             e \/ c.kind \notin FileKinds \/ Told(m, q.call, c, [err |-> e, data |-> data])
    PROVE  Sound(m, q, c, o, x)
<1> DEFINE a == [err |-> e, data |-> data]
           d == [c EXCEPT !.results = Append(@, a)]
<1>1. x = [call |-> d, reqs |-> {}]
  BY DEF Calls, Goes
<1>2. a.err = e
  OBVIOUS
<1> HIDE DEF a
<1>3. /\ CallType(d) /\ d.kind = c.kind /\ d.with = c.with /\ d.results = Append(c.results, a)
      /\ d.fd = c.fd
  BY DEF CallType, CallShape, CallFields
<1> HIDE DEF d
<1>4. c.results = <<>> => d.results = <<a>>
  BY <1>3
<1>5. x.call = d /\ x.reqs = {}
  BY <1>1
<1>6. Ended(m, q, o.err, o.val, c) => c.results = <<>> /\ (a.err \/ c.kind \notin FileKinds \/ Told(m, q.call, c, a))
  BY <1>2 DEF Ended, a
<1> QED
  BY <1>3, <1>4, <1>5, <1>6 DEF Sound

\* A request that follows.
LEMMA RequestSound ==
    ASSUME NEW m, NEW q, NEW c, CallType(c), NEW o, NEW d, Carries(c, d), c.kind \in FileKinds,
           d.fd \in Fds, NEW op \in Uses, NEW a \in Nat, NEW n,
           op = "read" => c.kind = "readFile", op = "write" => c.kind = "writeFile",
           Ended(m, q, o.err, o.val, c) /\ ~d.failed => Waiting(m, Request(q, op, a, n), d)
    PROVE  Sound(m, q, c, o, [call |-> d, reqs |-> {Request(q, op, a, n)}])
<1> DEFINE r == Request(q, op, a, n)
           x == [call |-> d, reqs |-> {r}]
<1>1. r.call = q.call /\ r.op = op /\ r.arg = a
  BY DEF Request
<1> HIDE DEF r
<1>2. OpFits(r, d)
  BY <1>1 DEF OpFits, Carries, Uses
<1>3. x.call = d /\ \A s : s \in x.reqs <=> s = r
  OBVIOUS
<1> HIDE DEF x
<1>4. Sound(m, q, c, o, x)
  BY <1>1, <1>2, <1>3 DEF Sound, Carries, r
<1> QED
  BY <1>4 DEF x, r

\* An exception, and no request.
LEMMA ThrowSound ==
    ASSUME NEW m, NEW q, NEW c, NEW o, NEW d, Carries(c, d)
    PROVE  Sound(m, q, c, o, [call |-> [d EXCEPT !.threw = TRUE], reqs |-> {}])
<1> DEFINE th == [d EXCEPT !.threw = TRUE]
           x == [call |-> th, reqs |-> {}]
<1>1. /\ CallType(th) /\ th.kind = c.kind /\ th.with = c.with /\ th.results = c.results
      /\ c.fd \in Fds => th.fd \in Fds
  BY DEF Carries, CallType, CallShape, CallFields
<1> HIDE DEF th
<1>2. x.call = th /\ x.reqs = {}
  OBVIOUS
<1> HIDE DEF x
<1>3. Sound(m, q, c, o, x)
  BY <1>1, <1>2 DEF Sound
<1> QED
  BY <1>3 DEF x, th

\* read() and write() of a call that has become d.
LEMMA StartReadSound ==
    ASSUME NEW m, NEW q, NEW c, CallType(c), NEW o, NEW d, Carries(c, d), c.kind = "readFile",
           d.fd \in Fds, NEW x \in StartRead(q, d),
           Ended(m, q, o.err, o.val, c) =>
             /\ d.results = <<>> /\ Holds(m, q.call, d, d.fd, d.inode)
             /\ m.fds[d.fd].pos = Len(d.got) /\ Prefix(m, d.inode, d.got)
    PROVE  Sound(m, q, c, o, x)
<1> DEFINE r == Request(q, "read", 0, 1)
<1>1. x = [call |-> d, reqs |-> {r}]
  BY DEF StartRead, Goes
<1>2. r.call = q.call /\ r.op = "read"
  BY DEF Request
<1>3. Ended(m, q, o.err, o.val, c) => Waiting(m, r, d)
  <2> HIDE DEF r
  <2> QED
    BY <1>2 DEF Waiting
<1> QED
  BY <1>1, <1>3, RequestSound DEF FileKinds, Uses

LEMMA StartWriteSound ==
    ASSUME NEW m, NEW q, NEW c, CallType(c), NEW o, NEW d, Carries(c, d), c.kind = "writeFile",
           d.fd \in Fds, NEW x \in StartWrite(q, d),
           Ended(m, q, o.err, o.val, c) =>
             /\ d.results = <<>> /\ Holds(m, q.call, d, d.fd, d.inode)
             /\ m.files[d.inode] = UnitsOf(q.call, d.written)
    PROVE  Sound(m, q, c, o, x)
<1> DEFINE r == Request(q, "write", d.written, 1)
<1>0. d.written \in Nat /\ d.len \in Nat
  BY DEF Carries, CallType
<1>1. CASE Accepts(d.written, 1, d.len)
  <2>1. x = [call |-> d, reqs |-> {r}]
    BY <1>1 DEF StartWrite, Goes
  <2>2. r.call = q.call /\ r.op = "write" /\ r.arg = d.written /\ r.n = 1
    BY DEF Request
  <2>3. d.written < d.len
    BY <1>0, <1>1 DEF Accepts
  <2>4. Ended(m, q, o.err, o.val, c) => Waiting(m, r, d)
    <3> HIDE DEF r
    <3> QED
      BY <2>2, <2>3 DEF Waiting
  <2> QED
    BY <1>0, <2>1, <2>4, RequestSound DEF FileKinds, Uses
<1>2. CASE ~Accepts(d.written, 1, d.len)
  <2>1. x = [call |-> [d EXCEPT !.threw = TRUE], reqs |-> {}]
    BY <1>2 DEF StartWrite, Goes
  <2> QED
    BY <2>1, ThrowSound
<1> QED
  BY <1>1, <1>2

\* close() after the last read or write.
LEMMA CloseEndSound ==
    ASSUME NEW m, NEW q, NEW c, CallType(c), NEW o, NEW d, Carries(c, d), c.kind \in FileKinds,
           d.fd \in Fds, Ended(m, q, o.err, o.val, c) /\ ~d.failed => Whole(m, q.call, d)
    PROVE  Sound(m, q, c, o, [call |-> d, reqs |-> {CloseEnd(q, c)}])
<1> DEFINE r == Request(q, "close", 0, c.round)
<1>1. r.call = q.call /\ r.op = "close" /\ r.arg = 0
  BY DEF Request
<1>2. Ended(m, q, o.err, o.val, c) /\ ~d.failed => Waiting(m, r, d)
  <2> HIDE DEF r
  <2> QED
    BY <1>1 DEF Waiting, Ended, Carries
<1> QED
  BY <1>2, RequestSound DEF CloseEnd, Uses

\* A read or write failed.
LEMMA FailedSound ==
    ASSUME NEW m, NEW q, NEW c, CallType(c), NEW o, NEW d, Carries(c, d), d.failed,
           c.kind \in FileKinds, d.fd \in Fds, NEW S,
           \A r \in S : /\ r.call = q.call /\ r.arg \in Nat
                        /\ r.op = "close" \/ (r.op = "write" /\ c.kind = "writeFile")
    PROVE  Sound(m, q, c, o, [call |-> d, reqs |-> S])
<1> DEFINE x == [call |-> d, reqs |-> S]
<1>1. x.call = d /\ x.reqs = S
  OBVIOUS
<1> HIDE DEF x
<1>2. \A r \in S : r.call = q.call /\ OpFits(r, d)
  BY DEF OpFits, Carries, Uses
<1>3. Sound(m, q, c, o, x)
  BY <1>1, <1>2 DEF Sound, Carries
<1> QED
  BY <1>3 DEF x

LEMMA WholeFileRead ==
    ASSUME NEW m, KernelType(m), NEW i \in Inodes, NEW got \in Seq(Units), Prefix(m, i, got),
           Len(got) = Len(m.files[i])
    PROVE  got = m.files[i]
<1>1. m.files[i] \in Seq(Units)
  BY DEF KernelType
<1>2. \A j \in 1 .. Len(got) : got[j] = m.files[i][j]
  BY DEF Prefix
<1> QED
  BY <1>1, <1>2, SeqEqual

\* What becomes of a call after a request, for both kinds of call.
LEMMA ContinueSound ==
    ASSUME NEW m, KernelType(m), NEW q, q.op \in Ops, NEW c, CallType(c), OpFits(q, c),
           NEW o, o.err \in BOOLEAN, ValFits(q, o.err, o.val), NEW x \in Continue(q, c, o)
    PROVE  Sound(m, q, c, o, x)
<1> DEFINE e == Ended(m, q, o.err, o.val, c)
           marked == [c EXCEPT !.failed = TRUE]
           same == [c EXCEPT !.failed = FALSE]
<1>0. /\ c.kind \in Kinds /\ c.len \in Nat /\ c.written \in Nat /\ c.got \in Seq(Units)
      /\ Len(c.got) \in Nat /\ CallShape(c)
  BY DEF CallType
<1>1. Carries(c, c)
  BY DEF Carries
<1>2. Carries(c, marked) /\ marked.failed /\ marked.fd = c.fd
  BY DEF Carries, CallType, CallShape, CallFields
<1>3. /\ Carries(c, same) /\ same.fd = c.fd /\ same.inode = c.inode /\ same.got = c.got
  BY DEF Carries, CallType, CallShape, CallFields
<1>4. c.kind \in FileKinds <=> q.op \in Uses \union {"open"}
  BY DEF OpFits
<1> DEFINE end == CloseEnd(q, c)
           error == CloseError(q, c)
<1>5. /\ end.call = q.call /\ end.arg = 0 /\ end.op = "close"
      /\ error.call = q.call /\ error.arg = 1 /\ error.op = "close"
  BY DEF CloseEnd, CloseError, Request
<1> HIDE DEF marked, same, end, error, e
<1>6. CASE q.op \notin Uses \union {"open"}
  <2>1. x \in Calls(c, o.err, o.val)
    BY <1>6 DEF Continue, Uses
  <2> QED
    BY <1>4, <1>6, <2>1, AnswerSound
<1>7. CASE q.op = "open"
  <2> DEFINE d == [c EXCEPT !.fd = o.val[1], !.inode = o.val[2]]
  <2>1. CASE o.err
    <3>1. x \in Calls(c, TRUE, <<>>)
      BY <1>7, <2>1 DEF Continue, AfterOpen, AfterSyncStep
    <3> QED
      BY <3>1, AnswerSound
  <2>2. CASE ~o.err
    <3>0. o.val[1] \in Fds
      BY <1>7, <2>2 DEF ValFits
    <3>1. /\ Carries(c, d) /\ d.fd = o.val[1] /\ d.inode = o.val[2] /\ d.got = c.got
          /\ d.written = c.written /\ d.kind = c.kind /\ d.results = c.results /\ d.len = c.len
      BY <3>0 DEF Carries, CallType, CallShape, CallFields
    <3>2. /\ c.kind = "readFile" => x \in StartRead(q, d)
          /\ c.kind # "readFile" =>
               \/ x \in StartWrite(q, d)
               \/ x = [call |-> d, reqs |-> {end}] /\ ~Accepts(0, 1, c.len)
      BY <1>7, <2>2 DEF Continue, AfterOpen, AfterSyncStep, Goes, end
    <3> HIDE DEF d
    <3>3. e => /\ d.results = <<>> /\ Holds(m, q.call, d, d.fd, d.inode) /\ m.fds[d.fd].pos = 0
               /\ d.got = <<>> /\ d.written = 0
               /\ c.kind = "writeFile" => m.files[d.inode] = <<>>
      BY <1>7, <2>2, <3>1 DEF Ended, Holds, e
    <3>4. CASE c.kind = "readFile"
      <4>1. e => Len(d.got) = 0 /\ Prefix(m, d.inode, d.got)
        <5>1. \A i \in Inodes : Len(m.files[i]) \in Nat
          BY DEF KernelType
        <5> QED
          BY <3>3, <5>1 DEF Prefix
      <4> QED
        BY <3>0, <3>1, <3>2, <3>3, <3>4, <4>1, StartReadSound DEF e
    <3>5. CASE c.kind = "writeFile"
      <4>1. UnitsOf(q.call, 0) = <<>>
        BY DEF UnitsOf
      <4>2. CASE x \in StartWrite(q, d)
        BY <3>0, <3>1, <3>3, <3>5, <4>1, <4>2, StartWriteSound DEF e
      <4>3. CASE x = [call |-> d, reqs |-> {end}] /\ ~Accepts(0, 1, c.len)
        <5>1. c.len = 0
          BY <1>0, <4>3 DEF Accepts, IsWithinBounds
        <5>2. e => Whole(m, q.call, d)
          BY <3>1, <3>3, <3>5, <4>1, <5>1 DEF Whole
        <5> QED
          BY <1>4, <1>7, <3>0, <3>1, <4>3, <5>2, CloseEndSound DEF e, end
      <4> QED
        BY <3>2, <3>5, <4>2, <4>3
    <3> QED
      BY <1>4, <1>7, <3>4, <3>5 DEF FileKinds
  <2> QED
    BY <2>1, <2>2
<1>8. CASE q.op = "read"
  <2>0. c.kind = "readFile" /\ c.kind \in FileKinds /\ c.fd \in Fds
    BY <1>8 DEF OpFits, Uses, FileKinds
  <2>1. CASE o.err
    <3>1. \E S \in SUBSET {end, error} : x = [call |-> marked, reqs |-> S]
      BY <1>8, <2>1 DEF Continue, AfterRead, AfterSyncStep, Goes, marked, end, error
    <3> QED
      BY <1>2, <1>5, <2>0, <3>1, FailedSound
  <2>2. CASE ~o.err /\ o.val = <<>>
    <3>1. x = [call |-> c, reqs |-> {end}] \/ x = [call |-> same, reqs |-> {end}]
      BY <1>8, <2>2 DEF Continue, AfterRead, AfterSyncStep, Goes, same, end
    <3>2. e => c.got = m.files[c.inode]
      <4>1. c.got \o <<>> = c.got
        BY <1>0
      <4>2. e => /\ c.inode \in Inodes /\ Prefix(m, c.inode, c.got)
                 /\ Len(c.got) = Len(m.files[c.inode])
        BY <1>8, <2>2, <4>1 DEF e, Ended
      <4> QED
        BY <1>0, <4>2, WholeFileRead
    <3>3. e => Whole(m, q.call, c) /\ Whole(m, q.call, same)
      BY <1>3, <2>0, <3>2 DEF Whole, Carries
    <3> QED
      BY <1>1, <1>3, <2>0, <3>1, <3>3, CloseEndSound DEF e, end
  <2>3. CASE ~o.err /\ o.val # <<>>
    <3> DEFINE d == [c EXCEPT !.got = @ \o o.val]
    <3>1. x \in StartRead(q, d)
      BY <1>8, <2>3 DEF Continue, AfterRead, AfterSyncStep
    <3>2. o.val \in Seq(Units) /\ c.got \o o.val \in Seq(Units)
          /\ Len(c.got \o o.val) = Len(c.got) + Len(o.val)
      BY <1>0, <1>8, <2>3 DEF ValFits
    <3>3. /\ Carries(c, d) /\ d.fd = c.fd /\ d.inode = c.inode /\ d.got = c.got \o o.val
          /\ d.kind = c.kind
      BY <3>2 DEF Carries, CallType, CallShape, CallFields
    <3> HIDE DEF d
    <3>4. e => /\ d.results = <<>> /\ Holds(m, q.call, d, d.fd, d.inode)
               /\ m.fds[d.fd].pos = Len(d.got) /\ Prefix(m, d.inode, d.got)
      BY <1>8, <2>3, <3>2, <3>3 DEF e, Ended, Holds, Carries
    <3> QED
      BY <2>0, <3>1, <3>3, <3>4, StartReadSound DEF e
  <2> QED
    BY <2>1, <2>2, <2>3
<1>9. CASE q.op = "write"
  <2>0. c.kind = "writeFile" /\ c.kind \in FileKinds /\ c.fd \in Fds
    BY <1>9 DEF OpFits, Uses, FileKinds
  <2>1. CASE o.err
    <3> DEFINE next == [c EXCEPT !.failed = TRUE, !.round = @ + 1]
               thrown == [next EXCEPT !.threw = TRUE]
               again == Request(q, "write", 0, 0)
    <3>1. \/ x = [call |-> marked, reqs |-> {end}] \/ x = [call |-> thrown, reqs |-> {error}]
          \/ x = [call |-> next, reqs |-> {error, again}]
      BY <1>9, <2>1 DEF Continue, AfterWrite, AfterSyncStep, Goes, marked, end, error
    <3>2. Carries(c, next) /\ next.failed /\ next.fd = c.fd
      BY DEF Carries, CallType, CallShape, CallFields
    <3>3. Carries(c, thrown) /\ thrown.failed /\ thrown.fd = c.fd
      BY DEF Carries, CallType, CallShape, CallFields
    <3>4. again.call = q.call /\ again.arg = 0 /\ again.op = "write"
      BY DEF Request
    <3> HIDE DEF next, thrown, again
    <3>5. CASE x = [call |-> marked, reqs |-> {end}]
      BY <1>2, <1>5, <2>0, <3>5, FailedSound
    <3>6. CASE x = [call |-> thrown, reqs |-> {error}]
      BY <1>5, <2>0, <3>3, <3>6, FailedSound
    <3>7. CASE x = [call |-> next, reqs |-> {error, again}]
      <4>1. \A r \in {error, again} : /\ r.call = q.call /\ r.arg \in Nat
                                      /\ r.op = "close" \/ (r.op = "write" /\ c.kind = "writeFile")
        BY <1>5, <2>0, <3>4
      <4> QED
        BY <2>0, <3>2, <3>7, <4>1, FailedSound
    <3> QED
      BY <3>1, <3>5, <3>6, <3>7
  <2>2. CASE ~o.err
    <3> DEFINE d == [c EXCEPT !.written = @ + 1]
    <3>1. \/ /\ o.val = <<0>> \/ c.written + 1 = c.len
             /\ x = [call |-> c, reqs |-> {end}] \/ x = [call |-> same, reqs |-> {end}]
          \/ x \in StartWrite(q, d)
      BY <1>9, <2>2 DEF Continue, AfterWrite, AfterSyncStep, Goes, same, end
    <3>2. /\ Carries(c, d) /\ d.fd = c.fd /\ d.inode = c.inode /\ d.written = c.written + 1
          /\ d.kind = c.kind
      BY <1>0 DEF Carries, CallType, CallShape, CallFields
    <3> HIDE DEF d
    <3>3. e => /\ Holds(m, q.call, c, c.fd, c.inode) /\ o.val = <<1>> /\ c.results = <<>>
               /\ m.files[c.inode] = UnitsOf(q.call, c.written + 1)
      BY <1>9, <2>2 DEF e, Ended
    <3>4. CASE x \in StartWrite(q, d)
      <4>1. e => /\ d.results = <<>> /\ Holds(m, q.call, d, d.fd, d.inode)
                 /\ m.files[d.inode] = UnitsOf(q.call, d.written)
        BY <3>2, <3>3 DEF Holds, Carries
      <4> QED
        BY <2>0, <3>2, <3>4, <4>1, StartWriteSound DEF e
    <3>5. CASE /\ o.val = <<0>> \/ c.written + 1 = c.len
               /\ x = [call |-> c, reqs |-> {end}] \/ x = [call |-> same, reqs |-> {end}]
      <4>1. e => c.written + 1 = c.len
        BY <3>3, <3>5
      <4>2. e => Whole(m, q.call, c) /\ Whole(m, q.call, same)
        BY <1>3, <2>0, <3>3, <4>1 DEF Whole, Carries
      <4> QED
        BY <1>1, <1>3, <2>0, <3>5, <4>2, CloseEndSound DEF e, end
    <3> QED
      BY <3>1, <3>4, <3>5
  <2> QED
    BY <2>1, <2>2
<1>10. CASE q.op = "close"
  <2> DEFINE data == IF q.arg = 0 /\ c.kind = "readFile" THEN c.got ELSE <<>>
  <2>1. x \in Calls(c, o.err, data)
    BY <1>10 DEF Continue, AfterSyncStep, AfterClose
  <2>2. e => q.arg = 0 /\ Whole(m, q.call, c)
    BY <1>10 DEF e, Ended
  <2>3. e => Told(m, q.call, c, [err |-> o.err, data |-> data])
    BY <2>2 DEF Told, Whole
  <2> HIDE DEF data
  <2> QED
    BY <2>1, <2>3, AnswerSound DEF e
<1> QED
  BY <1>6, <1>7, <1>8, <1>9, <1>10 DEF Uses

-----------------------------------------------------------------------------
(* What the steps need.                                                    *)

LEMMA FirstNumbers ==
    ASSUME NEW n \in Nat
    PROVE  IsFiniteSet(1 .. n) /\ Cardinality(1 .. n) = n
<1>1. 1 \in Int /\ n \in Int
  OBVIOUS
<1>2. IsFiniteSet(1 .. n) /\ Cardinality(1 .. n) = IF 1 > n THEN 0 ELSE n - 1 + 1
  BY ONLY <1>1, FS_Interval, Zenon
<1>3. (IF 1 > n THEN 0 ELSE n - 1 + 1) = n
  OBVIOUS
<1> QED
  BY <1>2, <1>3

\* For every open() that is to be executed there is a free inode.
LEMMA FreeInodeFits ==
    ASSUME FsInv, InodeInv, Len(calls) <= MaxCalls, NEW q \in Asking, q.op = "open",
           \A r \in Asking : r.call \in DOMAIN calls
    PROVE  FreeInode \in Inodes /\ FreeInode <= 2 + Cardinality(DOMAIN calls \ Unopened)
<1> DEFINE D == DOMAIN calls
           O == D \ Unopened
           n == 2 + Cardinality(O)
           S == {i \in Inodes : /\ \A p \in Paths : k.names[p] # i
                                /\ \A f \in Fds : k.fds[f].inode # i}
<1>1. D = 1 .. Len(calls) /\ Len(calls) \in Nat /\ MaxCalls \in Nat
  BY ConstantsAssumption DEF FsInv, ShapeInv
<1>2. IsFiniteSet(D) /\ Cardinality(D) = Len(calls)
  BY <1>1, FirstNumbers
<1>3. q.call \in D /\ q.call \in Unopened
  BY DEF Unopened
<1>0. \A i \in Inodes : InUse(k, i) => i <= 1 + Cardinality(O)
  BY DEF InodeInv
<1> HIDE DEF D
<1>4. IsFiniteSet(D \ {q.call}) /\ Cardinality(D \ {q.call}) = Len(calls) - 1
  BY <1>2, <1>3, FS_RemoveElement
<1>5. O \subseteq D \ {q.call}
  BY <1>3
<1>6. Cardinality(O) \in Nat /\ Cardinality(O) <= Len(calls) - 1
  BY <1>4, <1>5, FS_Subset, FS_CardinalityType
<1>7. n \in Inodes /\ n \in Nat /\ n > 1 + Cardinality(O)
  BY <1>1, <1>6 DEF Inodes
<1> HIDE DEF O, n
<1>8. ~InUse(k, n)
  BY <1>0, <1>6, <1>7
<1>9. n \in S
  BY <1>7, <1>8 DEF InUse
<1>10. S \in SUBSET Nat /\ S # {} /\ S \subseteq Inodes
  <2>1. S \subseteq Inodes /\ Inodes \subseteq Nat
    BY <1>1 DEF Inodes
  <2> HIDE DEF S
  <2> QED
    BY <1>9, <2>1
<1>11. FreeInode = Min(S)
  BY DEF FreeInode
<1> HIDE DEF S
<1>12. PICK y \in S : \A z \in S : y <= z
  BY <1>10, FirstExists
<1>13. Min(S) \in S /\ \A z \in S : Min(S) <= z
  BY <1>12, Zenon DEF Min
<1> QED
  BY <1>9, <1>10, <1>11, <1>13 DEF n, D, O

\* The records of the calls only gain.
Grows ==
  /\ DOMAIN calls \subseteq DOMAIN calls'
  /\ \A d \in DOMAIN calls : /\ calls'[d].kind = calls[d].kind
                             /\ calls[d].with \subseteq calls'[d].with
                             /\ calls[d].failed => calls'[d].failed
                             /\ calls[d].stray => calls'[d].stray

LEMMA CleanBefore ==
    ASSUME TypeInv, Grows, NEW c \in DOMAIN calls, Clean(c)'
    PROVE  /\ Clean(c)
           /\ \A d \in calls[c].with : calls'[d].kind # "writeFile" /\ ~calls'[d].stray
<1>1. calls[c].with \subseteq DOMAIN calls /\ calls[c].with \subseteq calls'[c].with
  BY DEF TypeInv, Grows
<1>2. \A d \in calls'[c].with :
         calls'[d].kind # "writeFile" /\ ~calls'[d].failed /\ ~calls'[d].stray
  BY DEF Clean, Disturbing
<1>3. \A d \in calls[c].with :
         calls[d].kind # "writeFile" /\ ~calls[d].failed /\ ~calls[d].stray
  BY <1>1, <1>2 DEF Grows
<1>4. ~calls[c].failed
  BY DEF Clean, Grows
<1> QED
  BY <1>1, <1>2, <1>3, <1>4 DEF Clean, Disturbing

\* Two records that differ only in what history they have of other calls.
Alike(a, b) ==
  /\ a.kind = b.kind /\ a.path = b.path /\ a.len = b.len /\ a.written = b.written
  /\ a.fd = b.fd /\ a.got = b.got /\ a.sync = b.sync /\ a.failed = b.failed
  /\ a.inode = b.inode /\ a.results = b.results

LEMMA AlikeKeeps ==
    ASSUME NEW a, NEW b, Alike(a, b), NEW q
    PROVE  /\ OpFits(q, a) => OpFits(q, b)
           /\ \A m : Waiting(m, q, a) => Waiting(m, q, b)
           /\ \A m, err, val : Ended(m, q, err, val, a) => Ended(m, q, err, val, b)
<1>1. \A m, n, f, i : Holds(m, n, a, f, i) => Holds(m, n, b, f, i)
  BY DEF Alike, Holds
<1>2. \A m, n : Whole(m, n, a) => Whole(m, n, b)
  BY DEF Alike, Whole
<1>3. OpFits(q, a) => OpFits(q, b)
  BY DEF Alike, OpFits
<1>4. ASSUME NEW m, Waiting(m, q, a) PROVE Waiting(m, q, b)
  BY <1>1, <1>2, <1>4 DEF Alike, Waiting
<1>5. ASSUME NEW m, NEW err, NEW val, Ended(m, q, err, val, a) PROVE Ended(m, q, err, val, b)
  BY <1>1, <1>2, <1>5 DEF Alike, Ended
<1> QED
  BY <1>3, <1>4, <1>5

\* The requests and where they come from.
LEMMA Requests ==
    ASSUME FsInv
    PROVE  /\ \A q \in Asking : RequestShape(q) /\ q.call \in DOMAIN calls /\ q.op \in Ops
           /\ \A q \in Asking : q.call \in Nat \ {0} /\ q.call \in Active
           /\ \A i \in DOMAIN done : /\ RequestShape(done[i].q) /\ done[i].q.call \in DOMAIN calls
                                     /\ done[i].q.op \in Ops /\ done[i].q.call \in Nat \ {0}
                                     /\ done[i].q.call \in Active
           /\ \A q \in pool, i \in DOMAIN js : q.call # js[i].call
           /\ \A i \in DOMAIN js, j \in DOMAIN done : js[i].call # done[j].q.call
           /\ \A i, j \in DOMAIN js : i = j
<1>1. \A c \in DOMAIN calls : c \in Nat \ {0}
  BY DEF FsInv, ShapeInv
<1>2. \A q \in pool : RequestShape(q) /\ q.call \in DOMAIN calls /\ ~calls[q.call].sync
  BY DEF FsInv, PoolInv
<1>3. /\ \A i \in DOMAIN js : RequestShape(js[i]) /\ js[i].call \in DOMAIN calls /\ calls[js[i].call].sync
      /\ \A i, j \in DOMAIN js : i = j
  BY DEF FsInv, JsInv
<1>4. \A i \in DOMAIN done : /\ RequestShape(done[i].q) /\ done[i].q.call \in DOMAIN calls
                             /\ ~calls[done[i].q.call].sync
  BY DEF FsInv, DoneInv
<1>5. \A q \in Asking : q \in pool \/ \E i \in DOMAIN js : q = js[i]
  BY DEF Asking
<1>6. /\ \A q \in pool : q.call \in Active
      /\ \A i \in DOMAIN js : js[i].call \in Active
      /\ \A i \in DOMAIN done : done[i].q.call \in Active
  BY DEF Active
<1> QED
  BY <1>1, <1>2, <1>3, <1>4, <1>5, <1>6 DEF RequestShape

\* A request that is executed: the kernel stays in order, and what another call that
\* stays clean has is not touched.
LEMMA KernelKept ==
    ASSUME FsInv, WholeInv, NEW q \in Asking, NEW o \in Outcomes(q)
    PROVE  /\ KernelType(o.k) /\ ValFits(q, o.err, o.val) /\ o.err \in BOOLEAN
           /\ \A i \in Inodes : InUse(o.k, i) =>
                 InUse(k, i) \/ (q.op = "open" /\ i <= 2 + Cardinality(DOMAIN calls \ Unopened))
           /\ Waiting(k, q, calls[q.call]) => Ended(o.k, q, o.err, o.val, calls[q.call])
<1>1. q.op \in Ops /\ q.call \in DOMAIN calls /\ q.call \in Nat
  BY Requests
<1>2. CallType(calls[q.call]) /\ OpFits(q, calls[q.call]) /\ KernelType(k)
  BY <1>1 DEF WholeInv, TypeInv, FitInv
<1>3. q.op = "open" =>
        FreeInode \in Inodes /\ FreeInode <= 2 + Cardinality(DOMAIN calls \ Unopened)
  BY Requests, FreeInodeFits DEF WholeInv, TypeInv
<1>4. o.err \in BOOLEAN
  <2>1. System(q).err \in BOOLEAN /\ DOMAIN System(q) = {"k", "err", "val"}
    BY <1>1 DEF System, Open, Read, Write, Close, Stat, MkDir, RmDir, Unlink, Rename, ReadDir,
                Outcome, Failure, Ops
  <2>2. Fault(q).err \in BOOLEAN
    BY <2>1 DEF Fault, Failure
  <2> QED
    BY <2>1, <2>2 DEF Outcomes
<1>5. /\ KernelType(o.k) /\ ValFits(q, o.err, o.val)
      /\ \A i \in Inodes : InUse(o.k, i) => InUse(k, i) \/ (q.op = "open" /\ i = FreeInode)
  BY <1>1, <1>2, <1>3, KernelStep
<1>6. Waiting(k, q, calls[q.call]) => Ended(o.k, q, o.err, o.val, calls[q.call])
  BY <1>1, <1>2, <1>3, ExecutedWell
<1> QED
  BY <1>3, <1>4, <1>5, <1>6

LEMMA OthersKept ==
    ASSUME FsInv, WholeInv, NEW q \in Asking, NEW o \in Outcomes(q), Grows,
           Stray(q) => calls'[q.call].stray,
           NEW c \in Active, c \in DOMAIN calls, c # 0, c # q.call, Clean(c)'
    PROVE  Spared(k, o.k, c)
<1>1. q.op \in Ops /\ q.call \in DOMAIN calls /\ q.call \in Active
  BY Requests
<1>2. q.call \in calls[c].with
  BY <1>1 DEF WholeInv, OverlapInv
<1>3. calls'[q.call].kind # "writeFile" /\ ~calls'[q.call].stray
  BY <1>2, CleanBefore DEF WholeInv
<1>4. calls[q.call].kind # "writeFile" /\ ~Stray(q)
  BY <1>1, <1>3 DEF Grows
<1>5. CallType(calls[q.call]) /\ OpFits(q, calls[q.call]) /\ KernelType(k)
  BY <1>1 DEF WholeInv, TypeInv, FitInv
<1> QED
  BY <1>1, <1>4, <1>5, OthersSpared

\* The inodes in use, after q was executed.
LEMMA InodesKept ==
    ASSUME FsInv, WholeInv, NEW q \in Asking, NEW o \in Outcomes(q), k' = o.k,
           DOMAIN calls' = DOMAIN calls,
           Unopened' = IF q.op = "open" THEN Unopened \ {q.call} ELSE Unopened
    PROVE  InodeInv'
<1> DEFINE O == DOMAIN calls \ Unopened
           P == DOMAIN calls' \ Unopened'
<1>1. IsFiniteSet(DOMAIN calls)
  <2>1. DOMAIN calls = 1 .. Len(calls) /\ Len(calls) \in Nat
    BY DEF FsInv, ShapeInv
  <2> QED
    BY <2>1, FS_Interval
<1>2. IsFiniteSet(O) /\ Cardinality(O) \in Nat
  BY <1>1, FS_Subset, FS_CardinalityType
<1>3. \A i \in Inodes : InUse(k, i) => i <= 1 + Cardinality(O)
  BY DEF WholeInv, InodeInv
<1>4. \A i \in Inodes : InUse(k, i)' => InUse(k, i) \/ (q.op = "open" /\ i <= 2 + Cardinality(O))
  BY KernelKept DEF InUse
<1>5. q.call \in DOMAIN calls
  BY Requests
<1>6. CASE q.op = "open"
  <2>1. P = O \union {q.call} /\ q.call \notin O
    BY <1>5, <1>6 DEF Unopened
  <2>2. Cardinality(P) = Cardinality(O) + 1
    BY <1>2, <2>1, FS_AddElement
  <2> HIDE DEF O, P
  <2>3. \A i \in Inodes : InUse(k, i)' => i <= 1 + Cardinality(P)
    BY <1>2, <1>3, <1>4, <2>2 DEF Inodes
  <2> QED
    BY <2>3 DEF InodeInv, P, Inodes, InUse
<1>7. CASE q.op # "open"
  <2>1. P = O
    BY <1>7
  <2> HIDE DEF O, P
  <2>2. \A i \in Inodes : InUse(k, i)' => i <= 1 + Cardinality(P)
    BY <1>3, <1>4, <1>7, <2>1
  <2> QED
    BY <2>2 DEF InodeInv, P, Inodes, InUse
<1> QED
  BY <1>6, <1>7

-----------------------------------------------------------------------------
(* The steps of whole files.                                               *)

\* The user's call adds a record and makes the calls under way know of it.
LEMMA StartRecords ==
    ASSUME FsInv, NEW what, NEW sync, NEW path, NEW to, NEW len, Start(what, sync, path, to, len)
    PROVE  LET c == Len(calls) + 1
               new == calls'[c]
           IN  /\ c \in Nat \ {0} /\ c \notin DOMAIN calls /\ Len(calls') = c /\ c <= MaxCalls
               /\ DOMAIN calls' = DOMAIN calls \union {c}
               /\ \A d \in DOMAIN calls :
                     /\ Alike(calls[d], calls'[d]) /\ CallShape(calls'[d])
                     /\ calls'[d].stray = calls[d].stray
                     /\ calls'[d].with =
                          IF d \in Active THEN calls[d].with \union {c} ELSE calls[d].with
               /\ CallShape(new) /\ new.kind = what /\ new.sync = sync /\ new.path = path
               /\ new.len = len /\ new.fd = 0 /\ new.got = <<>> /\ new.written = 0
               /\ new.results = <<>> /\ new.failed = FALSE /\ new.stray = FALSE
               /\ new.with = Active
<1> DEFINE c == Len(calls) + 1
           new == [NewCall(what, sync, path, to, len) EXCEPT !.with = Active]
           upd(d) == IF d \in Active THEN [calls[d] EXCEPT !.with = @ \union {c}] ELSE calls[d]
           old == [d \in DOMAIN calls |-> upd(d)]
<1>1. PICK S : calls \in Seq(S)
  BY DEF FsInv, ShapeInv
<1>2. DOMAIN calls = 1 .. Len(calls) /\ Len(calls) \in Nat
  BY <1>1
<1>3. calls' = Append(old, new) /\ Len(calls) < MaxCalls /\ MaxCalls \in Nat
  BY ConstantsAssumption DEF Start
<1>4. /\ CallShape(new) /\ new.kind = what /\ new.sync = sync /\ new.path = path
      /\ new.len = len /\ new.fd = 0 /\ new.got = <<>> /\ new.written = 0
      /\ new.results = <<>> /\ new.failed = FALSE /\ new.stray = FALSE /\ new.with = Active
  BY DEF NewCall, CallShape, CallFields
<1>5. ASSUME NEW d \in DOMAIN calls
      PROVE  /\ Alike(calls[d], upd(d)) /\ CallShape(upd(d)) /\ upd(d).stray = calls[d].stray
             /\ upd(d).with = IF d \in Active THEN calls[d].with \union {c} ELSE calls[d].with
  <2>1. CallShape(calls[d])
    BY DEF FsInv, ShapeInv
  <2> QED
    BY <2>1 DEF CallShape, CallFields, Alike
<1> HIDE DEF new, upd
<1>6. /\ old \in Seq({upd(d) : d \in DOMAIN calls} \union {new})
      /\ Len(old) = Len(calls)
      /\ \A d \in DOMAIN calls : old[d] = upd(d)
  BY <1>2
<1> HIDE DEF old
<1>7. /\ Len(calls') = c
      /\ DOMAIN calls' = DOMAIN calls \union {c} /\ c \notin DOMAIN calls
      /\ calls'[c] = new
      /\ \A d \in DOMAIN calls : calls'[d] = old[d]
  BY <1>2, <1>3, <1>6
<1>8. c \in Nat \ {0} /\ c <= MaxCalls
  BY <1>2, <1>3
<1>9. \A d \in DOMAIN calls :
         /\ Alike(calls[d], calls'[d]) /\ CallShape(calls'[d])
         /\ calls'[d].stray = calls[d].stray
         /\ calls'[d].with = IF d \in Active THEN calls[d].with \union {c} ELSE calls[d].with
  BY <1>5, <1>6, <1>7
<1> HIDE DEF c
<1>10. /\ CallShape(calls'[c]) /\ calls'[c].kind = what /\ calls'[c].sync = sync
       /\ calls'[c].path = path /\ calls'[c].len = len /\ calls'[c].fd = 0 /\ calls'[c].got = <<>>
       /\ calls'[c].written = 0 /\ calls'[c].results = <<>> /\ calls'[c].failed = FALSE
       /\ calls'[c].stray = FALSE /\ calls'[c].with = Active
  BY <1>4, <1>7
<1> QED
  BY <1>7, <1>8, <1>9, <1>10 DEF c

\* The calls that are under way.
LEMMA ActiveCalls ==
    \A c : c \in Active <=> \/ \E q \in Asking : q.call = c
                            \/ \E i \in DOMAIN done : done[i].q.call = c
  BY DEF Active, Asking

LEMMA UserWhole ==
    ASSUME FsInv, WholeInv, UserCall
    PROVE  WholeInv' /\ WholeAnswers
<1>1. PICK what \in Kinds, sync \in BOOLEAN, path \in Paths, to \in Paths, len \in Lengths :
         Start(what, sync, path, to, len)
  BY DEF UserCall
<1> DEFINE c == Len(calls) + 1
           new == calls'[c]
           q == [call |-> c, arg |-> 0, n |-> 0,
                 op |-> IF what \in {"readFile", "writeFile"} THEN "open" ELSE what]
<1>2. /\ c \in Nat \ {0} /\ c \notin DOMAIN calls /\ Len(calls') = c /\ c <= MaxCalls
      /\ DOMAIN calls' = DOMAIN calls \union {c}
  BY <1>1, StartRecords
<1>3. /\ \A d \in DOMAIN calls :
            /\ Alike(calls[d], calls'[d]) /\ CallShape(calls'[d])
            /\ calls'[d].stray = calls[d].stray
            /\ calls'[d].with = IF d \in Active THEN calls[d].with \union {c} ELSE calls[d].with
  BY <1>1, StartRecords
<1>4. /\ CallShape(new) /\ new.kind = what /\ new.sync = sync /\ new.path = path
      /\ new.len = len /\ new.fd = 0 /\ new.got = <<>> /\ new.written = 0
      /\ new.results = <<>> /\ new.failed = FALSE /\ new.stray = FALSE /\ new.with = Active
  BY <1>1, StartRecords
<1>5. /\ js = <<>> /\ k' = k /\ done' = done
      /\ pool' = IF sync THEN pool ELSE pool \union {q}
      /\ js' = IF sync THEN <<q>> ELSE js
  BY <1>1 DEF Start
<1>6. /\ what \in {"readFile", "writeFile", "stat", "mkdir", "rmdir", "unlink", "rename", "readdir"}
      /\ len \in Nat
  BY ConstantsAssumption
<1>7. q.call = c /\ q.arg = 0 /\ q.op = IF what \in FileKinds THEN "open" ELSE what
  BY DEF FileKinds
<1> HIDE DEF c, q, new
<1>8. Asking = pool /\ Asking' = Asking \union {q}
  BY <1>5 DEF Asking
<1>9. /\ \A r \in Asking : r.call \in DOMAIN calls
      /\ \A i \in DOMAIN done : done[i].q.call \in DOMAIN calls
      /\ Active \subseteq DOMAIN calls
  BY Requests, ActiveCalls
<1>10. Active' = Active \union {c}
  BY <1>5, <1>7, <1>8, ActiveCalls DEF Asking, Active
<1>11. Grows
  BY <1>2, <1>3 DEF Grows, Alike
<1>12. TypeInv'
  <2>1. KernelType(k)'
    BY <1>5 DEF WholeInv, TypeInv
  <2>2. ASSUME NEW d \in DOMAIN calls
        PROVE  CallType(calls'[d]) /\ calls'[d].with \subseteq DOMAIN calls'
    <3>1. CallType(calls[d]) /\ calls[d].with \subseteq DOMAIN calls
      BY DEF WholeInv, TypeInv
    <3>2. calls'[d].with \subseteq DOMAIN calls'
      BY <1>2, <1>3, <3>1
    <3>3. Alike(calls[d], calls'[d]) /\ CallShape(calls'[d]) /\ calls'[d].stray = calls[d].stray
      BY <1>3
    <3> QED
      BY <3>1, <3>2, <3>3 DEF CallType, Alike
  <2>3. CallType(new) /\ new.with \subseteq DOMAIN calls'
    <3>1. new.with \subseteq DOMAIN calls' /\ <<>> \in Seq(Units)
      BY <1>2, <1>4, <1>9
    <3>2. new.len \in Nat /\ new.written \in Nat
      BY <1>4, <1>6
    <3>3. {new.sync, new.failed, new.stray} \subseteq BOOLEAN
      BY <1>4, Zenon
    <3> QED
      BY <1>4, <3>1, <3>2, <3>3 DEF CallType
  <2>4. Len(calls') <= MaxCalls
    BY <1>2
  <2>5. \A d \in DOMAIN calls' : CallType(calls'[d]) /\ calls'[d].with \subseteq DOMAIN calls'
    BY <1>2, <2>2, <2>3 DEF new
  <2> QED
    BY <2>1, <2>4, <2>5 DEF TypeInv
<1>13. OpFits(q, new)
  BY <1>4, <1>6, <1>7 DEF OpFits, Uses, FileKinds
<1>14. FitInv'
  <2>1. \A r \in Asking' : OpFits(r, calls[r.call])'
    <3>1. ASSUME NEW r \in Asking PROVE OpFits(r, calls'[r.call])
      BY <1>3, <1>9, AlikeKeeps DEF WholeInv, FitInv
    <3> QED
      BY <1>7, <1>8, <1>13, <3>1 DEF new
  <2>2. ASSUME NEW i \in DOMAIN done
        PROVE  /\ OpFits(done[i].q, calls'[done[i].q.call])
               /\ ValFits(done[i].q, done[i].err, done[i].val) /\ done[i].err \in BOOLEAN
    <3>1. /\ OpFits(done[i].q, calls[done[i].q.call])
          /\ ValFits(done[i].q, done[i].err, done[i].val) /\ done[i].err \in BOOLEAN
      BY DEF WholeInv, FitInv
    <3>2. Alike(calls[done[i].q.call], calls'[done[i].q.call])
      BY <1>3, <1>9
    <3> QED
      BY <3>1, <3>2, AlikeKeeps
  <2> QED
    BY <1>5, <2>1, <2>2 DEF FitInv
<1>15. SingleInv'
  <2>1. \A d \in DOMAIN calls : calls'[d].failed = calls[d].failed /\ d # c
    BY <1>2, <1>3 DEF Alike
  <2>2. \A r \in pool' : r \in pool \/ r = q
    BY <1>5
  <2>3. \A r \in pool : r.call \in DOMAIN calls
    BY <1>8, <1>9
  <2>4. \A r, s \in pool' : r.call = s.call /\ ~calls'[r.call].failed => r = s
    BY <1>7, <2>1, <2>2, <2>3 DEF WholeInv, SingleInv
  <2>5. \A r \in pool', i \in DOMAIN done : ~calls'[r.call].failed => r.call # done[i].q.call
    BY <1>7, <1>9, <2>1, <2>2, <2>3 DEF WholeInv, SingleInv
  <2>6. \A i, j \in DOMAIN done :
           done[i].q.call = done[j].q.call /\ ~calls'[done[i].q.call].failed => i = j
    BY <1>9, <2>1 DEF WholeInv, SingleInv
  <2> QED
    BY <1>5, <2>4, <2>5, <2>6 DEF SingleInv
<1>16. OverlapInv'
  <2> SUFFICES ASSUME NEW a \in Active', NEW b \in Active', a # b
               PROVE  b \in calls'[a].with
    BY DEF OverlapInv
  <2>1. CASE a = c
    BY <1>4, <1>10, <2>1 DEF new
  <2>2. CASE a \in Active
    <3>1. calls'[a].with = calls[a].with \union {c}
      BY <1>3, <1>9, <2>2
    <3> QED
      BY <1>10, <2>2, <3>1 DEF WholeInv, OverlapInv
  <2> QED
    BY <1>10, <2>1, <2>2
<1>17. InodeInv'
  <2> DEFINE O == DOMAIN calls \ Unopened
             P == DOMAIN calls' \ Unopened'
  <2>1. O \subseteq P
    BY <1>2, <1>7, <1>8 DEF Unopened
  <2>2. IsFiniteSet(P)
    <3>1. DOMAIN calls = 1 .. Len(calls) /\ Len(calls) \in Nat
      BY DEF FsInv, ShapeInv
    <3>2. IsFiniteSet(DOMAIN calls)
      BY <3>1, FirstNumbers
    <3>3. IsFiniteSet(DOMAIN calls')
      BY <1>2, <3>2, FS_AddElement
    <3> QED
      BY <3>3, FS_Subset
  <2>3. /\ Cardinality(O) \in Nat /\ Cardinality(P) \in Nat /\ Cardinality(O) <= Cardinality(P)
    BY <2>1, <2>2, FS_Subset, FS_CardinalityType
  <2>4. \A i \in Inodes : InUse(k, i) => i <= 1 + Cardinality(O)
    BY DEF WholeInv, InodeInv
  <2> HIDE DEF O, P
  <2>5. \A i \in Inodes : InUse(k, i) => i <= 1 + Cardinality(P)
    BY <2>3, <2>4 DEF Inodes
  <2> QED
    BY <1>5, <2>5 DEF InodeInv, P, Inodes, InUse, Paths, Fds
<1>18. CleanInv'
  <2> SUFFICES ASSUME NEW d \in DOMAIN calls', Clean(d)'
               PROVE  /\ \A r \in Asking' : r.call = d => Waiting(k', r, calls'[d])
                      /\ \A i \in DOMAIN done : done[i].q.call = d =>
                            Ended(k', done[i].q, done[i].err, done[i].val, calls'[d])
    BY <1>5 DEF CleanInv
  <2>1. CASE d = c
    <3>1. Waiting(k', q, calls'[d])
      BY <1>4, <1>6, <1>7, <2>1 DEF Waiting, FileKinds, new
    <3> QED
      BY <1>2, <1>8, <1>9, <2>1, <3>1
  <2>2. CASE d # c
    <3>1. d \in DOMAIN calls
      BY <1>2, <2>2
    <3>2. Clean(d) /\ Alike(calls[d], calls'[d])
      BY <1>3, <1>11, <3>1, CleanBefore DEF WholeInv
    <3>3. /\ \A r \in Asking : r.call = d => Waiting(k, r, calls[d])
          /\ \A i \in DOMAIN done : done[i].q.call = d =>
                Ended(k, done[i].q, done[i].err, done[i].val, calls[d])
      BY <3>1, <3>2 DEF WholeInv, CleanInv
    <3> QED
      BY <1>5, <1>7, <1>8, <2>2, <3>2, <3>3, AlikeKeeps
  <2> QED
    BY <2>1, <2>2
<1>19. WholeAnswers
  BY <1>3 DEF WholeAnswers, Alike
<1> QED
  BY <1>12, <1>14, <1>15, <1>16, <1>17, <1>18, <1>19 DEF WholeInv

\* A step that changes the record of the call c only, to v.
OneChanges(c, v) ==
  /\ DOMAIN calls' = DOMAIN calls /\ Len(calls') = Len(calls)
  /\ calls'[c] = v /\ \A d \in DOMAIN calls : d # c => calls'[d] = calls[d]

LEMMA OneRecord ==
    ASSUME FsInv, WholeInv, NEW c \in DOMAIN calls, NEW v, calls' = [calls EXCEPT ![c] = v],
           CallType(v), v.kind = calls[c].kind, v.with = calls[c].with,
           calls[c].failed => v.failed, calls[c].stray => v.stray, KernelType(k')
    PROVE  OneChanges(c, v) /\ Grows /\ TypeInv'
<1>1. PICK S : calls \in Seq(S)
  BY DEF FsInv, ShapeInv
<1>2. /\ DOMAIN calls' = DOMAIN calls /\ calls'[c] = v
      /\ \A d \in DOMAIN calls : d # c => calls'[d] = calls[d]
  OBVIOUS
<1>3. Len(calls') = Len(calls)
  <2>1. calls \in Seq(S \union {v}) /\ v \in S \union {v}
    BY <1>1
  <2>2. calls' \in Seq(S \union {v})
    BY <2>1
  <2> QED
    BY <1>1, <1>2, <2>2
<1>4. OneChanges(c, v)
  BY <1>2, <1>3 DEF OneChanges
<1>5. Grows
  BY <1>2 DEF Grows
<1>6. \A d \in DOMAIN calls : CallType(calls[d]) /\ calls[d].with \subseteq DOMAIN calls
  BY DEF WholeInv, TypeInv
<1>7. \A d \in DOMAIN calls' : CallType(calls'[d]) /\ calls'[d].with \subseteq DOMAIN calls'
  BY <1>2, <1>6
<1>8. Len(calls') <= MaxCalls
  BY <1>3 DEF WholeInv, TypeInv
<1> QED
  BY <1>4, <1>5, <1>7, <1>8 DEF TypeInv

\* The calls that are under way still know of each other.
LEMMA OverlapKept ==
    ASSUME FsInv, WholeInv, NEW c, NEW v, OneChanges(c, v), v.with = calls[c].with,
           Active' \subseteq Active
    PROVE  OverlapInv'
<1>1. \A d \in Active : d \in DOMAIN calls
  BY Requests, ActiveCalls
<1>2. \A d \in Active : calls'[d].with = calls[d].with
  BY <1>1 DEF OneChanges
<1>3. \A a, b \in Active' : a # b => b \in calls'[a].with
  BY <1>2 DEF WholeInv, OverlapInv
<1> QED
  BY <1>3 DEF OverlapInv

\* The other calls: what they wait for is as it was.
LEMMA OthersWell ==
    ASSUME FsInv, WholeInv, Grows, NEW c, NEW v, OneChanges(c, v),
           \A e \in Active \ {c} : Clean(e)' => Spared(k, k', e),
           NEW e \in DOMAIN calls, e # c, Clean(e)'
    PROVE  /\ \A r \in Asking : r.call = e => Waiting(k', r, calls'[e])
           /\ \A i \in DOMAIN done : done[i].q.call = e =>
                 Ended(k', done[i].q, done[i].err, done[i].val, calls'[e])
<1>1. Clean(e) /\ calls'[e] = calls[e]
  BY CleanBefore DEF WholeInv, OneChanges
<1>2. /\ \A r \in Asking : r.call = e => Waiting(k, r, calls[e])
      /\ \A i \in DOMAIN done : done[i].q.call = e =>
            Ended(k, done[i].q, done[i].err, done[i].val, calls[e])
  BY <1>1 DEF WholeInv, CleanInv
<1>3. ASSUME NEW r \in Asking, r.call = e PROVE Waiting(k', r, calls'[e])
  <2>1. Spared(k, k', r.call)
    BY <1>3, ActiveCalls
  <2> QED
    BY <1>1, <1>2, <1>3, <2>1, SparedKeeps
<1>4. ASSUME NEW i \in DOMAIN done, done[i].q.call = e
      PROVE  Ended(k', done[i].q, done[i].err, done[i].val, calls'[e])
  <2>1. Spared(k, k', done[i].q.call)
    BY <1>4, ActiveCalls
  <2>2. Ended(k, done[i].q, done[i].err, done[i].val, calls[e])
    BY <1>2, <1>4
  <2> QED
    BY <1>1, <2>1, <2>2, SparedKeeps
<1> QED
  BY <1>3, <1>4

LEMMA WorkerWhole ==
    ASSUME FsInv, WholeInv, Worker
    PROVE  WholeInv' /\ WholeAnswers
<1>1. PICK q \in pool : \E o \in Outcomes(q) :
         /\ k' = o.k /\ pool' = pool \ {q}
         /\ done' = Append(done, [q |-> q, err |-> o.err, val |-> o.val])
         /\ calls' = [calls EXCEPT ![q.call].stray = @ \/ Stray(q)]
         /\ UNCHANGED js
  BY DEF Worker, Execute
<1>2. PICK o \in Outcomes(q) :
         /\ k' = o.k /\ pool' = pool \ {q}
         /\ done' = Append(done, [q |-> q, err |-> o.err, val |-> o.val])
         /\ calls' = [calls EXCEPT ![q.call].stray = @ \/ Stray(q)]
         /\ UNCHANGED js
  BY <1>1
<1> DEFINE c == q.call
           d == [q |-> q, err |-> o.err, val |-> o.val]
           v == [calls[c] EXCEPT !.stray = @ \/ Stray(q)]
           n == Len(done) + 1
<1>3. q \in Asking /\ q \in pool /\ c \in DOMAIN calls /\ c \in Active /\ c # 0
  <2>1. q \in Asking
    BY DEF Asking
  <2> QED
    BY <2>1, Requests
<1>4. /\ KernelType(k') /\ ValFits(q, o.err, o.val) /\ o.err \in BOOLEAN
      /\ Waiting(k, q, calls[c]) => Ended(k', q, o.err, o.val, calls[c])
  BY <1>2, <1>3, KernelKept
<1>5. /\ CallType(v) /\ v.with = calls[c].with /\ Alike(calls[c], v)
      /\ v.stray = (calls[c].stray \/ Stray(q))
  <2>1. CallType(calls[c]) /\ calls[c].stray \in BOOLEAN /\ Stray(q) \in BOOLEAN
    BY <1>3 DEF WholeInv, TypeInv, CallType, Stray
  <2>2. (calls[c].stray \/ Stray(q)) \in BOOLEAN
    OBVIOUS
  <2> QED
    BY <2>1, <2>2 DEF CallType, CallShape, CallFields, Alike
<1>6. calls' = [calls EXCEPT ![c] = v]
  BY <1>2
<1>7. d.q = q /\ d.err = o.err /\ d.val = o.val
  OBVIOUS
<1>8. /\ DOMAIN done' = DOMAIN done \union {n} /\ n \notin DOMAIN done
      /\ done'[n] = d
      /\ \A i \in DOMAIN done : done'[i] = done[i]
  <2>1. PICK T : done \in Seq(T)
    BY DEF FsInv, ShapeInv
  <2>2. done' = Append(done, d)
    BY <1>2
  <2> HIDE DEF d
  <2> QED
    BY <2>1, <2>2
<1> HIDE DEF c, d, v, n
<1>9. OneChanges(c, v) /\ Grows /\ TypeInv'
  BY <1>3, <1>4, <1>5, <1>6, OneRecord DEF Alike
<1>10. /\ DOMAIN calls' = DOMAIN calls
       /\ \A e \in DOMAIN calls : Alike(calls[e], calls'[e])
       /\ calls'[c] = v
  BY <1>5, <1>9 DEF OneChanges, Alike
<1>11. /\ \A r \in Asking : r.call \in DOMAIN calls
       /\ \A i \in DOMAIN done : done[i].q.call \in DOMAIN calls
       /\ \A i \in DOMAIN js : js[i].call # c
  BY <1>3, Requests DEF c
<1>12. /\ \A r \in Asking' : r \in Asking
       /\ \A r \in Asking : r \in Asking' \/ r = q
  BY <1>2 DEF Asking
<1>13. FitInv'
  <2>1. \A r \in Asking' : OpFits(r, calls'[r.call])
    BY <1>10, <1>11, <1>12, AlikeKeeps DEF WholeInv, FitInv
  <2>2. \A i \in DOMAIN done :
           /\ OpFits(done[i].q, calls'[done[i].q.call])
           /\ ValFits(done[i].q, done[i].err, done[i].val) /\ done[i].err \in BOOLEAN
    BY <1>10, <1>11, AlikeKeeps DEF WholeInv, FitInv
  <2>3. OpFits(q, calls'[c]) /\ ValFits(d.q, d.err, d.val) /\ d.err \in BOOLEAN
    BY <1>3, <1>4, <1>7, <1>10, AlikeKeeps DEF WholeInv, FitInv, c
  <2>4. \A i \in DOMAIN done' :
           /\ OpFits(done'[i].q, calls'[done'[i].q.call])
           /\ ValFits(done'[i].q, done'[i].err, done'[i].val) /\ done'[i].err \in BOOLEAN
    <3>1. ASSUME NEW i \in DOMAIN done', i # n
          PROVE  /\ OpFits(done'[i].q, calls'[done'[i].q.call])
                 /\ ValFits(done'[i].q, done'[i].err, done'[i].val) /\ done'[i].err \in BOOLEAN
      BY <1>8, <2>2, <3>1
    <3> QED
      BY <1>7, <1>8, <2>3, <3>1 DEF c
  <2> QED
    BY <2>1, <2>4 DEF FitInv
<1>14. ASSUME ~calls[c].failed
       PROVE  /\ \A r \in pool : r.call = c => r = q
              /\ \A i \in DOMAIN done : done[i].q.call # c
  BY <1>3, <1>14 DEF WholeInv, SingleInv, c
<1>15. SingleInv'
  <2>1. \A e \in DOMAIN calls : calls'[e].failed = calls[e].failed
    BY <1>10 DEF Alike
  <2>2. \A r \in pool : r.call \in DOMAIN calls
    BY <1>11 DEF Asking
  <2>3. \A r, s \in pool' : r.call = s.call /\ ~calls'[r.call].failed => r = s
    BY <1>2, <2>1, <2>2 DEF WholeInv, SingleInv
  <2>4. ASSUME NEW r \in pool', NEW i \in DOMAIN done', ~calls'[r.call].failed,
               r.call = done'[i].q.call
        PROVE  FALSE
    <3>1. r \in pool /\ r # q /\ ~calls[r.call].failed
      BY <1>2, <2>1, <2>2, <2>4
    <3>2. CASE i \in DOMAIN done
      BY <1>8, <2>4, <3>1, <3>2 DEF WholeInv, SingleInv
    <3>3. CASE i = n
      BY <1>7, <1>8, <1>14, <2>4, <3>1, <3>3 DEF c
    <3> QED
      BY <1>8, <3>2, <3>3
  <2>5. ASSUME NEW i \in DOMAIN done', NEW j \in DOMAIN done', done'[i].q.call = done'[j].q.call,
               ~calls'[done'[i].q.call].failed
        PROVE  i = j
    <3>1. CASE i \in DOMAIN done /\ j \in DOMAIN done
      BY <1>8, <1>11, <2>1, <2>5, <3>1 DEF WholeInv, SingleInv
    <3>2. CASE i = n /\ j \in DOMAIN done
      BY <1>3, <1>7, <1>8, <1>14, <2>1, <2>5, <3>2 DEF c
    <3>3. CASE j = n /\ i \in DOMAIN done
      BY <1>3, <1>7, <1>8, <1>14, <2>1, <2>5, <3>3 DEF c
    <3> QED
      BY <1>8, <3>1, <3>2, <3>3
  <2> QED
    BY <2>3, <2>4, <2>5 DEF SingleInv
<1>16. OverlapInv'
  <2>1. \A i \in DOMAIN done' : done'[i].q.call = c \/ \E j \in DOMAIN done : done'[i].q.call = done[j].q.call
    BY <1>7, <1>8 DEF c
  <2>2. Active' \subseteq Active
    <3>1. ASSUME NEW e \in Active' PROVE e \in Active
      <4>1. \/ \E r \in Asking' : r.call = e
            \/ \E i \in DOMAIN done' : done'[i].q.call = e
        BY <3>1 DEF Active, Asking
      <4> QED
        BY <1>3, <1>12, <2>1, <4>1, ActiveCalls
    <3> QED
      BY <3>1
  <2> QED
    BY <1>5, <1>9, <2>2, OverlapKept
<1>17. InodeInv'
  <2>1. ASSUME q.op = "open"
        PROVE  \A r \in Asking' : r.call # c
    <3>1. ~calls[c].failed
      BY <1>3, <2>1 DEF WholeInv, FitInv, OpFits, c
    <3>2. \A r \in Asking' : r \in pool' \/ \E i \in DOMAIN js : r = js[i]
      BY <1>2 DEF Asking
    <3> QED
      BY <1>2, <1>11, <1>14, <3>1, <3>2
  <2>2. Unopened' = IF q.op = "open" THEN Unopened \ {c} ELSE Unopened
    <3>1. CASE q.op = "open"
      BY <1>12, <2>1, <3>1 DEF Unopened, c
    <3>2. CASE q.op # "open"
      BY <1>12, <3>2 DEF Unopened
    <3> QED
      BY <3>1, <3>2
  <2> QED
    BY <1>2, <1>3, <1>10, <2>2, InodesKept DEF c
<1>18. \A e \in Active \ {c} : Clean(e)' => Spared(k, k', e)
  <2>1. ASSUME NEW e \in Active, e # c, Clean(e)' PROVE Spared(k, k', e)
    <3>1. e \in DOMAIN calls /\ e # 0
      BY Requests, ActiveCalls
    <3>2. Stray(q) => calls'[q.call].stray
      BY <1>5, <1>10 DEF c
    <3> QED
      BY <1>2, <1>3, <1>9, <2>1, <3>1, <3>2, OthersKept DEF c
  <2> QED
    BY <2>1
<1>19. CleanInv'
  <2> SUFFICES ASSUME NEW e \in DOMAIN calls, Clean(e)'
               PROVE  /\ \A r \in Asking' : r.call = e => Waiting(k', r, calls'[e])
                      /\ \A i \in DOMAIN done' : done'[i].q.call = e =>
                            Ended(k', done'[i].q, done'[i].err, done'[i].val, calls'[e])
    BY <1>10 DEF CleanInv
  <2>1. CASE e = c
    <3>1. Clean(c)
      BY <1>3, <1>9, <2>1, CleanBefore DEF WholeInv
    <3>2. ~calls[c].failed /\ Waiting(k, q, calls[c])
      BY <1>3, <3>1 DEF WholeInv, CleanInv, Clean, c
    <3>3. Ended(k', d.q, d.err, d.val, calls'[c])
      BY <1>3, <1>4, <1>7, <1>10, <3>2, AlikeKeeps
    <3>4. \A r \in Asking' : r.call # c
      <4>1. \A r \in Asking' : r \in pool' \/ \E i \in DOMAIN js : r = js[i]
        BY <1>2 DEF Asking
      <4> QED
        BY <1>2, <1>11, <1>14, <3>2, <4>1
    <3>5. \A i \in DOMAIN done' : done'[i].q.call = c => i = n
      BY <1>8, <1>14, <3>2
    <3> QED
      BY <1>8, <2>1, <3>3, <3>4, <3>5
  <2>2. CASE e # c
    <3>1. /\ \A r \in Asking : r.call = e => Waiting(k', r, calls'[e])
          /\ \A i \in DOMAIN done : done[i].q.call = e =>
                Ended(k', done[i].q, done[i].err, done[i].val, calls'[e])
      BY <1>9, <1>18, <2>2, OthersWell
    <3>2. \A i \in DOMAIN done' : done'[i].q.call = e => i \in DOMAIN done /\ done'[i] = done[i]
      BY <1>7, <1>8, <2>2 DEF c
    <3> QED
      BY <1>12, <3>1, <3>2
  <2> QED
    BY <2>1, <2>2
<1>20. WholeAnswers
  BY <1>10 DEF WholeAnswers, Alike
<1> QED
  BY <1>9, <1>13, <1>15, <1>16, <1>17, <1>19, <1>20 DEF WholeInv

\* The requests of a call that go on while it continues.
LEMMA FitsOn ==
    ASSUME NEW c, NEW d, d.kind = c.kind, c.fd \in Fds => d.fd \in Fds, NEW r, OpFits(r, c),
           r.op # "open" \/ ~d.failed
    PROVE  OpFits(r, d)
  BY DEF OpFits

\* What the call c answers when it becomes v, and no other does.
LEMMA AnswersWhole ==
    ASSUME FsInv, WholeInv, Grows, NEW c \in DOMAIN calls, NEW v, OneChanges(c, v),
           Clean(c)' => \/ v.results = calls[c].results
                        \/ calls[c].kind \notin FileKinds
                        \/ \E a : v.results = <<a>> /\ (a.err \/ Told(k', c, calls[c], a))
    PROVE  WholeAnswers
<1> SUFFICES ASSUME NEW e \in DOMAIN calls, calls'[e].results # calls[e].results,
                    ~calls'[e].results[Len(calls'[e].results)].err, ~calls'[e].failed,
                    Disturbing(e)' = {}
             PROVE  /\ calls[e].kind = "readFile" /\ calls[e].inode # -1 =>
                         calls'[e].results[Len(calls'[e].results)].data = k'.files[calls[e].inode]
                    /\ calls[e].kind = "writeFile" =>
                         k'.files[calls[e].inode] = [i \in 1 .. calls[e].len |-> <<e, i>>]
  BY DEF WholeAnswers
<1>1. e = c /\ calls'[e] = v
  BY DEF OneChanges
<1>2. Clean(c)'
  BY <1>1 DEF Clean
<1>3. CASE calls[c].kind \notin FileKinds
  BY <1>1, <1>3 DEF FileKinds
<1>4. ASSUME NEW a, v.results = <<a>>, a.err \/ Told(k', c, calls[c], a)
      PROVE  /\ calls[e].kind = "readFile" /\ calls[e].inode # -1 =>
                  calls'[e].results[Len(calls'[e].results)].data = k'.files[calls[e].inode]
             /\ calls[e].kind = "writeFile" =>
                  k'.files[calls[e].inode] = [i \in 1 .. calls[e].len |-> <<e, i>>]
  <2>1. calls'[e].results[Len(calls'[e].results)] = a
    BY <1>1, <1>4
  <2>2. Told(k', c, calls[c], a)
    BY <1>4, <2>1
  <2> QED
    BY <1>1, <2>1, <2>2 DEF Told, UnitsOf
<1> QED
  BY <1>1, <1>2, <1>3, <1>4

LEMMA AsyncWhole ==
    ASSUME FsInv, WholeInv, AfterAsync
    PROVE  WholeInv' /\ WholeAnswers
<1>0. PICK d, c : d = Head(done) /\ c = d.q.call
  OBVIOUS
<1>1. js = <<>> /\ done # <<>> /\ done' = Tail(done) /\ k' = k /\ js' = js
  BY DEF AfterAsync
<1>2. PICK x \in Continue(d.q, calls[c], d) :
         calls' = [calls EXCEPT ![c] = x.call] /\ pool' = pool \union x.reqs
  BY <1>0 DEF AfterAsync
<1>3. /\ d = done[1] /\ 1 \in DOMAIN done
      /\ \A i \in DOMAIN done' : i + 1 \in DOMAIN done /\ i + 1 # 1 /\ done'[i] = done[i + 1] /\ i \in Int
  <2>1. PICK T : done \in Seq(T)
    BY DEF FsInv, ShapeInv
  <2> QED
    BY <1>0, <1>1, <2>1
<1>4. /\ RequestShape(d.q) /\ d.q.op \in Ops /\ c \in DOMAIN calls /\ c \in Active
      /\ ~calls[c].sync /\ CallShape(calls[c])
  BY <1>0, <1>3, Requests DEF FsInv, DoneInv, ShapeInv
<1>5. /\ Follows(d.q, calls[c], d, x)
      /\ calls[c].failed => x.call.failed
      /\ ~x.call.failed => \A r1, r2 \in x.reqs : r1 = r2
  BY <1>4, AsyncEffect
<1>6. /\ x.call.stray = calls[c].stray
      /\ \A r \in x.reqs : r.call = c /\ r.op \in Uses
  BY <1>0, <1>5 DEF Follows
<1>7. /\ KernelType(k) /\ CallType(calls[c]) /\ OpFits(d.q, calls[c]) /\ d.err \in BOOLEAN
      /\ ValFits(d.q, d.err, d.val)
  BY <1>0, <1>3, <1>4 DEF WholeInv, TypeInv, FitInv
<1>8. Sound(k, d.q, calls[c], d, x)
  BY <1>2, <1>4, <1>7, ContinueSound
<1>9. /\ CallType(x.call) /\ x.call.kind = calls[c].kind /\ x.call.with = calls[c].with
      /\ calls[c].fd \in Fds => x.call.fd \in Fds
      /\ \A r \in x.reqs : OpFits(r, x.call)
  BY <1>8 DEF Sound
<1> DEFINE e == Ended(k, d.q, d.err, d.val, calls[c])
<1>10. e /\ ~x.call.failed =>
         /\ \A r \in x.reqs : Waiting(k, r, x.call)
         /\ \/ x.call.results = calls[c].results
            \/ calls[c].kind \notin FileKinds
            \/ \E a : x.call.results = <<a>> /\ (a.err \/ Told(k, c, calls[c], a))
  BY <1>0, <1>8 DEF Sound
<1>11. Clean(c) => e
  BY <1>0, <1>3, <1>4 DEF WholeInv, CleanInv
<1>12. d.q.call = c
  BY <1>0
<1> HIDE DEF e
<1>13. OneChanges(c, x.call) /\ Grows /\ TypeInv'
  BY <1>1, <1>2, <1>4, <1>5, <1>6, <1>7, <1>9, OneRecord
<1>14. /\ DOMAIN calls' = DOMAIN calls /\ calls'[c] = x.call
       /\ \A b \in DOMAIN calls : b # c => calls'[b] = calls[b]
  BY <1>13 DEF OneChanges
<1>15. Asking = pool /\ Asking' = Asking \union x.reqs
  BY <1>1, <1>2 DEF Asking
<1>16. /\ \A r \in Asking : r.call \in DOMAIN calls
       /\ \A i \in DOMAIN done : done[i].q.call \in DOMAIN calls
  BY Requests
<1>17. ASSUME ~calls[c].failed
       PROVE  /\ \A r \in pool : r.call # c
              /\ \A i \in DOMAIN done' : done'[i].q.call # c
  BY <1>3, <1>12, <1>17 DEF WholeInv, SingleInv
<1>18. FitInv'
  <2>1. ASSUME NEW r \in Asking PROVE OpFits(r, calls'[r.call])
    <3>1. OpFits(r, calls[r.call]) /\ r.call \in DOMAIN calls
      BY <1>16 DEF WholeInv, FitInv
    <3>2. CASE r.call = c
      <4>1. calls[c].failed
        BY <1>15, <1>17, <3>2
      <4>2. r.op # "open"
        BY <3>1, <3>2, <4>1 DEF OpFits
      <4> QED
        BY <1>9, <1>14, <3>1, <3>2, <4>2, FitsOn
    <3> QED
      BY <1>14, <3>1, <3>2
  <2>2. \A r \in Asking' : OpFits(r, calls'[r.call])
    BY <1>6, <1>9, <1>14, <1>15, <2>1
  <2>3. ASSUME NEW i \in DOMAIN done'
        PROVE  /\ OpFits(done'[i].q, calls'[done'[i].q.call])
               /\ ValFits(done'[i].q, done'[i].err, done'[i].val) /\ done'[i].err \in BOOLEAN
    <3>1. PICK s : s = done'[i] /\ s = done[i + 1] /\ i + 1 \in DOMAIN done
      BY <1>3
    <3>2. /\ OpFits(s.q, calls[s.q.call]) /\ ValFits(s.q, s.err, s.val) /\ s.err \in BOOLEAN
          /\ s.q.call \in DOMAIN calls
      BY <1>16, <3>1 DEF WholeInv, FitInv
    <3>3. CASE s.q.call = c
      <4>1. calls[c].failed
        BY <1>17, <3>1, <3>3
      <4>2. s.q.op # "open"
        BY <3>2, <3>3, <4>1 DEF OpFits
      <4>3. OpFits(s.q, x.call)
        BY <1>9, <3>2, <3>3, <4>2, FitsOn
      <4> QED
        BY <1>14, <3>1, <3>2, <3>3, <4>3
    <3>4. CASE s.q.call # c
      BY <1>14, <3>1, <3>2, <3>4
    <3> QED
      BY <3>3, <3>4
  <2> QED
    BY <2>2, <2>3 DEF FitInv
<1>19. \A b \in DOMAIN calls : ~calls'[b].failed => ~calls[b].failed
  BY <1>5, <1>14
<1>20. SingleInv'
  <2>1. \A r \in pool : r.call \in DOMAIN calls
    BY <1>15, <1>16
  <2>2. \A r, s \in pool' : r.call = s.call /\ ~calls'[r.call].failed => r = s
    <3> SUFFICES ASSUME NEW r \in pool', NEW s \in pool', r.call = s.call, ~calls'[r.call].failed
                 PROVE  r = s
      OBVIOUS
    <3>1. CASE r \in pool /\ s \in pool
      BY <1>19, <2>1, <3>1 DEF WholeInv, SingleInv
    <3>2. CASE r \in x.reqs \/ s \in x.reqs
      <4>1. r.call = c /\ s.call = c
        BY <1>6, <3>2
      <4>2. ~calls[c].failed /\ ~x.call.failed
        BY <1>4, <1>14, <1>19, <4>1
      <4> QED
        BY <1>2, <1>5, <1>17, <4>1, <4>2
    <3> QED
      BY <1>2, <3>1, <3>2
  <2>3. ASSUME NEW r \in pool', NEW i \in DOMAIN done', ~calls'[r.call].failed
        PROVE  r.call # done'[i].q.call
    <3>1. CASE r \in pool
      BY <1>3, <1>19, <2>1, <2>3, <3>1 DEF WholeInv, SingleInv
    <3>2. CASE r \in x.reqs
      BY <1>4, <1>6, <1>17, <1>19, <2>3, <3>2
    <3> QED
      BY <1>2, <3>1, <3>2
  <2>4. ASSUME NEW i \in DOMAIN done', NEW j \in DOMAIN done', done'[i].q.call = done'[j].q.call,
               ~calls'[done'[i].q.call].failed
        PROVE  i = j
    <3>1. i + 1 \in DOMAIN done /\ j + 1 \in DOMAIN done /\ i \in Int /\ j \in Int
      BY <1>3
    <3>2. /\ done[i + 1].q.call = done[j + 1].q.call /\ ~calls[done[i + 1].q.call].failed
      BY <1>3, <1>16, <1>19, <2>4
    <3>3. i + 1 = j + 1
      BY <3>1, <3>2 DEF WholeInv, SingleInv
    <3> QED
      BY <3>1, <3>3
  <2> QED
    BY <2>2, <2>3, <2>4 DEF SingleInv
<1>21. OverlapInv'
  <2>1. ASSUME NEW b \in Active' PROVE b \in Active
    <3>1. \/ \E r \in Asking' : r.call = b
          \/ \E i \in DOMAIN done' : done'[i].q.call = b
      BY <2>1 DEF Active, Asking
    <3> QED
      BY <1>3, <1>4, <1>6, <1>15, <3>1, ActiveCalls
  <2>2. Active' \subseteq Active
    BY <2>1
  <2> QED
    BY <1>9, <1>13, <2>2, OverlapKept
<1>22. InodeInv'
  <2>1. Unopened' = Unopened
    BY <1>6, <1>15 DEF Unopened, Uses
  <2> QED
    BY <1>1, <1>14, <2>1 DEF WholeInv, InodeInv, Inodes, InUse, Paths, Fds
<1>23. Clean(c)' => Clean(c) /\ ~calls[c].failed /\ ~x.call.failed
  BY <1>4, <1>13, <1>14, CleanBefore DEF WholeInv, Clean
<1>24. CleanInv'
  <2> SUFFICES ASSUME NEW b \in DOMAIN calls, Clean(b)'
               PROVE  /\ \A r \in Asking' : r.call = b => Waiting(k', r, calls'[b])
                      /\ \A i \in DOMAIN done' : done'[i].q.call = b =>
                            Ended(k', done'[i].q, done'[i].err, done'[i].val, calls'[b])
    BY <1>14 DEF CleanInv
  <2>1. CASE b = c
    <3>1. \A r \in x.reqs : Waiting(k', r, calls'[c])
      BY <1>1, <1>10, <1>11, <1>14, <1>23, <2>1
    <3> QED
      BY <1>15, <1>17, <1>23, <2>1, <3>1
  <2>2. CASE b # c
    <3>1. \A g \in Active \ {c} : Spared(k, k', g)
      BY <1>1 DEF Spared
    <3>2. /\ \A r \in Asking : r.call = b => Waiting(k', r, calls'[b])
          /\ \A i \in DOMAIN done : done[i].q.call = b =>
                Ended(k', done[i].q, done[i].err, done[i].val, calls'[b])
      BY <1>13, <2>2, <3>1, OthersWell
    <3>3. \A r \in Asking' : r.call = b => r \in Asking
      BY <1>6, <1>15, <2>2
    <3>4. \A i \in DOMAIN done' : i + 1 \in DOMAIN done /\ done'[i] = done[i + 1]
      BY <1>3
    <3> QED
      BY <3>2, <3>3, <3>4
  <2> QED
    BY <2>1, <2>2
<1>25. WholeAnswers
  BY <1>1, <1>4, <1>10, <1>11, <1>13, <1>23, AnswersWhole
<1> QED
  BY <1>13, <1>18, <1>20, <1>21, <1>22, <1>24, <1>25 DEF WholeInv

LEMMA SyncWhole ==
    ASSUME FsInv, WholeInv, SyncStep
    PROVE  WholeInv' /\ WholeAnswers
<1>1. PICK q : /\ js = <<q>> /\ RequestShape(q) /\ q.call \in DOMAIN calls /\ calls[q.call].sync
               /\ q.op # "close" => ~calls[q.call].failed
  BY DEF SyncStep, FsInv, JsInv
<1> DEFINE c == q.call
<1>2. Head(js) = q /\ pool' = pool /\ done' = done
  BY <1>1 DEF SyncStep
<1>3. PICK o \in Outcomes(q) :
         /\ k' = o.k
         /\ \E x \in Continue(q, calls[c], o) :
               /\ calls' = [calls EXCEPT ![c] = [x.call EXCEPT !.stray = @ \/ Stray(q)]]
               /\ js' = SetToSeq(x.reqs)
  BY <1>2 DEF SyncStep, Execute
<1>4. PICK x \in Continue(q, calls[c], o) :
         /\ calls' = [calls EXCEPT ![c] = [x.call EXCEPT !.stray = @ \/ Stray(q)]]
         /\ js' = SetToSeq(x.reqs)
  BY <1>3
<1> DEFINE v == [x.call EXCEPT !.stray = @ \/ Stray(q)]
<1>5. q \in Asking /\ \A i \in DOMAIN js : js[i] = q
  BY <1>1 DEF Asking
<1>6. q.op \in Ops /\ c \in DOMAIN calls /\ c \in Active /\ CallShape(calls[c])
  BY <1>5, Requests DEF FsInv, ShapeInv
<1>7. /\ Follows(q, calls[c], o, x)
      /\ calls[c].failed => x.call.failed
      /\ \A r1, r2 \in x.reqs : r1 = r2
  BY <1>1, <1>6, SyncEffect
<1>8. /\ x.call.stray = calls[c].stray
      /\ \A r \in x.reqs : r.call = c /\ r.op \in Uses
  BY <1>7 DEF Follows
<1>9. /\ KernelType(k') /\ ValFits(q, o.err, o.val) /\ o.err \in BOOLEAN
      /\ Waiting(k, q, calls[c]) => Ended(k', q, o.err, o.val, calls[c])
  BY <1>3, <1>5, KernelKept
<1>10. Sound(k', q, calls[c], o, x)
  <2>1. CallType(calls[c]) /\ OpFits(q, calls[c])
    BY <1>5, <1>6 DEF WholeInv, TypeInv, FitInv
  <2> QED
    BY <1>4, <1>6, <1>9, <2>1, ContinueSound
<1>11. /\ CallType(x.call) /\ x.call.kind = calls[c].kind /\ x.call.with = calls[c].with
       /\ \A r \in x.reqs : OpFits(r, x.call)
  BY <1>10 DEF Sound
<1>12. Waiting(k, q, calls[c]) /\ ~x.call.failed =>
         /\ \A r \in x.reqs : Waiting(k', r, x.call)
         /\ \/ x.call.results = calls[c].results
            \/ calls[c].kind \notin FileKinds
            \/ \E a : x.call.results = <<a>> /\ (a.err \/ Told(k', c, calls[c], a))
  BY <1>9, <1>10 DEF Sound
<1>13. /\ CallType(v) /\ v.with = x.call.with /\ Alike(x.call, v)
       /\ v.stray = (x.call.stray \/ Stray(q))
  <2>1. x.call.stray \in BOOLEAN /\ Stray(q) \in BOOLEAN
    BY <1>11 DEF CallType, Stray
  <2>2. (x.call.stray \/ Stray(q)) \in BOOLEAN
    OBVIOUS
  <2> QED
    BY <1>11, <2>1, <2>2 DEF CallType, CallShape, CallFields, Alike
<1>14. calls' = [calls EXCEPT ![c] = v]
  BY <1>4
<1> HIDE DEF c, v
<1>15. OneChanges(c, v) /\ Grows /\ TypeInv'
  BY <1>6, <1>7, <1>8, <1>9, <1>11, <1>13, <1>14, OneRecord DEF Alike
<1>16. /\ DOMAIN calls' = DOMAIN calls /\ calls'[c] = v
       /\ \A b \in DOMAIN calls : b # c => calls'[b] = calls[b]
  BY <1>15 DEF OneChanges
<1>17. js' = <<>> \/ \E r \in x.reqs : js' = <<r>>
  BY <1>4, <1>7, SeqOfOne
<1>18. /\ \A r \in pool : r.call \in DOMAIN calls /\ r.call # c
       /\ \A i \in DOMAIN done : done[i].q.call \in DOMAIN calls /\ done[i].q.call # c
  BY <1>1 DEF FsInv, PoolInv, DoneInv, c
<1>19. /\ \A r \in Asking : r \in pool \/ r = q
       /\ \A r \in Asking' : r \in pool \/ r \in x.reqs
       /\ \A r \in pool : r \in Asking /\ r \in Asking'
  <2>1. ASSUME NEW i \in DOMAIN js' PROVE js'[i] \in x.reqs
    BY <1>17
  <2> QED
    BY <1>2, <1>5, <2>1 DEF Asking
<1>20. FitInv'
  <2>1. ASSUME NEW r \in Asking' PROVE OpFits(r, calls'[r.call])
    <3>1. CASE r \in pool
      BY <1>16, <1>18, <1>19, <3>1 DEF WholeInv, FitInv
    <3>2. CASE r \in x.reqs
      <4>1. OpFits(r, v)
        BY <1>11, <1>13, <3>2, AlikeKeeps
      <4> QED
        BY <1>8, <1>16, <3>2, <4>1 DEF c
    <3> QED
      BY <1>19, <3>1, <3>2
  <2>2. \A i \in DOMAIN done : calls'[done[i].q.call] = calls[done[i].q.call]
    BY <1>16, <1>18
  <2>3. \A i \in DOMAIN done :
           /\ OpFits(done[i].q, calls'[done[i].q.call])
           /\ ValFits(done[i].q, done[i].err, done[i].val) /\ done[i].err \in BOOLEAN
    BY <2>2 DEF WholeInv, FitInv
  <2> QED
    BY <1>2, <2>1, <2>3 DEF FitInv
<1>21. SingleInv'
  <2>1. /\ \A r \in pool : calls'[r.call] = calls[r.call]
        /\ \A i \in DOMAIN done : calls'[done[i].q.call] = calls[done[i].q.call]
    BY <1>16, <1>18
  <2> QED
    BY <1>2, <2>1 DEF WholeInv, SingleInv
<1>22. OverlapInv'
  <2>1. ASSUME NEW b \in Active' PROVE b \in Active
    <3>1. \/ \E r \in Asking' : r.call = b
          \/ \E i \in DOMAIN done : done[i].q.call = b
      BY <1>2, <2>1 DEF Active, Asking
    <3> QED
      BY <1>6, <1>8, <1>19, <3>1, ActiveCalls DEF c
  <2>2. Active' \subseteq Active
    BY <2>1
  <2> QED
    BY <1>11, <1>13, <1>15, <2>2, OverlapKept
<1>23. InodeInv'
  <2>1. \A r \in x.reqs : r.op # "open"
    BY <1>8 DEF Uses
  <2>2. Unopened' = IF q.op = "open" THEN Unopened \ {q.call} ELSE Unopened
    BY <1>18, <1>19, <2>1 DEF Unopened, c
  <2> QED
    BY <1>3, <1>5, <1>16, <2>2, InodesKept
<1>24. \A b \in Active \ {c} : Clean(b)' => Spared(k, k', b)
  <2>1. ASSUME NEW b \in Active, b # c, Clean(b)' PROVE Spared(k, k', b)
    <3>1. b \in DOMAIN calls /\ b # 0
      BY Requests, ActiveCalls
    <3>2. Stray(q) => calls'[q.call].stray
      BY <1>13, <1>16 DEF c
    <3> QED
      BY <1>3, <1>5, <1>15, <2>1, <3>1, <3>2, OthersKept DEF c
  <2> QED
    BY <2>1
<1>25. Clean(c)' => Waiting(k, q, calls[c]) /\ ~x.call.failed
  <2>1. ASSUME Clean(c)' PROVE Waiting(k, q, calls[c]) /\ ~x.call.failed
    <3>1. Clean(c)
      BY <1>6, <1>15, <2>1, CleanBefore DEF WholeInv, c
    <3>2. Waiting(k, q, calls[c])
      BY <1>5, <1>6, <3>1 DEF WholeInv, CleanInv, c
    <3>3. ~calls'[c].failed
      BY <2>1 DEF Clean
    <3> QED
      BY <1>13, <1>16, <3>2, <3>3 DEF Alike
  <2> QED
    BY <2>1
<1>26. CleanInv'
  <2> SUFFICES ASSUME NEW b \in DOMAIN calls, Clean(b)'
               PROVE  /\ \A r \in Asking' : r.call = b => Waiting(k', r, calls'[b])
                      /\ \A i \in DOMAIN done : done[i].q.call = b =>
                            Ended(k', done[i].q, done[i].err, done[i].val, calls'[b])
    BY <1>2, <1>16 DEF CleanInv
  <2>1. CASE b = c
    <3>1. \A r \in x.reqs : Waiting(k', r, x.call)
      BY <1>12, <1>25, <2>1
    <3>2. \A r \in x.reqs : Waiting(k', r, v)
      BY <1>13, <3>1, AlikeKeeps
    <3> QED
      BY <1>16, <1>18, <1>19, <2>1, <3>2
  <2>2. CASE b # c
    <3>1. /\ \A r \in Asking : r.call = b => Waiting(k', r, calls'[b])
          /\ \A i \in DOMAIN done : done[i].q.call = b =>
                Ended(k', done[i].q, done[i].err, done[i].val, calls'[b])
      BY <1>15, <1>24, <2>2, OthersWell
    <3>2. \A r \in Asking' : r.call = b => r \in Asking
      BY <1>8, <1>19, <2>2 DEF c
    <3> QED
      BY <3>1, <3>2
  <2> QED
    BY <2>1, <2>2
<1>27. WholeAnswers
  <2>1. Clean(c)' => \/ v.results = calls[c].results
                     \/ calls[c].kind \notin FileKinds
                     \/ \E a : v.results = <<a>> /\ (a.err \/ Told(k', c, calls[c], a))
    BY <1>12, <1>13, <1>25 DEF Alike
  <2> QED
    BY <1>6, <1>15, <2>1, AnswersWhole DEF c
<1> QED
  BY <1>15, <1>20, <1>21, <1>22, <1>23, <1>26, <1>27 DEF WholeInv

-----------------------------------------------------------------------------
(* Whole files, for every behaviour.                                       *)

LEMMA WholeInit == Init => WholeInv
<1> SUFFICES ASSUME Init PROVE WholeInv
  OBVIOUS
<1>1. PICK second \in {0, -1} :
        k = [names |-> [p \in Paths |-> CASE p = 1 -> 1 [] p = 2 -> second [] OTHER -> 0],
             files |-> [i \in Inodes |-> IF i = 1 THEN <<<<0, 1>>, <<0, 2>>>> ELSE <<>>],
             fds |-> [f \in Fds |-> NoFd]]
  BY DEF Init
<1>2. calls = <<>> /\ pool = {} /\ done = <<>> /\ js = <<>> /\ MaxCalls \in Nat
  BY ConstantsAssumption DEF Init
<1>3. Asking = {} /\ Active = {} /\ DOMAIN calls = {} /\ DOMAIN done = {} /\ Len(calls) = 0
  BY <1>2 DEF Asking, Active
<1>4. 1 \in Inodes
  BY <1>2 DEF Inodes
<1>5. /\ DOMAIN k = {"names", "files", "fds"}
      /\ k.names = [p \in Paths |-> CASE p = 1 -> 1 [] p = 2 -> second [] OTHER -> 0]
      /\ k.files = [i \in Inodes |-> IF i = 1 THEN <<<<0, 1>>, <<0, 2>>>> ELSE <<>>]
      /\ k.fds = [f \in Fds |-> NoFd]
  BY <1>1
<1>6. \A p \in Paths : k.names[p] \in {1, 0, -1}
  BY <1>5
<1>7. k.names \in [Paths -> Names]
  BY <1>4, <1>5, <1>6 DEF Names
<1>8. k.files \in [Inodes -> Seq(Units)]
  <2>1. <<<<0, 1>>, <<0, 2>>>> \in Seq(Units) /\ <<>> \in Seq(Units)
    BY DEF Units
  <2> QED
    BY <1>5, <2>1
<1>9. \A f \in Fds : FdType(k.fds[f])
  <2>1. /\ DOMAIN NoFd = {"inode", "pos", "owner", "writable"}
        /\ NoFd.inode = 0 /\ NoFd.pos = 0 /\ NoFd.writable = FALSE
    BY DEF NoFd
  <2>2. NoFd.inode \in Names /\ NoFd.pos \in Nat
    BY <2>1 DEF Names
  <2>3. NoFd.writable \in BOOLEAN /\ ~NoFd.writable
    BY <2>1, Zenon
  <2>4. FdType(NoFd)
    BY <2>1, <2>2, <2>3, Zenon DEF FdType
  <2> QED
    BY <1>5, <2>4
<1>10. KernelType(k)
  BY <1>5, <1>7, <1>8, <1>9 DEF KernelType, KernelShape, NoFd
<1>11. InodeInv
  <2>1. \A i \in Inodes : InUse(k, i) => i = 1
    BY <1>5, <1>6, <1>2 DEF InUse, NoFd, Inodes
  <2>2. Cardinality(DOMAIN calls \ Unopened) = 0
    BY <1>3, FS_EmptySet
  <2> QED
    BY <2>1, <2>2 DEF InodeInv
<1> QED
  BY <1>2, <1>3, <1>10, <1>11 DEF WholeInv, TypeInv, FitInv, SingleInv, OverlapInv, CleanInv

LEMMA WholeNext == FsInv /\ WholeInv /\ [Next]_vars => WholeInv' /\ [WholeAnswers]_vars
<1> SUFFICES ASSUME FsInv, WholeInv, [Next]_vars PROVE WholeInv' /\ [WholeAnswers]_vars
  OBVIOUS
<1>1. CASE UNCHANGED vars
  <2>1. /\ k' = k /\ calls' = calls /\ pool' = pool /\ done' = done /\ js' = js
    BY <1>1 DEF vars
  <2>2. Asking' = Asking /\ Active' = Active
    BY <2>1 DEF Asking, Active
  <2>3. TypeInv' /\ FitInv' /\ SingleInv' /\ OverlapInv'
    BY <2>1, <2>2 DEF WholeInv, TypeInv, FitInv, SingleInv, OverlapInv
  <2>4. InodeInv'
    BY <2>1, <2>2 DEF WholeInv, InodeInv, Unopened, InUse, Inodes, Paths, Fds
  <2>5. CleanInv'
    BY <2>1, <2>2 DEF WholeInv, CleanInv, Clean, Disturbing
  <2> QED
    BY <1>1, <2>3, <2>4, <2>5 DEF WholeInv
<1> QED
  BY <1>1, UserWhole, WorkerWhole, AsyncWhole, SyncWhole DEF Next

\* What readFile() and readFileSync() hand over is the whole file that was opened, and what
\* writeFile() and writeFileSync() report as written is in the file: for any number of calls,
\* paths, descriptors, lengths and failures, unless a read or write of the call itself fails
\* or a call that overlaps with it disturbs it (fs.js:170-314).
THEOREM WholeFiles == Spec => WholeFile
<1>1. Spec => [](FsInv /\ WholeInv)
  BY FsInit, WholeInit, FsNext, WholeNext, PTL DEF Spec
<1>2. FsInv /\ WholeInv /\ [Next]_vars => [WholeAnswers]_vars
  BY WholeNext
<1> QED
  BY <1>1, <1>2, PTL DEF Spec, WholeFile

-----------------------------------------------------------------------------
(* The devices: the inductive invariant.                                   *)

OpNames ==
  {"open", "close", "read", "write", "setAddress", "transferArray", "transferBuffer"}
    \cup PwmSetters

Entry ==
  [op : OpNames, arg : Nat, saw : Nat, ok : BOOLEAN, got : Nat,
   st : {"queued", "running", "finished", "calling", "called", "threw", "sync"}]

DeviceState ==
  [binding : BOOLEAN, struct : BOOLEAN, slot : [Fields -> Nat], live : SUBSET Nat,
   emitter : BOOLEAN, edge : BOOLEAN,
   fd : {"zero", "none", "open", "closing", "lost", "closed"},
   value : {"none", "open"},
   thread : {"none", "start", "check", "poll", "emit", "ended"}]

TypePart ==
  /\ kind \in DeviceKinds /\ exited \in BOOLEAN
  /\ reqs \in Seq(Entry) /\ dev \in DeviceState
  /\ wire \in Seq([req : Nat, val : Nat])

Asked == 1 .. Len(reqs)
Closes(i) == reqs[i].op = "close"
IsBusy(i) == reqs[i].st \in {"queued", "running", "finished", "calling"}
\* The open is yet to work.
Opens(i) == reqs[i].st \in {"queued", "running"} /\ reqs[i].op = "open"
Idle == \A i \in Asked : ~IsBusy(i)
CloseBusy == \E i \in Asked : IsBusy(i) /\ Closes(i)

\* The requests in the queue q are in state st, each one once.
Lists(q, st) ==
  /\ q \in Seq(Nat)
  /\ \A n \in 1 .. Len(q) : q[n] \in Asked /\ reqs[q[n]].st = st
  /\ \A m, n \in 1 .. Len(q) : q[m] = q[n] => m = n

\* Without a call that overlaps, the last call made is all that can be pending; without a
\* close that overlaps, a pending close is alone; without a call that comes early, the open.
AlonePart ==
  /\ "overlap" \notin use => "cut" \notin use /\ \A i \in Asked : IsBusy(i) => i = Len(reqs)
  /\ "cut" \notin use => \A i, j \in Asked : IsBusy(i) /\ Closes(i) /\ IsBusy(j) => j = i
  /\ "early" \notin use => \A i, j \in Asked : Opens(i) /\ IsBusy(j) => j = i
  /\ \A i \in Asked : reqs[i].st = "calling" => Closes(i)

\* Nobody works for a device that was freed or that its wrapper has forgotten.  The
\* collector frees what the wrapper has forgotten; I2C and ADC free in close().
FreedPart ==
  /\ "cut" \notin use /\ (~dev.struct \/ ~dev.binding) => Idle
  /\ kind \in Wrapped /\ ~dev.struct => ~dev.binding
  /\ kind \notin Wrapped =>
       /\ dev.binding
       /\ ~dev.struct => \E i \in Asked : reqs[i].st \in {"called", "sync"} /\ Closes(i)

\* A wrapper has forgotten, or is about to forget, a device that is not open.
ClosedPart ==
  /\ kind \in Wrapped /\ dev.fd = "open"
  /\ ~dev.binding \/ \E i \in Asked : reqs[i].st \in {"finished", "calling"} /\ Closes(i)
  => use \cap {"cut", "stuck"} # {}

\* UART: a close() that is under way has dropped the emitter and may have closed the port.
UartPart ==
  kind = "uart" /\ dev.binding =>
    /\ ~dev.emitter => CloseBusy
    /\ "overlap" \notin use /\ dev.fd \notin {"none", "open"} => CloseBusy

\* A close, or a transfer of SPI, that was called on an open device finds it open.
OpenPart ==
  kind \in {"spi", "uart"} /\ use \cap {"overlap", "unopened"} = {} =>
    \A i \in Asked :
      reqs[i].st \in {"queued", "running"} /\ reqs[i].op \in UsesDescriptor => dev.fd = "open"

\* The thread of a pin was started for an edge.
EdgePart == dev.thread # "none" \/ dev.edge => kind = "gpio" /\ "edge" \in use

\* Where the data of a request that nothing overlaps with is, until it is answered.
InPlace(i) ==
  LET r == reqs[i]
      seen == r.st \in {"running", "finished"} => r.saw = i
  IN  /\ kind = "spi" /\ r.op \in SpiTransfers =>
           /\ r.arg = i /\ dev.slot["data"] = i /\ seen
           /\ r.op = "transferArray" => i \in dev.live
      /\ kind = "uart" /\ r.op = "write" =>
           r.arg = i /\ dev.slot["data"] = i /\ seen /\ i \in dev.live
      /\ kind = "pwm" /\ r.op \in PwmSetters =>
           r.arg = i /\ dev.slot[r.op] = i /\ seen
      /\ kind = "pwm" /\ r.op = "open" => r.arg = 1 /\ dev.slot["setPeriod"] \in {0, 1}
      /\ kind = "i2c" /\ r.op \in {"read", "write"} => r.arg = dev.slot["data"]

DataPart == "overlap" \notin use => \A i \in Asked : IsBusy(i) => InPlace(i)

\* What is on the wire comes from calls that were made; a request that is to work comes after
\* all of them.
WirePart ==
  /\ \A n \in 1 .. Len(wire) : wire[n].req \in Asked
  /\ "overlap" \notin use =>
       \A i \in Asked, n \in 1 .. Len(wire) :
         reqs[i].st \in {"queued", "running"} => wire[n].req < i

DeviceInv ==
  /\ TypePart /\ Lists(queue, "queued") /\ Lists(finished, "finished") /\ AlonePart
  /\ FreedPart /\ ClosedPart /\ UartPart /\ OpenPart /\ EdgePart
  /\ DataPart /\ WirePart
  /\ FaultHasCause /\ OwnData /\ OnceInOrder /\ ExitCloses

-----------------------------------------------------------------------------
(* Facts about the requests.                                               *)

\* What a call that is made now does to the history.
LEMMA UsageFacts ==
    ASSUME NEW op
    PROVE  /\ "overlap" \notin Usage(op) => Idle
           /\ "cut" \in Usage(op) => "overlap" \in Usage(op)
           /\ "cut" \notin Usage(op) => ~CloseBusy /\ (op = "close" => Idle)
           /\ "early" \notin Usage(op) => \A i \in Asked : ~Opens(i)
           /\ "unopened" \notin Usage(op) => (op \in UsesDescriptor => dev.fd = "open")
           /\ (\E i \in Asked : reqs[i].st \in {"called", "sync"} /\ Closes(i))
                => "after" \in Usage(op)
<1>1. \A i : i \in Pending <=> i \in Asked /\ IsBusy(i)
  BY DEF Pending, InState, Asked, IsBusy
<1>2. \A i : i \in InState({"called", "sync"}) <=> i \in Asked /\ reqs[i].st \in {"called", "sync"}
  BY DEF InState, Asked
<1>3. Pending # {} <=> ~Idle
  BY <1>1 DEF Idle
<1>4. (\E i \in Pending : reqs[i].op = "close") <=> CloseBusy
  BY <1>1 DEF CloseBusy, Closes
<1>5. CloseBusy => ~Idle
  BY DEF CloseBusy, Idle
<1>6. (\E i \in InState({"queued", "running"}) : reqs[i].op = "open") <=> \E i \in Asked : Opens(i)
  BY DEF InState, Asked, Opens
<1> QED
  BY <1>2, <1>3, <1>4, <1>5, <1>6 DEF Usage, Closes

\* A request is added.
LEMMA Appended ==
    ASSUME reqs \in Seq(Entry), NEW e \in Entry, reqs' = Append(reqs, e),
           NEW n, n = Len(reqs) + 1
    PROVE  /\ n \in Nat /\ n > 0 /\ Len(reqs') = n /\ reqs' \in Seq(Entry) /\ reqs'[n] = e
           /\ n \notin Asked /\ n \in Asked'
           /\ \A j \in Asked : reqs'[j] = reqs[j] /\ j \in Asked' /\ j < n
           /\ \A j \in Asked' : j \in Asked \/ j = n
  BY AppendProperties DEF Asked

\* A request is changed.
LEMMA Updated ==
    ASSUME reqs \in Seq(Entry), NEW i \in Asked, NEW e \in Entry, reqs' = [reqs EXCEPT ![i] = e]
    PROVE  /\ Len(reqs') = Len(reqs) /\ Asked' = Asked /\ reqs' \in Seq(Entry) /\ reqs'[i] = e
           /\ \A j \in Asked : j # i => reqs'[j] = reqs[j]
<1>1. /\ reqs' \in Seq(Entry) /\ Len(reqs') = Len(reqs) /\ reqs'[i] = e
      /\ \A j \in Asked : j # i => reqs'[j] = reqs[j]
  BY ExceptSeq DEF Asked
<1> QED
  BY <1>1 DEF Asked


\* The requests of a queue stay as they are, ...
LEMMA ListStays ==
    ASSUME NEW q, NEW st, Lists(q, st),
           \A j \in Asked : reqs[j].st = st => j \in Asked' /\ reqs'[j].st = st
    PROVE  Lists(q, st)'
  BY DEF Lists

\* ... it takes another one ...
LEMMA ListGrows ==
    ASSUME NEW q, NEW st, Lists(q, st), NEW i \in Nat, i \in Asked => reqs[i].st # st,
           i \in Asked' /\ reqs'[i].st = st,
           \A j \in Asked : reqs[j].st = st => j \in Asked' /\ reqs'[j].st = st,
           NEW p, p = Append(q, i)
    PROVE  Lists(p, st)'
<1>1. /\ p \in Seq(Nat) /\ Len(p) = Len(q) + 1 /\ Len(q) \in Nat /\ p[Len(q) + 1] = i
      /\ \A n \in 1 .. Len(q) : p[n] = q[n]
  BY AppendProperties DEF Lists
<1>2. \A n \in 1 .. Len(p) : n = Len(q) + 1 \/ n \in 1 .. Len(q)
  BY <1>1
<1>3. \A n \in 1 .. Len(p) : p[n] \in Asked' /\ reqs'[p[n]].st = st
  BY <1>1, <1>2 DEF Lists
<1>4. \A n \in 1 .. Len(q) : p[n] # i
  BY <1>1 DEF Lists
<1>5. \A m, n \in 1 .. Len(p) : p[m] = p[n] => m = n
  BY <1>1, <1>2, <1>4 DEF Lists
<1> QED
  BY <1>1, <1>3, <1>5 DEF Lists

\* ... or gives its first one away.
LEMMA ListShrinks ==
    ASSUME NEW q, NEW st, Lists(q, st), q # <<>>, NEW i, i = Head(q), NEW p, p = Tail(q),
           \A j \in Asked : reqs[j].st = st /\ j # i => j \in Asked' /\ reqs'[j].st = st
    PROVE  Lists(p, st)'
<1>1. /\ p \in Seq(Nat) /\ Len(q) \in Nat /\ Len(q) > 0 /\ Len(p) = Len(q) - 1 /\ i = q[1]
      /\ \A n \in 1 .. Len(p) : p[n] = q[n + 1]
  BY HeadTailProperties, EmptySeq DEF Lists
<1>2. \A n \in 1 .. Len(p) : n + 1 \in 1 .. Len(q) /\ n + 1 # 1 /\ n \in Nat
  BY <1>1
<1>3. 1 \in 1 .. Len(q)
  BY <1>1
<1>4. \A n \in 1 .. Len(p) : p[n] \in Asked /\ reqs[p[n]].st = st /\ p[n] # i
  BY <1>1, <1>2, <1>3 DEF Lists
<1>5. \A m, n \in 1 .. Len(p) : p[m] = p[n] => m = n
  <2> TAKE m, n \in 1 .. Len(p)
  <2> HAVE p[m] = p[n]
  <2>1. m + 1 = n + 1
    BY <1>1, <1>2 DEF Lists
  <2> QED
    BY <1>2, <2>1
<1> QED
  BY <1>1, <1>4, <1>5 DEF Lists

\* The first one of a queue.
LEMMA ListHead ==
    ASSUME NEW q, NEW st, Lists(q, st), q # <<>>
    PROVE  Head(q) \in Asked /\ reqs[Head(q)].st = st
<1>1. Len(q) \in Nat /\ Len(q) > 0 /\ Head(q) = q[1]
  BY EmptySeq DEF Lists
<1>2. 1 \in 1 .. Len(q)
  BY <1>1
<1> QED
  BY <1>1, <1>2 DEF Lists

\* Whoever overlaps does harm, and so does who closes a device that others use.
LEMMA CutHarms ==
    ASSUME DeviceInv, "cut" \in use
    PROVE  use \cap Harmful # {}
<1>1. "overlap" \in use
  BY DEF DeviceInv, AlonePart
<1>2. "cut" \in Harmful \/ "overlap" \in Harmful
  BY DEF Harmful, DeviceInv, TypePart, DeviceKinds
<1> QED
  BY <1>1, <1>2

\* A device that somebody works for is there.
LEMMA BusyHolds ==
    ASSUME DeviceInv, NEW i \in Asked, IsBusy(i), ~dev.struct \/ ~dev.binding
    PROVE  use \cap Harmful # {} /\ "cut" \in use
<1>1. "cut" \in use
  BY DEF DeviceInv, FreedPart, Idle
<1> QED
  BY <1>1, CutHarms

-----------------------------------------------------------------------------
(* The steps that the peripherals share.                                   *)

\* Nothing but the history changes: input that comes late, or the end of the behaviour.
LEMMA UseKeeps ==
    ASSUME DeviceInv, UNCHANGED <<kind, dev, reqs, queue, finished, wire>>, use \subseteq use',
           "overlap" \notin use' => "cut" \notin use', exited' \in BOOLEAN,
           FaultHasCause', ExitCloses'
    PROVE  DeviceInv'
<1>1. TypePart' /\ Asked' = Asked
  BY DEF DeviceInv, TypePart, Asked
<1>2. Lists(queue, "queued")' /\ Lists(finished, "finished")'
  BY <1>1 DEF DeviceInv, Lists
<1>3. AlonePart'
  BY <1>1 DEF DeviceInv, AlonePart, IsBusy, Closes, Opens
<1>4. FreedPart' /\ EdgePart'
  BY <1>1 DEF DeviceInv, FreedPart, EdgePart, Idle, IsBusy, Closes
<1>5. ClosedPart'
  BY <1>1 DEF DeviceInv, ClosedPart, Closes
<1>6. UartPart' /\ OpenPart'
  BY <1>1 DEF DeviceInv, UartPart, OpenPart, CloseBusy, IsBusy, Closes
<1>7. DataPart'
  BY <1>1 DEF DeviceInv, DataPart, InPlace, IsBusy
<1>8. WirePart'
  BY <1>1 DEF DeviceInv, WirePart
<1>9. OwnData'
  BY DEF DeviceInv, OwnData
<1>10. OnceInOrder'
  BY DEF DeviceInv, OnceInOrder
<1> QED
  BY <1>1, <1>2, <1>3, <1>4, <1>5, <1>6, <1>7, <1>8, <1>9, <1>10 DEF DeviceInv

\* An undefined behaviour that a thread or the loop meets.
LEMMA BreaksKeeps ==
    ASSUME DeviceInv, Running, NEW f, Breaks(f), UNCHANGED <<kind, exited>>,
           use \cap Harmful # {} \/ (kind = "uart" /\ f = "race")
    PROVE  DeviceInv'
<1>1. UNCHANGED <<kind, dev, reqs, queue, finished, wire, use, exited>> /\ fault' = f
  BY DEF Breaks, Crash
<1>2. FaultHasCause'
  BY <1>1 DEF FaultHasCause, Harmful, LoopRace
<1>3. ExitCloses' /\ exited' \in BOOLEAN /\ ("overlap" \notin use' => "cut" \notin use')
  BY <1>1 DEF DeviceInv, ExitCloses, TypePart, AlonePart
<1> QED
  BY <1>1, <1>2, <1>3, UseKeeps

\* An undefined behaviour in a call that the program, or the handler of 'exit', makes.
LEMMA CrashKeeps ==
    ASSUME DeviceInv, Running, NEW f, Crash(f), NEW op, use' = use \cup Usage(op), UNCHANGED kind,
           use' \cap Harmful # {}, exited' \in BOOLEAN, ExitCloses'
    PROVE  DeviceInv'
<1>1. UNCHANGED <<kind, dev, reqs, queue, finished, wire>> /\ use \subseteq use'
  BY DEF Crash
<1>2. FaultHasCause'
  BY <1>1 DEF FaultHasCause, Harmful
<1>3. "overlap" \notin use' => "cut" \notin use'
  BY UsageFacts DEF DeviceInv, AlonePart
<1> QED
  BY <1>1, <1>2, <1>3, UseKeeps

\* An asynchronous call, with its data in place.
LEMMA SubmitKeeps ==
    ASSUME DeviceInv, Running, NEW op \in OpNames, op # "open", NEW arg \in Nat,
           NEW d \in DeviceState,
           Submit(op, arg, d), UNCHANGED <<kind, exited>>, dev.binding, dev.struct,
           d.binding = dev.binding, d.struct = dev.struct, d.fd = dev.fd, d.edge = dev.edge,
           d.thread = dev.thread, d.emitter = dev.emitter \/ op = "close",
           NEW n, n = Len(reqs) + 1, InPlace(n)'
    PROVE  DeviceInv'
<1> PICK e : e = NewRequest(op, arg, "queued")
  OBVIOUS
<1>1. /\ e \in Entry /\ e.op = op /\ e.st = "queued" /\ e.ok = FALSE /\ e.got = 0
  BY DEF NewRequest, Entry
<1>2. /\ dev' = d /\ reqs' = Append(reqs, e) /\ queue' = Append(queue, n)
      /\ use' = use \cup Usage(op) /\ UNCHANGED <<finished, wire, fault, kind, exited>>
  BY DEF Submit, New
<1>3. reqs \in Seq(Entry) /\ wire \in Seq([req : Nat, val : Nat]) /\ Len(reqs) \in Nat
  BY DEF DeviceInv, TypePart
<1>4. /\ n \in Nat /\ n > 0 /\ Len(reqs') = n /\ reqs' \in Seq(Entry) /\ reqs'[n] = e
      /\ n \notin Asked /\ n \in Asked'
      /\ \A j \in Asked : reqs'[j] = reqs[j] /\ j \in Asked' /\ j < n
      /\ \A j \in Asked' : j \in Asked \/ j = n
  BY <1>1, <1>2, <1>3, Appended
<1>5. /\ "overlap" \notin use' => "overlap" \notin use /\ Idle /\ "cut" \notin use'
      /\ "cut" \notin use' => "cut" \notin use /\ ~CloseBusy /\ (op = "close" => Idle)
      /\ "unopened" \notin use' => "unopened" \notin use /\ (op \in UsesDescriptor => dev.fd = "open")
      /\ "early" \notin use' => "early" \notin use /\ \A i \in Asked : ~Opens(i)
      /\ use \subseteq use'
  BY <1>2, UsageFacts DEF DeviceInv, AlonePart
<1>6. TypePart'
  BY <1>2, <1>4 DEF DeviceInv, TypePart
<1>7. Lists(queue, "queued")'
  <2> PICK q : q = queue
    OBVIOUS
  <2> PICK p : p = queue'
    OBVIOUS
  <2>1. Lists(q, "queued") /\ p = Append(q, n)
    BY <1>2 DEF DeviceInv
  <2>2. Lists(p, "queued")'
    BY <1>1, <1>4, <2>1, ListGrows
  <2> QED
    BY <2>2 DEF Lists
<1>8. Lists(finished, "finished")'
  <2> PICK q : q = finished
    OBVIOUS
  <2> PICK p : p = finished'
    OBVIOUS
  <2>1. Lists(q, "finished") /\ q = p
    BY <1>2 DEF DeviceInv
  <2>2. Lists(p, "finished")'
    BY <1>4, <2>1, ListStays
  <2> QED
    BY <2>2 DEF Lists
<1>9. AlonePart'
  <2>1. "overlap" \notin use' => \A i \in Asked' : IsBusy(i)' => i = n
    BY <1>4, <1>5 DEF Idle, IsBusy
  <2>2. ASSUME "cut" \notin use', NEW i \in Asked', NEW j \in Asked',
               IsBusy(i)', Closes(i)', IsBusy(j)'
        PROVE  j = i
    <3>1. i = n
      BY <1>4, <1>5, <2>2 DEF CloseBusy, IsBusy, Closes
    <3>2. op = "close"
      BY <1>1, <1>4, <2>2, <3>1 DEF Closes
    <3>3. Idle
      BY <1>5, <2>2, <3>2
    <3> QED
      BY <1>4, <2>2, <3>1, <3>3 DEF Idle, IsBusy
  <2>3. "early" \notin use' => \A i \in Asked' : ~Opens(i)'
    BY <1>1, <1>4, <1>5 DEF Opens
  <2>4. \A i \in Asked' : reqs'[i].st = "calling" => Closes(i)'
    BY <1>1, <1>4 DEF DeviceInv, AlonePart, Closes
  <2> QED
    BY <1>4, <1>5, <2>1, <2>2, <2>3, <2>4 DEF AlonePart
<1>10. FreedPart' /\ EdgePart'
  BY <1>2, <1>5 DEF DeviceInv, FreedPart, EdgePart
<1>11. ClosedPart'
  <2>1. d.binding
    OBVIOUS
  <2>2. ~\E i \in Asked' : /\ reqs'[i].st \in {"finished", "calling"}
                           /\ Closes(i)' /\ "cut" \notin use'
    BY <1>1, <1>4, <1>5 DEF CloseBusy, IsBusy, Closes
  <2> QED
    BY <1>2, <2>1, <2>2 DEF ClosedPart
<1>12. CloseBusy \/ op = "close" => CloseBusy'
  BY <1>1, <1>4 DEF CloseBusy, IsBusy, Closes
<1>13. UartPart'
  BY <1>2, <1>5, <1>12 DEF DeviceInv, UartPart
<1>14. OpenPart'
  <2> SUFFICES ASSUME "overlap" \notin use', "unopened" \notin use', NEW i \in Asked',
                      reqs'[i].st \in {"queued", "running"}, reqs'[i].op \in UsesDescriptor
               PROVE  dev'.fd = "open"
    BY DEF OpenPart
  <2>1. i = n
    BY <1>4, <1>5 DEF Idle, IsBusy
  <2>2. op \in UsesDescriptor
    BY <1>1, <1>4, <2>1
  <2> QED
    BY <1>2, <1>5, <2>2
<1>15. DataPart'
  BY <1>4, <1>5 DEF DataPart, Idle, IsBusy
<1>16. WirePart'
  <2>1. \A x \in 1 .. Len(wire) : wire[x].req \in Asked
    BY DEF DeviceInv, WirePart
  <2>2. ASSUME "overlap" \notin use', NEW i \in Asked', NEW x \in 1 .. Len(wire),
               reqs'[i].st \in {"queued", "running"}
        PROVE  wire[x].req < i
    BY <1>4, <1>5, <2>1, <2>2 DEF Idle, IsBusy
  <2> QED
    BY <1>2, <1>4, <2>1, <2>2 DEF WirePart
<1>17. FaultHasCause' /\ ExitCloses'
  BY <1>2, <1>5 DEF DeviceInv, FaultHasCause, ExitCloses, Running
<1>18. OwnData'
  <2> SUFFICES ASSUME kind = "gpio" \/ "overlap" \notin use'
               PROVE  /\ \A x \in 1 .. Len(wire) : wire[x].val = reqs'[wire[x].req].arg
                      /\ \A i \in Asked' : reqs'[i].got \in {0, i}
    BY <1>2 DEF OwnData, Asked
  <2>1. /\ \A x \in 1 .. Len(wire) : wire[x].val = reqs[wire[x].req].arg
        /\ \A i \in Asked : reqs[i].got \in {0, i}
    BY <1>5 DEF DeviceInv, OwnData, Asked
  <2>2. \A x \in 1 .. Len(wire) : wire[x].req \in Asked
    BY DEF DeviceInv, WirePart
  <2> QED
    BY <1>1, <1>4, <2>1, <2>2
<1>19. OnceInOrder'
  BY <1>2, <1>5 DEF DeviceInv, OnceInOrder
<1> QED
  BY <1>6, <1>7, <1>8, <1>9, <1>10, <1>11, <1>13, <1>14, <1>15, <1>16, <1>17, <1>18, <1>19
  DEF DeviceInv

\* What the wire has after a transfer.
LEMMA Sent ==
    ASSUME wire \in Seq([req : Nat, val : Nat]), NEW ok \in BOOLEAN, NEW i \in Nat, NEW v \in Nat,
           wire' = Transfer(ok, i, v)
    PROVE  /\ wire' \in Seq([req : Nat, val : Nat])
           /\ \A x \in 1 .. Len(wire') :
                \/ x \in 1 .. Len(wire) /\ wire'[x] = wire[x]
                \/ ok /\ x = Len(wire) + 1 /\ wire'[x].req = i /\ wire'[x].val = v
           /\ \A x \in 1 .. Len(wire) : x \in 1 .. Len(wire') /\ wire'[x] = wire[x]
<1>1. CASE ~ok
  BY <1>1 DEF Transfer
<1>2. CASE ok
  <2> PICK e : e = [req |-> i, val |-> v]
    OBVIOUS
  <2>1. e \in [req : Nat, val : Nat] /\ e.req = i /\ e.val = v /\ wire' = Append(wire, e)
    BY <1>2 DEF Transfer
  <2>2. /\ wire' \in Seq([req : Nat, val : Nat]) /\ Len(wire) \in Nat
        /\ Len(wire') = Len(wire) + 1 /\ wire'[Len(wire) + 1] = e
        /\ \A x \in 1 .. Len(wire) : wire'[x] = wire[x]
    BY <2>1, AppendProperties
  <2>3. \A x \in 1 .. Len(wire') : x = Len(wire) + 1 \/ x \in 1 .. Len(wire)
    BY <2>2
  <2>4. Len(wire) + 1 \in 1 .. Len(wire') /\ \A x \in 1 .. Len(wire) : x \in 1 .. Len(wire')
    BY <2>2
  <2> QED
    BY <1>2, <2>1, <2>2, <2>3, <2>4
<1> QED
  BY <1>1, <1>2

Ordered == \A n \in 2 .. Len(wire) : wire[n - 1].req < wire[n].req

\* A transfer of a later request goes to the end.
LEMMA OrderKept ==
    ASSUME wire \in Seq([req : Nat, val : Nat]), NEW ok \in BOOLEAN, NEW i \in Nat, NEW v \in Nat,
           wire' = Transfer(ok, i, v), Ordered, \A x \in 1 .. Len(wire) : wire[x].req < i
    PROVE  Ordered'
<1> SUFFICES ASSUME NEW x \in 2 .. Len(wire') PROVE wire'[x - 1].req < wire'[x].req
  BY DEF Ordered
<1>1. /\ wire' \in Seq([req : Nat, val : Nat])
      /\ \A m \in 1 .. Len(wire') :
           \/ m \in 1 .. Len(wire) /\ wire'[m] = wire[m]
           \/ ok /\ m = Len(wire) + 1 /\ wire'[m].req = i /\ wire'[m].val = v
  BY Sent
<1>2. x \in 1 .. Len(wire') /\ x - 1 \in 1 .. Len(wire') /\ x \in Nat /\ x >= 2
  BY <1>1
<1>3. x - 1 \in 1 .. Len(wire) /\ wire'[x - 1] = wire[x - 1]
  <2> PICK m : m = x - 1
    OBVIOUS
  <2>0. Len(wire) \in Nat
    OBVIOUS
  <2>1. x <= Len(wire) + 1
    <3>1. x \in 1 .. Len(wire) \/ x = Len(wire) + 1
      BY <1>1, <1>2
    <3> QED
      BY ONLY <2>0, <3>1
  <2>2. m # Len(wire) + 1
    BY <1>2, <2>0, <2>1
  <2>3. m \in 1 .. Len(wire')
    BY <1>2
  <2>4. m \in 1 .. Len(wire) /\ wire'[m] = wire[m]
    BY <1>1, <2>2, <2>3
  <2> QED
    BY <2>4
<1>4. CASE x \in 1 .. Len(wire) /\ wire'[x] = wire[x]
  <2>1. x \in 2 .. Len(wire)
    BY <1>2, <1>4
  <2> QED
    BY <1>3, <1>4, <2>1 DEF Ordered
<1>5. CASE wire'[x].req = i
  BY <1>3, <1>5
<1> QED
  BY <1>1, <1>2, <1>4, <1>5

\* A synchronous call: it may transfer, or close the device.
LEMMA SyncCallKeeps ==
    ASSUME DeviceInv, Running, NEW op \in OpNames, NEW arg \in Nat, NEW ok \in BOOLEAN,
           NEW d \in DeviceState, NEW w, Sync(op, arg, ok, d, w), UNCHANGED kind,
           NEW n, n = Len(reqs) + 1,
           w = wire \/ \E sent \in BOOLEAN : w = Transfer(sent, n, arg),
           op # "open", dev.binding, dev.struct, d.edge = dev.edge, d.thread = dev.thread,
           d.fd = dev.fd \/ op = "close", ~d.binding => op = "close",
           kind \in Wrapped => d.struct,
           kind \notin Wrapped => d.binding /\ (~d.struct => op = "close"),
           kind = "uart" => ~d.binding \/ (d.emitter = dev.emitter /\ d.fd = dev.fd),
           exited' = exited \/ (exited' = TRUE /\ op = "close")
    PROVE  DeviceInv'
<1> PICK e : e = [NewRequest(op, arg, "sync") EXCEPT !.ok = ok]
  OBVIOUS
<1>1. /\ e \in Entry /\ e.op = op /\ e.st = "sync" /\ e.ok = ok /\ e.got = 0 /\ e.arg = arg
  BY DEF NewRequest, Entry
<1>2. /\ dev' = d /\ reqs' = Append(reqs, e) /\ wire' = w
      /\ use' = use \cup Usage(op) \cup Stuck(op, d) /\ UNCHANGED <<queue, finished, fault, kind>>
  BY DEF Sync
<1>3. reqs \in Seq(Entry) /\ wire \in Seq([req : Nat, val : Nat]) /\ Len(reqs) \in Nat
  BY DEF DeviceInv, TypePart
<1>4. /\ n \in Nat /\ n > 0 /\ Len(reqs') = n /\ reqs' \in Seq(Entry) /\ reqs'[n] = e
      /\ n \notin Asked /\ n \in Asked'
      /\ \A j \in Asked : reqs'[j] = reqs[j] /\ j \in Asked' /\ j < n
      /\ \A j \in Asked' : j \in Asked \/ j = n
  BY <1>1, <1>2, <1>3, Appended
<1>5. /\ "overlap" \notin use' => "overlap" \notin use /\ Idle /\ "cut" \notin use'
      /\ "cut" \notin use' => "cut" \notin use /\ ~CloseBusy /\ (op = "close" => Idle)
      /\ op = "close" /\ d.fd = "open" => "stuck" \in use'
      /\ use \subseteq use'
  BY <1>2, UsageFacts DEF DeviceInv, AlonePart, Stuck
<1>6. Idle => Idle'
  BY <1>1, <1>4 DEF Idle, IsBusy
<1>7. PICK sent \in BOOLEAN : wire' = Transfer(sent, n, arg)
  BY <1>2 DEF Transfer
<1>8. /\ wire' \in Seq([req : Nat, val : Nat])
      /\ \A x \in 1 .. Len(wire') :
           \/ x \in 1 .. Len(wire) /\ wire'[x] = wire[x]
           \/ sent /\ x = Len(wire) + 1 /\ wire'[x].req = n /\ wire'[x].val = arg
  <2>1. n \in Nat /\ arg \in Nat /\ sent \in BOOLEAN /\ wire \in Seq([req : Nat, val : Nat])
    BY <1>3, <1>4
  <2>2. /\ wire' \in Seq([req : Nat, val : Nat])
        /\ \A x \in 1 .. Len(wire') :
             \/ x \in 1 .. Len(wire) /\ wire'[x] = wire[x]
             \/ sent /\ x = Len(wire) + 1 /\ wire'[x].req = n /\ wire'[x].val = arg
        /\ \A x \in 1 .. Len(wire) : x \in 1 .. Len(wire') /\ wire'[x] = wire[x]
    BY ONLY <1>7, <2>1, Sent, SMTT(60)
  <2> QED
    BY ONLY <2>2, Zenon
<1>9. \A x \in 1 .. Len(wire) : wire[x].req \in Asked
  BY DEF DeviceInv, WirePart
<1>10. TypePart'
  BY <1>2, <1>4, <1>8 DEF DeviceInv, TypePart
<1>11. Lists(queue, "queued")'
  <2> PICK q : q = queue
    OBVIOUS
  <2> PICK p : p = queue'
    OBVIOUS
  <2>1. Lists(q, "queued") /\ p = q
    BY <1>2 DEF DeviceInv
  <2>2. Lists(p, "queued")'
    BY <1>4, <2>1, ListStays
  <2> QED
    BY <2>2 DEF Lists
<1>12. Lists(finished, "finished")'
  <2> PICK q : q = finished
    OBVIOUS
  <2> PICK p : p = finished'
    OBVIOUS
  <2>1. Lists(q, "finished") /\ q = p
    BY <1>2 DEF DeviceInv
  <2>2. Lists(p, "finished")'
    BY <1>4, <2>1, ListStays
  <2> QED
    BY <2>2 DEF Lists
<1>13. AlonePart'
  <2>1. "overlap" \notin use' => Idle' /\ "cut" \notin use'
    BY <1>5, <1>6
  <2>2. ASSUME "cut" \notin use', NEW i \in Asked', IsBusy(i)', Closes(i)'
        PROVE  FALSE
    <3>1. i \in Asked /\ reqs'[i] = reqs[i]
      BY <1>1, <1>4, <2>2 DEF IsBusy
    <3> QED
      BY <1>5, <2>2, <3>1 DEF CloseBusy, IsBusy, Closes
  <2>3. "early" \notin use' => \A i \in Asked' : ~Opens(i)'
    <3>1. "early" \notin use' => \A i \in Asked : ~Opens(i)
      BY <1>2, UsageFacts
    <3> QED
      BY <1>1, <1>4, <3>1 DEF Opens
  <2>4. \A i \in Asked' : reqs'[i].st = "calling" => Closes(i)'
    BY <1>1, <1>4 DEF DeviceInv, AlonePart, Closes
  <2> QED
    BY <2>1, <2>2, <2>3, <2>4 DEF AlonePart, Idle
<1>14. FreedPart'
  <2>1. "cut" \notin use' /\ (~d.struct \/ ~d.binding) => Idle'
    BY <1>5, <1>6
  <2>2. op = "close" => \E i \in Asked' : reqs'[i].st \in {"called", "sync"} /\ Closes(i)'
    BY <1>1, <1>4, Zenon DEF Closes
  <2> QED
    BY <1>2, <2>1, <2>2 DEF FreedPart
<1>15. EdgePart'
  BY <1>2, <1>5 DEF DeviceInv, EdgePart
<1>16. ClosedPart'
  <2>1. "cut" \notin use' =>
          ~\E i \in Asked' : reqs'[i].st \in {"finished", "calling"} /\ Closes(i)'
    <3> SUFFICES ASSUME "cut" \notin use', NEW i \in Asked',
                        reqs'[i].st \in {"finished", "calling"}, Closes(i)'
                 PROVE  FALSE
      OBVIOUS
    <3>1. i \in Asked /\ reqs'[i] = reqs[i]
      BY <1>1, <1>4
    <3>2. IsBusy(i) /\ Closes(i)
      BY <3>1 DEF IsBusy, Closes
    <3> QED
      BY <1>5, <3>1, <3>2 DEF CloseBusy
  <2> QED
    BY <1>2, <1>5, <2>1 DEF ClosedPart
<1>17. UartPart'
  <2>1. CloseBusy => CloseBusy'
    BY <1>4 DEF CloseBusy, IsBusy, Closes
  <2> QED
    BY <1>2, <1>5, <2>1 DEF DeviceInv, UartPart
<1>18. OpenPart' /\ DataPart'
  BY <1>5, <1>6 DEF OpenPart, DataPart, Idle, IsBusy
<1>19. WirePart'
  <2>1. \A x \in 1 .. Len(wire') : wire'[x].req \in Asked'
    BY <1>4, <1>8, <1>9
  <2>2. "overlap" \notin use' => \A i \in Asked' : reqs'[i].st \notin {"queued", "running"}
    BY <1>5, <1>6 DEF Idle, IsBusy
  <2> QED
    BY <2>1, <2>2 DEF WirePart
<1>20. FaultHasCause' /\ ExitCloses'
  BY <1>2, <1>5 DEF FaultHasCause, ExitCloses, Running
<1>21. OwnData'
  <2> SUFFICES ASSUME kind = "gpio" \/ "overlap" \notin use'
               PROVE  /\ \A x \in 1 .. Len(wire') : wire'[x].val = reqs'[wire'[x].req].arg
                      /\ \A i \in Asked' : reqs'[i].got \in {0, i}
    BY <1>2 DEF OwnData, Asked
  <2>1. /\ \A x \in 1 .. Len(wire) : wire[x].val = reqs[wire[x].req].arg
        /\ \A i \in Asked : reqs[i].got \in {0, i}
    BY <1>5 DEF DeviceInv, OwnData, Asked
  <2>2. \A x \in 1 .. Len(wire') : wire'[x].val = reqs'[wire'[x].req].arg
    <3> TAKE x \in 1 .. Len(wire')
    <3>1. CASE x \in 1 .. Len(wire) /\ wire'[x] = wire[x]
      BY <1>4, <1>9, <2>1, <3>1
    <3>2. CASE wire'[x].req = n /\ wire'[x].val = arg
      BY <1>1, <1>4, <3>2
    <3> QED
      BY <1>8, <3>1, <3>2
  <2> QED
    BY <1>1, <1>4, <2>1, <2>2
<1>22. OnceInOrder'
  <2>1. "overlap" \notin use' => Ordered
    BY <1>5 DEF DeviceInv, OnceInOrder, Ordered
  <2>2. \A x \in 1 .. Len(wire) : wire[x].req < n
    BY <1>4, <1>9
  <2>3. "overlap" \notin use' => Ordered'
    BY <1>3, <1>4, <1>7, <2>1, <2>2, OrderKept
  <2> QED
    BY <2>3 DEF OnceInOrder, Ordered
<1> QED
  BY <1>10, <1>11, <1>12, <1>13, <1>14, <1>15, <1>16, <1>17, <1>18, <1>19, <1>20, <1>21, <1>22
  DEF DeviceInv

\* A thread takes a request, and with it the data that the struct has for it.
LEMMA StartKeeps ==
    ASSUME DeviceInv, NEW i, NEW saw \in Nat, WorkerStart(i, saw), UNCHANGED <<kind, exited>>,
           "overlap" \notin use /\ dev.struct => InPlace(i)'
    PROVE  DeviceInv'
<1>1. i \in Asked /\ reqs[i].st = "queued" /\ Running /\ queue # <<>> /\ i = Head(queue)
  <2> PICK q : q = queue
    OBVIOUS
  <2>1. Lists(q, "queued") /\ q # <<>> /\ i = Head(q) /\ Running
    BY DEF WorkerStart, DeviceInv
  <2> QED
    BY <2>1, ListHead
<1>2. IsBusy(i)
  BY <1>1 DEF IsBusy
<1>3. CASE ~dev.struct /\ Breaks("freed")
  BY <1>1, <1>2, <1>3, BusyHolds, BreaksKeeps
<1>4. CASE ~(~dev.struct /\ Breaks("freed"))
  <2>1. /\ dev.struct /\ queue' = Tail(queue)
        /\ reqs' = [reqs EXCEPT ![i].st = "running", ![i].saw = saw]
        /\ UNCHANGED <<dev, finished, wire, use, fault, kind, exited>>
    BY <1>4 DEF WorkerStart
  <2>2. reqs \in Seq(Entry) /\ reqs[i] \in Entry
    BY <1>1 DEF DeviceInv, TypePart, Asked
  <2> PICK e : e = [reqs[i] EXCEPT !.st = "running", !.saw = saw]
    OBVIOUS
  <2>3. /\ e \in Entry /\ e.op = reqs[i].op /\ e.arg = reqs[i].arg /\ e.st = "running"
        /\ e.ok = reqs[i].ok /\ e.got = reqs[i].got
    BY <2>2 DEF Entry
  <2>4. reqs' = [reqs EXCEPT ![i] = e]
    BY <1>1, <2>1, <2>2 DEF Asked
  <2>5. /\ Asked' = Asked /\ reqs' \in Seq(Entry) /\ reqs'[i] = e
        /\ \A j \in Asked : j # i => reqs'[j] = reqs[j]
        /\ Len(reqs') = Len(reqs)
    BY <1>1, <2>2, <2>3, <2>4, Updated
  <2>6. \A j \in Asked : /\ IsBusy(j)' <=> IsBusy(j)
                         /\ Closes(j)' <=> Closes(j)
                         /\ reqs'[j].st \in {"queued", "running"} <=> reqs[j].st \in {"queued", "running"}
                         /\ j # i \/ reqs'[j].st \notin {"finished", "calling", "called", "sync"}
                         /\ j # i \/ reqs[j].st \notin {"finished", "calling", "called", "sync"}
    <3> TAKE j \in Asked
    <3>1. CASE j = i
      BY <1>1, <2>3, <2>5, <3>1 DEF IsBusy, Closes
    <3>2. CASE j # i
      BY <2>5, <3>2 DEF IsBusy, Closes
    <3> QED
      BY <3>1, <3>2
  <2>7. \A j \in Asked : /\ reqs'[j].arg = reqs[j].arg /\ reqs'[j].got = reqs[j].got
                         /\ reqs'[j].op = reqs[j].op /\ reqs'[j].ok = reqs[j].ok
    BY <2>3, <2>5
  <2>8. TypePart'
    BY <2>1, <2>5 DEF DeviceInv, TypePart
  <2>9. Lists(queue, "queued")'
    <3> PICK q : q = queue
      OBVIOUS
    <3> PICK p : p = queue'
      OBVIOUS
    <3>1. Lists(q, "queued") /\ q # <<>> /\ i = Head(q) /\ p = Tail(q)
      BY <1>1, <2>1 DEF DeviceInv
    <3>2. \A j \in Asked : reqs[j].st = "queued" /\ j # i => j \in Asked' /\ reqs'[j].st = "queued"
      BY <2>5
    <3>3. Lists(p, "queued")'
      BY <3>1, <3>2, ListShrinks
    <3> QED
      BY <3>3 DEF Lists
  <2>10. Lists(finished, "finished")'
    <3> PICK q : q = finished
      OBVIOUS
    <3> PICK p : p = finished'
      OBVIOUS
    <3>1. Lists(q, "finished") /\ q = p
      BY <2>1 DEF DeviceInv
    <3>2. Lists(p, "finished")'
      BY <1>1, <2>5, <3>1, ListStays
    <3> QED
      BY <3>2 DEF Lists
  <2>11. AlonePart'
    <3>1. \A j \in Asked : Opens(j)' <=> Opens(j)
      BY <2>6, <2>7 DEF Opens
    <3>2. \A j \in Asked : reqs'[j].st = "calling" => reqs[j].st = "calling"
      BY <2>5, <2>6
    <3> QED
      BY <2>1, <2>5, <2>6, <3>1, <3>2 DEF DeviceInv, AlonePart
  <2>12. FreedPart'
    <3>1. (\E j \in Asked : reqs[j].st \in {"called", "sync"} /\ Closes(j))
            => \E j \in Asked' : reqs'[j].st \in {"called", "sync"} /\ Closes(j)'
      BY <1>1, <2>5, <2>6
    <3>2. Idle => Idle'
      BY <1>1, <1>2 DEF Idle
    <3> QED
      BY <2>1, <3>1, <3>2 DEF DeviceInv, FreedPart
  <2>13. ClosedPart'
    <3>1. (\E j \in Asked' : reqs'[j].st \in {"finished", "calling"} /\ Closes(j)')
            => \E j \in Asked : reqs[j].st \in {"finished", "calling"} /\ Closes(j)
      BY <2>5, <2>6
    <3> QED
      BY <2>1, <3>1 DEF DeviceInv, ClosedPart
  <2>14. UartPart'
    <3>1. CloseBusy => CloseBusy'
      BY <2>5, <2>6 DEF CloseBusy
    <3> QED
      BY <2>1, <3>1 DEF DeviceInv, UartPart
  <2>15. OpenPart' /\ EdgePart'
    BY <2>1, <2>5, <2>6, <2>7 DEF DeviceInv, OpenPart, EdgePart
  <2>16. DataPart'
    <3>1. ASSUME "overlap" \notin use', NEW j \in Asked', IsBusy(j)'
          PROVE  j = i
      BY <1>1, <1>2, <2>1, <2>5, <2>6, <3>1 DEF DeviceInv, AlonePart
    <3> QED
      BY <2>1, <3>1 DEF DataPart
  <2>17. WirePart'
    BY <2>1, <2>5, <2>6 DEF DeviceInv, WirePart
  <2>18. FaultHasCause' /\ ExitCloses'
    BY <1>1, <2>1 DEF FaultHasCause, ExitCloses, Running
  <2>19. OwnData'
    <3>1. \A x \in 1 .. Len(wire) : wire[x].req \in Asked
      BY DEF DeviceInv, WirePart
    <3> QED
      BY <2>1, <2>5, <2>7, <3>1 DEF DeviceInv, OwnData, Asked
  <2>20. OnceInOrder'
    BY <2>1 DEF DeviceInv, OnceInOrder
  <2> QED
    BY <2>8, <2>9, <2>10, <2>11, <2>12, <2>13, <2>14, <2>15, <2>16, <2>17, <2>18, <2>19, <2>20
    DEF DeviceInv
<1> QED
  BY <1>3, <1>4

\* A worker has done its work.
LEMMA EndKeeps ==
    ASSUME DeviceInv, Running, NEW i \in Asked, reqs[i].st = "running", NEW ok \in BOOLEAN,
           NEW d \in DeviceState, NEW w, WorkerEnd(i, ok, d, w), UNCHANGED <<kind, exited>>,
           d.binding = dev.binding, d.struct = dev.struct, d.emitter = dev.emitter,
           d.edge = dev.edge, d.slot = dev.slot, d.live = dev.live,
           d.thread # "none" => dev.thread # "none" \/ dev.edge,
           kind = "uart" => d.fd \in {dev.fd, "open"} \/ Closes(i),
           NEW sent \in BOOLEAN, NEW v \in Nat, w = Transfer(sent, i, v),
           kind = "gpio" \/ "overlap" \notin use => v = reqs[i].arg \/ ~sent
    PROVE  DeviceInv'
<1>1. IsBusy(i)
  BY DEF IsBusy
<1>2. CASE ~dev.struct /\ Breaks("freed")
  BY <1>1, <1>2, BusyHolds, BreaksKeeps
<1>3. CASE ~(~dev.struct /\ Breaks("freed"))
  <2>1. /\ reqs' = [reqs EXCEPT ![i].st = "finished", ![i].ok = ok]
        /\ finished' = Append(finished, i) /\ dev' = d /\ wire' = w
        /\ use' = use \cup Stuck(reqs[i].op, d) /\ UNCHANGED <<queue, fault, kind, exited>>
    BY <1>3 DEF WorkerEnd
  <2>2. reqs \in Seq(Entry) /\ reqs[i] \in Entry /\ wire \in Seq([req : Nat, val : Nat]) /\ i \in Nat
    BY DEF DeviceInv, TypePart, Asked
  <2> PICK e : e = [reqs[i] EXCEPT !.st = "finished", !.ok = ok]
    OBVIOUS
  <2>3. /\ e \in Entry /\ e.op = reqs[i].op /\ e.arg = reqs[i].arg /\ e.st = "finished"
        /\ e.ok = ok /\ e.got = reqs[i].got /\ e.saw = reqs[i].saw
    BY <2>2 DEF Entry
  <2>4. reqs' = [reqs EXCEPT ![i] = e]
    BY <2>1, <2>2 DEF Asked
  <2>5. /\ Asked' = Asked /\ reqs' \in Seq(Entry) /\ reqs'[i] = e
        /\ \A j \in Asked : j # i => reqs'[j] = reqs[j]
        /\ Len(reqs') = Len(reqs)
    BY <2>2, <2>3, <2>4, Updated
  <2>6. \A j \in Asked : /\ IsBusy(j)' <=> IsBusy(j)
                         /\ Closes(j)' <=> Closes(j)
                         /\ Opens(j)' => Opens(j)
                         /\ reqs'[j].st = "calling" => reqs[j].st = "calling"
    <3> TAKE j \in Asked
    <3>1. CASE j = i
      BY <2>3, <2>5, <3>1 DEF IsBusy, Closes, Opens
    <3>2. CASE j # i
      BY <2>5, <3>2 DEF IsBusy, Closes, Opens
    <3> QED
      BY <3>1, <3>2
  <2>7. \A j \in Asked : reqs'[j].arg = reqs[j].arg /\ reqs'[j].got = reqs[j].got
    BY <2>3, <2>5
  <2>8. /\ use \subseteq use'
        /\ "overlap" \in use' => "overlap" \in use
        /\ "cut" \in use' => "cut" \in use
        /\ "early" \in use' => "early" \in use
        /\ Closes(i) /\ d.fd = "open" => "stuck" \in use'
    BY <2>1 DEF Stuck, Closes
  <2>9. /\ wire' \in Seq([req : Nat, val : Nat])
        /\ \A x \in 1 .. Len(wire') :
             \/ x \in 1 .. Len(wire) /\ wire'[x] = wire[x]
             \/ sent /\ x = Len(wire) + 1 /\ wire'[x].req = i /\ wire'[x].val = v
    <3>1. wire' = Transfer(sent, i, v)
      BY <2>1
    <3>2. wire \in Seq([req : Nat, val : Nat]) /\ sent \in BOOLEAN /\ i \in Nat /\ v \in Nat
      BY <2>2
    <3>3. /\ wire' \in Seq([req : Nat, val : Nat])
          /\ \A x \in 1 .. Len(wire') :
               \/ x \in 1 .. Len(wire) /\ wire'[x] = wire[x]
               \/ sent /\ x = Len(wire) + 1 /\ wire'[x].req = i /\ wire'[x].val = v
          /\ \A x \in 1 .. Len(wire) : x \in 1 .. Len(wire') /\ wire'[x] = wire[x]
      BY ONLY <3>1, <3>2, Sent, SMTT(60)
    <3> QED
      BY ONLY <3>3, Zenon
  <2>10. \A x \in 1 .. Len(wire) : wire[x].req \in Asked
    BY DEF DeviceInv, WirePart
  <2>11. \A j \in Asked : "overlap" \notin use /\ IsBusy(j) => j = i
    BY <1>1 DEF DeviceInv, AlonePart
  <2>12. \A j \in Asked : "cut" \notin use /\ IsBusy(j) /\ Closes(j) => j = i
    BY <1>1 DEF DeviceInv, AlonePart
  <2>13. "cut" \notin use => dev.struct /\ dev.binding
    BY <1>1 DEF DeviceInv, FreedPart, Idle
  <2>14. TypePart'
    BY <2>1, <2>5, <2>9 DEF DeviceInv, TypePart
  <2>15. Lists(queue, "queued")'
    <3> PICK q : q = queue
      OBVIOUS
    <3> PICK p : p = queue'
      OBVIOUS
    <3>1. Lists(q, "queued") /\ q = p
      BY <2>1 DEF DeviceInv
    <3>2. Lists(p, "queued")'
      BY <2>5, <3>1, ListStays
    <3> QED
      BY <3>2 DEF Lists
  <2>16. Lists(finished, "finished")'
    <3> PICK q : q = finished
      OBVIOUS
    <3> PICK p : p = finished'
      OBVIOUS
    <3>1. Lists(q, "finished") /\ p = Append(q, i)
      BY <2>1 DEF DeviceInv
    <3>2. \A j \in Asked : reqs[j].st = "finished" => j \in Asked' /\ reqs'[j].st = "finished"
      BY <2>5
    <3>3. i \in Asked' /\ reqs'[i].st = "finished" /\ reqs[i].st # "finished"
      BY <2>3, <2>5
    <3>4. Lists(p, "finished")'
      BY <2>2, <3>1, <3>2, <3>3, ListGrows
    <3> QED
      BY <3>4 DEF Lists
  <2>17. AlonePart'
    BY <2>5, <2>6, <2>8 DEF DeviceInv, AlonePart
  <2>18. FreedPart'
    <3>1. (\E j \in Asked : reqs[j].st \in {"called", "sync"} /\ Closes(j))
            => \E j \in Asked' : reqs'[j].st \in {"called", "sync"} /\ Closes(j)'
      BY <2>5, <2>6
    <3> QED
      BY <2>1, <2>8, <2>13, <3>1 DEF DeviceInv, FreedPart
  <2>19. ClosedPart'
    <3> SUFFICES ASSUME d.fd = "open", "cut" \notin use,
                        ~dev.binding \/ \E j \in Asked : /\ reqs'[j].st \in {"finished", "calling"}
                                                        /\ Closes(j)
                 PROVE  "stuck" \in use'
      BY <2>1, <2>5, <2>6, <2>8 DEF ClosedPart
    <3>1. PICK j \in Asked : reqs'[j].st \in {"finished", "calling"} /\ Closes(j)
      BY <2>13
    <3>2. j = i
      BY <2>5, <2>12, <3>1 DEF IsBusy
    <3> QED
      BY <2>8, <3>1, <3>2
  <2>20. UartPart'
    <3>1. CloseBusy <=> CloseBusy'
      BY <2>5, <2>6 DEF CloseBusy
    <3>2. Closes(i) => CloseBusy
      BY <1>1 DEF CloseBusy
    <3> QED
      BY <2>1, <2>8, <3>1, <3>2 DEF DeviceInv, UartPart
  <2>21. ASSUME "overlap" \notin use', NEW j \in Asked', reqs'[j].st \in {"queued", "running"}
         PROVE  FALSE
    BY <2>3, <2>5, <2>8, <2>11, <2>21 DEF IsBusy
  <2>22. OpenPart' /\ EdgePart'
    BY <2>1, <2>8, <2>21 DEF DeviceInv, OpenPart, EdgePart
  <2>23. DataPart'
    <3> SUFFICES ASSUME "overlap" \notin use PROVE InPlace(i)'
      BY <2>5, <2>6, <2>8, <2>11 DEF DataPart
    <3>1. InPlace(i)
      BY <1>1 DEF DeviceInv, DataPart
    <3> QED
      BY <2>1, <2>3, <2>5, <3>1 DEF InPlace
  <2>24. WirePart'
    <3>1. \A x \in 1 .. Len(wire') : wire'[x].req \in Asked'
      BY <2>5, <2>9, <2>10
    <3> QED
      BY <2>21, <3>1 DEF WirePart
  <2>25. FaultHasCause' /\ ExitCloses'
    BY <2>1 DEF FaultHasCause, ExitCloses, Running
  <2>26. OwnData'
    <3> SUFFICES ASSUME kind = "gpio" \/ "overlap" \notin use
                 PROVE  /\ \A x \in 1 .. Len(wire') : wire'[x].val = reqs'[wire'[x].req].arg
                        /\ \A j \in Asked' : reqs'[j].got \in {0, j}
      BY <2>1, <2>8 DEF OwnData, Asked
    <3>1. /\ \A x \in 1 .. Len(wire) : wire[x].val = reqs[wire[x].req].arg
          /\ \A j \in Asked : reqs[j].got \in {0, j}
      BY DEF DeviceInv, OwnData, Asked
    <3>2. \A x \in 1 .. Len(wire') : wire'[x].val = reqs'[wire'[x].req].arg
      <4> TAKE x \in 1 .. Len(wire')
      <4>1. CASE x \in 1 .. Len(wire) /\ wire'[x] = wire[x]
        BY <2>7, <2>10, <3>1, <4>1
      <4>2. CASE sent /\ wire'[x].req = i /\ wire'[x].val = v
        BY <2>7, <4>2
      <4> QED
        BY <2>9, <4>1, <4>2
    <3> QED
      BY <2>5, <2>7, <3>1, <3>2
  <2>27. OnceInOrder'
    <3>1. "overlap" \notin use => Ordered /\ \A x \in 1 .. Len(wire) : wire[x].req < i
      BY DEF DeviceInv, OnceInOrder, Ordered, WirePart
    <3>2. "overlap" \notin use' => Ordered'
      BY <2>1, <2>2, <2>8, <3>1, OrderKept
    <3> QED
      BY <3>2 DEF OnceInOrder, Ordered
  <2> QED
    BY <2>14, <2>15, <2>16, <2>17, <2>18, <2>19, <2>20, <2>22, <2>23, <2>24, <2>25, <2>26, <2>27
    DEF DeviceInv
<1> QED
  BY <1>2, <1>3

\* A request is answered: it is under way no longer.
LEMMA DoneKeeps ==
    ASSUME DeviceInv, Running, NEW i \in Asked, reqs[i].st \in {"finished", "calling"},
           NEW st \in {"called", "threw"}, NEW got \in Nat, NEW d \in DeviceState,
           reqs' = [reqs EXCEPT ![i].st = st, ![i].got = got], dev' = d,
           UNCHANGED <<queue, wire, use, fault, kind, exited>>, Lists(finished, "finished")',
           kind = "gpio" \/ "overlap" \notin use => got \in {0, i},
           d.fd = dev.fd, d.edge = dev.edge, d.thread = dev.thread, d.emitter = dev.emitter,
           d.struct = dev.struct \/ (kind \notin Wrapped /\ Closes(i) /\ st = "called"),
           d.binding = dev.binding \/ (kind \in Wrapped /\ Closes(i) /\ ~d.binding),
           kind = "uart" /\ Closes(i) => ~d.binding
    PROVE  DeviceInv'
<1>2. IsBusy(i)
  BY DEF IsBusy
<1>4. reqs \in Seq(Entry) /\ reqs[i] \in Entry
  BY DEF DeviceInv, TypePart, Asked
<1> PICK e : e = [reqs[i] EXCEPT !.st = st, !.got = got]
  OBVIOUS
<1>5. /\ e \in Entry /\ e.op = reqs[i].op /\ e.arg = reqs[i].arg /\ e.st = st
      /\ e.ok = reqs[i].ok /\ e.got = got
  BY <1>4 DEF Entry
<1>6. reqs' = [reqs EXCEPT ![i] = e]
  BY <1>4 DEF Asked
<1>7. /\ Asked' = Asked /\ reqs' \in Seq(Entry) /\ reqs'[i] = e
      /\ \A j \in Asked : j # i => reqs'[j] = reqs[j]
      /\ Len(reqs') = Len(reqs)
  BY <1>4, <1>5, <1>6, Updated
<1>9. \A j \in Asked : /\ IsBusy(j)' <=> IsBusy(j) /\ j # i
                       /\ Closes(j)' <=> Closes(j)
                       /\ Opens(j)' => Opens(j)
                       /\ reqs'[j].st \in {"finished", "calling"} => reqs[j].st \in {"finished", "calling"}
                       /\ reqs'[j].st = "calling" => reqs[j].st = "calling"
  <2> TAKE j \in Asked
  <2>1. CASE j = i
    BY <1>5, <1>7, <2>1 DEF IsBusy, Closes, Opens
  <2>2. CASE j # i
    BY <1>7, <2>2 DEF IsBusy, Closes, Opens
  <2> QED
    BY <2>1, <2>2
<1>10. "cut" \notin use => dev.struct /\ dev.binding
  BY <1>2 DEF DeviceInv, FreedPart, Idle
<1>11. "overlap" \notin use => Idle'
  BY <1>2, <1>7, <1>9 DEF DeviceInv, AlonePart, Idle
<1>12. TypePart'
  BY <1>7 DEF DeviceInv, TypePart
<1>13. Lists(queue, "queued")'
  <2> PICK q : q = queue
    OBVIOUS
  <2> PICK p : p = queue'
    OBVIOUS
  <2>1. Lists(q, "queued") /\ q = p
    BY DEF DeviceInv
  <2>2. \A j \in Asked : reqs[j].st = "queued" => j \in Asked' /\ reqs'[j].st = "queued"
    BY <1>7
  <2>3. Lists(p, "queued")'
    BY ONLY <2>1, <2>2, ListStays
  <2> QED
    BY ONLY <2>3, p = queue' DEF Lists
<1>15. AlonePart'
  BY <1>7, <1>9 DEF DeviceInv, AlonePart
<1>16. FreedPart'
  <2>1. ASSUME "cut" \notin use, Closes(i) PROVE Idle'
    BY <1>2, <1>7, <1>9, <2>1 DEF DeviceInv, AlonePart, Idle
  <2>2. "cut" \notin use /\ (~d.struct \/ ~d.binding) => Idle'
    BY <1>10, <2>1
  <2>3. (\E j \in Asked : reqs[j].st \in {"called", "sync"} /\ Closes(j))
          => \E j \in Asked' : reqs'[j].st \in {"called", "sync"} /\ Closes(j)'
    BY <1>7, <1>9
  <2>4. Closes(i) /\ st = "called"
          => \E j \in Asked' : reqs'[j].st \in {"called", "sync"} /\ Closes(j)'
    BY <1>5, <1>7, <1>9
  <2>5. kind \in Wrapped /\ ~d.struct => ~d.binding
    BY DEF DeviceInv, FreedPart
  <2>6. kind \notin Wrapped =>
          /\ d.binding
          /\ ~d.struct => \E j \in Asked' : reqs'[j].st \in {"called", "sync"} /\ Closes(j)'
    BY <2>3, <2>4 DEF DeviceInv, FreedPart
  <2> QED
    BY <2>2, <2>5, <2>6 DEF FreedPart
<1>17. ClosedPart'
  <2>1. (\E j \in Asked' : reqs'[j].st \in {"finished", "calling"} /\ Closes(j)')
          => \E j \in Asked : reqs[j].st \in {"finished", "calling"} /\ Closes(j)
    BY <1>7, <1>9
  <2>2. Closes(i) => \E j \in Asked : reqs[j].st \in {"finished", "calling"} /\ Closes(j)
    OBVIOUS
  <2> QED
    BY <2>1, <2>2 DEF DeviceInv, ClosedPart
<1>18. UartPart'
  <2>1. ~Closes(i) /\ CloseBusy => CloseBusy'
    BY <1>7, <1>9 DEF CloseBusy
  <2> QED
    BY <2>1 DEF DeviceInv, UartPart
<1>19. OpenPart' /\ EdgePart' /\ DataPart'
  BY <1>11 DEF DeviceInv, OpenPart, EdgePart, DataPart, Idle, IsBusy
<1>20. WirePart'
  <2>3. \A x \in 1 .. Len(wire') : wire'[x].req \in Asked'
    BY <1>7 DEF DeviceInv, WirePart
  <2>4. "overlap" \notin use' => \A j \in Asked' : reqs'[j].st \notin {"queued", "running"}
    BY <1>11 DEF Idle, IsBusy
  <2> QED
    BY <2>3, <2>4 DEF WirePart
<1>21. FaultHasCause' /\ ExitCloses'
  BY DEF FaultHasCause, ExitCloses, Running
<1>22. OwnData'
  <2>1. \A x \in 1 .. Len(wire) : wire[x].req \in Asked
    BY DEF DeviceInv, WirePart
  <2>2. \A j \in Asked : reqs'[j].arg = reqs[j].arg
    BY <1>5, <1>7
  <2>3. ASSUME kind = "gpio" \/ "overlap" \notin use, NEW j \in Asked
        PROVE  reqs'[j].got \in {0, j}
    BY <1>5, <1>7, <2>3 DEF DeviceInv, OwnData, Asked
  <2> QED
    BY <1>7, <2>1, <2>2, <2>3 DEF DeviceInv, OwnData, Asked
<1>23. OnceInOrder'
  BY DEF DeviceInv, OnceInOrder
<1> QED
  BY <1>12, <1>13, <1>15, <1>16, <1>17, <1>18, <1>19, <1>20, <1>21, <1>22, <1>23
  DEF DeviceInv

\* The first finished request leaves the list of the event loop.
LEMMA Reported ==
    ASSUME DeviceInv, NEW i, NEW st, st # "finished", NEW got, NEW d, AfterWork(i, st, got, d)
    PROVE  /\ i \in Asked /\ reqs[i].st = "finished" /\ Running /\ Lists(finished, "finished")'
           /\ dev' = d /\ reqs' = [reqs EXCEPT ![i].st = st, ![i].got = got]
           /\ UNCHANGED <<queue, wire, use, fault>>
<1>1. i \in Asked /\ reqs[i].st = "finished" /\ Running /\ finished # <<>> /\ i = Head(finished)
  <2> PICK q : q = finished
    OBVIOUS
  <2>1. Lists(q, "finished") /\ q # <<>> /\ i = Head(q) /\ Running
    BY DEF AfterWork, CanReport, LoopRuns, DeviceInv
  <2> QED
    BY <2>1, ListHead
<1>2. /\ finished' = Tail(finished) /\ dev' = d
      /\ reqs' = [reqs EXCEPT ![i].st = st, ![i].got = got]
      /\ UNCHANGED <<queue, wire, use, fault>>
  BY DEF AfterWork
<1>3. reqs \in Seq(Entry) /\ Len(reqs') = Len(reqs) /\ Asked' = Asked
  BY <1>2 DEF DeviceInv, TypePart, Asked
<1>4. \A j \in Asked : reqs[j].st = "finished" /\ j # i => j \in Asked' /\ reqs'[j].st = "finished"
  BY <1>1, <1>2, <1>3 DEF Asked
<1>5. Lists(finished, "finished")'
  <2> PICK q : q = finished
    OBVIOUS
  <2> PICK p : p = finished'
    OBVIOUS
  <2>1. Lists(q, "finished") /\ q # <<>> /\ i = Head(q) /\ p = Tail(q)
    BY <1>1, <1>2 DEF DeviceInv
  <2>2. Lists(p, "finished")'
    BY <1>4, <2>1, ListShrinks
  <2> QED
    BY <2>2 DEF Lists
<1> QED
  BY <1>1, <1>2, <1>5

\* The event loop answers a request, ...
LEMMA AfterKeeps ==
    ASSUME DeviceInv, NEW i, NEW st \in {"called", "threw"}, NEW got \in Nat, NEW d \in DeviceState,
           AfterWork(i, st, got, d), UNCHANGED <<kind, exited>>, kind = "uart" => ~Closes(i),
           kind = "gpio" \/ "overlap" \notin use => got \in {0, i},
           d.fd = dev.fd, d.edge = dev.edge, d.thread = dev.thread, d.emitter = dev.emitter,
           d.struct = dev.struct, d.binding = dev.binding
    PROVE  DeviceInv'
<1>1. /\ i \in Asked /\ reqs[i].st = "finished" /\ Running /\ Lists(finished, "finished")'
      /\ dev' = d /\ reqs' = [reqs EXCEPT ![i].st = st, ![i].got = got]
      /\ UNCHANGED <<queue, wire, use, fault>>
  BY Reported
<1> QED
  BY <1>1, DoneKeeps

\* ... or calls what the program wants to know of a close, ...
LEMMA CallsKeep ==
    ASSUME DeviceInv, NEW i, CloseReports(i), UNCHANGED <<kind, exited>>
    PROVE  DeviceInv'
<1> PICK d : d = dev
  OBVIOUS
<1>1. /\ i \in Asked /\ reqs[i].st = "finished" /\ Running /\ Lists(finished, "finished")'
      /\ dev' = dev /\ reqs' = [reqs EXCEPT ![i].st = "calling", ![i].got = 0]
      /\ UNCHANGED <<queue, wire, use, fault>> /\ Closes(i)
  <2>1. AfterWork(i, "calling", 0, d) /\ Closes(i)
    BY DEF CloseReports, Closes
  <2> QED
    BY <2>1, Reported
<1>2. reqs \in Seq(Entry) /\ reqs[i] \in Entry /\ IsBusy(i)
  BY <1>1 DEF DeviceInv, TypePart, Asked, IsBusy
<1> PICK e : e = [reqs[i] EXCEPT !.st = "calling", !.got = 0]
  OBVIOUS
<1>3. /\ e \in Entry /\ e.op = reqs[i].op /\ e.arg = reqs[i].arg /\ e.st = "calling" /\ e.got = 0
  BY <1>2 DEF Entry
<1>4. reqs' = [reqs EXCEPT ![i] = e]
  BY <1>1, <1>2 DEF Asked
<1>5. /\ Asked' = Asked /\ reqs' \in Seq(Entry) /\ reqs'[i] = e
      /\ \A j \in Asked : j # i => reqs'[j] = reqs[j]
      /\ Len(reqs') = Len(reqs)
  BY <1>1, <1>2, <1>3, <1>4, Updated
<1>6. \A j \in Asked : /\ IsBusy(j)' <=> IsBusy(j)
                       /\ Closes(j)' <=> Closes(j)
                       /\ Opens(j)' <=> Opens(j)
                       /\ reqs'[j].st = "calling" => reqs[j].st = "calling" \/ Closes(j)
                       /\ reqs'[j].st \in {"finished", "calling"} <=> reqs[j].st \in {"finished", "calling"}
                       /\ reqs'[j].st \in {"called", "sync"} <=> reqs[j].st \in {"called", "sync"}
                       /\ reqs'[j].st \in {"queued", "running"} <=> reqs[j].st \in {"queued", "running"}
                       /\ reqs'[j].op = reqs[j].op /\ reqs'[j].arg = reqs[j].arg
                       /\ reqs'[j].got \in {0, reqs[j].got}
  <2> TAKE j \in Asked
  <2>1. CASE j = i
    BY <1>1, <1>3, <1>5, <2>1 DEF IsBusy, Closes, Opens
  <2>2. CASE j # i
    BY <1>5, <2>2 DEF IsBusy, Closes, Opens
  <2> QED
    BY <2>1, <2>2
<1>7. TypePart'
  BY <1>1, <1>5 DEF DeviceInv, TypePart
<1>8. Lists(queue, "queued")'
  <2> PICK q : q = queue
    OBVIOUS
  <2> PICK p : p = queue'
    OBVIOUS
  <2>1. Lists(q, "queued") /\ q = p
    BY <1>1 DEF DeviceInv
  <2>2. Lists(p, "queued")'
    BY <1>1, <1>5, <2>1, ListStays
  <2> QED
    BY <2>2 DEF Lists
<1>9. AlonePart'
  BY <1>1, <1>5, <1>6 DEF DeviceInv, AlonePart
<1>10. FreedPart' /\ ClosedPart'
  BY <1>1, <1>5, <1>6 DEF DeviceInv, FreedPart, ClosedPart, Idle
<1>11. UartPart' /\ OpenPart' /\ EdgePart'
  BY <1>1, <1>5, <1>6 DEF DeviceInv, UartPart, OpenPart, EdgePart, CloseBusy
<1>12. DataPart'
  <2> SUFFICES ASSUME "overlap" \notin use PROVE InPlace(i)'
    BY <1>1, <1>2, <1>5, <1>6 DEF DeviceInv, AlonePart, DataPart
  <2>1. reqs'[i].op = "close"
    BY <1>1, <1>3, <1>5 DEF Closes
  <2> QED
    BY <2>1 DEF InPlace, SpiTransfers, PwmSetters
<1>13. WirePart'
  BY <1>1, <1>5, <1>6 DEF DeviceInv, WirePart
<1>14. FaultHasCause' /\ ExitCloses' /\ OnceInOrder'
  BY <1>1 DEF DeviceInv, FaultHasCause, ExitCloses, OnceInOrder, Running
<1>15. OwnData'
  <2>1. \A x \in 1 .. Len(wire) : wire[x].req \in Asked
    BY DEF DeviceInv, WirePart
  <2> QED
    BY <1>1, <1>5, <1>6, <2>1 DEF DeviceInv, OwnData, Asked
<1> QED
  BY <1>1, <1>7, <1>8, <1>9, <1>10, <1>11, <1>12, <1>13, <1>14, <1>15 DEF DeviceInv

\* ... and goes on when the program has returned: the wrapper forgets the object, or the
\* struct is freed.
LEMMA ReturnKeeps ==
    ASSUME DeviceInv, NEW i, NEW d \in DeviceState, CloseReturns(i, d), UNCHANGED <<kind, exited>>,
           d.fd = dev.fd, d.edge = dev.edge, d.thread = dev.thread, d.emitter = dev.emitter,
           d.struct = dev.struct \/ kind \notin Wrapped,
           d.binding = dev.binding \/ (kind \in Wrapped /\ ~d.binding),
           kind = "uart" => ~d.binding
    PROVE  DeviceInv'
<1>1. /\ Running /\ i \in Asked /\ reqs[i].st = "calling" /\ dev' = d
      /\ reqs' = [reqs EXCEPT ![i].st = "called"]
      /\ UNCHANGED <<queue, finished, wire, use, fault>>
  BY DEF CloseReturns, Returns, InState, Asked
<1>2. Closes(i)
  BY <1>1 DEF DeviceInv, AlonePart
<1> PICK got : got = reqs[i].got
  OBVIOUS
<1>3. reqs \in Seq(Entry) /\ reqs[i] \in Entry
  BY <1>1 DEF DeviceInv, TypePart, Asked
<1>4. got \in Nat /\ reqs' = [reqs EXCEPT ![i].st = "called", ![i].got = got]
  BY <1>1, <1>3 DEF Asked, Entry
<1>5. kind = "gpio" \/ "overlap" \notin use => got \in {0, i}
  BY <1>1 DEF DeviceInv, OwnData, Asked
<1>6. Lists(finished, "finished")'
  <2> PICK q : q = finished
    OBVIOUS
  <2> PICK p : p = finished'
    OBVIOUS
  <2>1. Lists(q, "finished") /\ q = p
    BY <1>1 DEF DeviceInv
  <2>2. \A j \in Asked : reqs[j].st = "finished" => j \in Asked' /\ reqs'[j].st = "finished"
    BY <1>1, <1>3 DEF Asked
  <2>3. Lists(p, "finished")'
    BY <2>1, <2>2, ListStays
  <2> QED
    BY <2>3 DEF Lists
<1> PICK st : st = "called"
  OBVIOUS
<1>7. /\ st \in {"called", "threw"} /\ st = "called" /\ reqs[i].st \in {"finished", "calling"}
      /\ reqs' = [reqs EXCEPT ![i].st = st, ![i].got = got]
  BY <1>1, <1>4
<1>8. /\ d.struct = dev.struct \/ (kind \notin Wrapped /\ Closes(i) /\ st = "called")
      /\ d.binding = dev.binding \/ (kind \in Wrapped /\ Closes(i) /\ ~d.binding)
      /\ kind = "uart" /\ Closes(i) => ~d.binding
  BY <1>2, <1>7
<1>9. /\ Running /\ i \in Asked /\ dev' = d /\ got \in Nat
      /\ UNCHANGED <<queue, wire, use, fault, kind, exited>>
  BY <1>1, <1>4
<1> QED
  BY <1>5, <1>6, <1>7, <1>8, <1>9, DoneKeeps

LEMMA ForgetKeeps ==
    ASSUME DeviceInv, kind \in Wrapped, NEW i, Forget(i), UNCHANGED <<kind, exited>>
    PROVE  DeviceInv'
<1> PICK d : d = [dev EXCEPT !.binding = FALSE]
  OBVIOUS
<1>1. dev \in DeviceState
  BY DEF DeviceInv, TypePart
<1>2. /\ d \in DeviceState /\ d.binding = FALSE /\ d.struct = dev.struct
      /\ d.emitter = dev.emitter /\ d.edge = dev.edge /\ d.fd = dev.fd
      /\ d.thread = dev.thread
  BY <1>1 DEF DeviceState
<1>3. CloseReturns(i, d)
  BY DEF Forget
<1> QED
  BY <1>2, <1>3, ReturnKeeps

\* A request that is no close is answered and leaves the device as it is.
LEMMA AnswersKeep ==
    ASSUME DeviceInv, NEW i, NEW got \in Nat, AfterWork(i, "called", got, dev), ~Closes(i),
           UNCHANGED <<kind, exited>>, got \in {0, i}
    PROVE  DeviceInv'
<1> PICK d : d = dev
  OBVIOUS
<1>1. d \in DeviceState /\ AfterWork(i, "called", got, d)
  BY DEF DeviceInv, TypePart
<1> QED
  BY <1>1, AfterKeeps

\* The device alone changes: it is collected, its handle is closed, its thread goes on.
LEMMA DevKeeps ==
    ASSUME DeviceInv, NEW d \in DeviceState, dev' = d,
           UNCHANGED <<kind, exited, reqs, queue, finished, wire, use, fault>>,
           d.binding = dev.binding, d.struct = dev.struct \/ (kind \in Wrapped /\ ~dev.binding),
           d.slot = dev.slot, d.live = dev.live, d.emitter = dev.emitter, d.edge = dev.edge,
           d.thread # "none" => dev.thread # "none",
           d.fd = dev.fd \/ (dev.fd = "closing" /\ d.fd = "closed")
    PROVE  DeviceInv'
<1>1. TypePart' /\ Asked' = Asked /\ (CloseBusy' <=> CloseBusy)
  BY DEF DeviceInv, TypePart, Asked, CloseBusy, IsBusy, Closes
<1>2. Lists(queue, "queued")' /\ Lists(finished, "finished")'
  BY <1>1 DEF DeviceInv, Lists
<1>3. AlonePart'
  BY <1>1 DEF DeviceInv, AlonePart, IsBusy, Closes, Opens
<1>4. FreedPart'
  BY <1>1 DEF DeviceInv, FreedPart, Idle, IsBusy, Closes
<1>5. ClosedPart' /\ EdgePart'
  BY <1>1 DEF DeviceInv, ClosedPart, EdgePart, Closes
<1>6. UartPart' /\ OpenPart'
  BY <1>1 DEF DeviceInv, UartPart, OpenPart, Closes
<1>7. DataPart'
  BY <1>1 DEF DeviceInv, DataPart, InPlace, IsBusy
<1>8. WirePart'
  BY <1>1 DEF DeviceInv, WirePart
<1>9. OwnData' /\ ExitCloses'
  BY DEF DeviceInv, OwnData, ExitCloses
<1>10. OnceInOrder'
  BY DEF DeviceInv, OnceInOrder
<1>11. FaultHasCause'
  BY DEF DeviceInv, FaultHasCause, Harmful, LoopRace
<1> QED
  BY <1>1, <1>2, <1>3, <1>4, <1>5, <1>6, <1>7, <1>8, <1>9, <1>10, <1>11 DEF DeviceInv

-----------------------------------------------------------------------------
(* What the peripherals need of these steps.                               *)

\* The parts of a device and of a request.
LEMMA Parts ==
    ASSUME DeviceInv
    PROVE  /\ dev \in DeviceState /\ reqs \in Seq(Entry) /\ kind \in DeviceKinds
           /\ Len(reqs) \in Nat /\ New = Len(reqs) + 1 /\ New \in Nat
           /\ dev.slot \in [Fields -> Nat] /\ dev.live \in SUBSET Nat
           /\ dev.binding \in BOOLEAN /\ dev.struct \in BOOLEAN
           /\ dev.slot["data"] \in Nat
           /\ kind \in Wrapped /\ dev.binding => dev.struct
           /\ kind \notin Wrapped => dev.binding
           /\ \A i \in Asked : /\ i \in Nat /\ reqs[i] \in Entry /\ reqs[i].op \in OpNames
                               /\ reqs[i].arg \in Nat /\ reqs[i].saw \in Nat
                               /\ reqs[i].ok \in BOOLEAN
<1>1. dev \in DeviceState /\ reqs \in Seq(Entry) /\ kind \in DeviceKinds /\ Len(reqs) \in Nat
  BY DEF DeviceInv, TypePart
<1>2. New = Len(reqs) + 1 /\ New \in Nat
  BY <1>1 DEF New
<1>3. /\ dev.slot \in [Fields -> Nat] /\ dev.live \in SUBSET Nat
      /\ dev.binding \in BOOLEAN /\ dev.struct \in BOOLEAN
  BY <1>1 DEF DeviceState
<1>4. dev.slot["data"] \in Nat
  BY <1>3 DEF Fields
<1>5. \A g \in Entry : g.op \in OpNames /\ g.arg \in Nat /\ g.saw \in Nat /\ g.ok \in BOOLEAN
  BY DEF Entry
<1>6. \A i \in Asked : i \in Nat /\ reqs[i] \in Entry
  BY <1>1 DEF Asked
<1>7. (kind \in Wrapped /\ dev.binding => dev.struct) /\ (kind \notin Wrapped => dev.binding)
  BY DEF DeviceInv, FreedPart
<1> QED
  BY <1>1, <1>2, <1>3, <1>4, <1>5, <1>6, <1>7

\* What an asynchronous call leaves.
LEMMA Submitted ==
    ASSUME DeviceInv, NEW op \in OpNames, NEW arg \in Nat, NEW d, Submit(op, arg, d)
    PROVE  /\ reqs'[New].op = op /\ reqs'[New].arg = arg /\ reqs'[New].st = "queued"
           /\ dev' = d
<1> PICK e : e = NewRequest(op, arg, "queued")
  OBVIOUS
<1>1. e \in Entry /\ e.op = op /\ e.arg = arg /\ e.st = "queued"
  BY DEF NewRequest, Entry
<1>2. reqs' = Append(reqs, e) /\ dev' = d
  BY DEF Submit
<1>3. reqs \in Seq(Entry) /\ New = Len(reqs) + 1
  BY Parts
<1>4. reqs'[New] = e
  BY <1>1, <1>2, <1>3, AppendProperties
<1> QED
  BY <1>1, <1>2, <1>4

\* A worker that runs.
LEMMA WorkerRuns ==
    ASSUME DeviceInv, NEW i, NEW ops, Works(i, ops)
    PROVE  /\ i \in Asked /\ reqs[i].st = "running" /\ reqs[i].op \in ops /\ Running /\ IsBusy(i)
           /\ "overlap" \notin use => InPlace(i)
<1>1. i \in Asked /\ reqs[i].st = "running" /\ reqs[i].op \in ops /\ Running
  BY DEF Works, InState, Asked
<1>2. IsBusy(i)
  BY <1>1 DEF IsBusy
<1> QED
  BY <1>1, <1>2 DEF DeviceInv, DataPart

\* A request that waits for its answer.
LEMMA Reports ==
    ASSUME DeviceInv, NEW i, CanReport(i)
    PROVE  /\ i \in Asked /\ reqs[i].st = "finished" /\ Running /\ IsBusy(i)
           /\ "overlap" \notin use => InPlace(i)
<1> PICK q : q = finished
  OBVIOUS
<1>1. Lists(q, "finished") /\ q # <<>> /\ i = Head(q) /\ Running
  BY DEF CanReport, LoopRuns, DeviceInv
<1>2. i \in Asked /\ reqs[i].st = "finished"
  BY <1>1, ListHead
<1>3. IsBusy(i)
  BY <1>2 DEF IsBusy
<1> QED
  BY <1>1, <1>2, <1>3 DEF DeviceInv, DataPart

\* A worker starts with the data of its request.
LEMMA StartsInPlace ==
    ASSUME DeviceInv, NEW i, NEW saw \in Nat, WorkerStart(i, saw), UNCHANGED <<kind, exited>>,
           kind \in {"spi", "uart"} => saw = dev.slot["data"],
           kind = "pwm" => saw = dev.slot[Field(reqs[i].op)]
    PROVE  DeviceInv'
<1> SUFFICES ASSUME "overlap" \notin use, dev.struct PROVE InPlace(i)'
  BY StartKeeps
<1>1. i \in Asked /\ reqs[i].st = "queued"
  <2> PICK q : q = queue
    OBVIOUS
  <2>1. Lists(q, "queued") /\ q # <<>> /\ i = Head(q)
    BY DEF WorkerStart, DeviceInv
  <2> QED
    BY <2>1, ListHead
<1>2. InPlace(i)
  BY <1>1 DEF DeviceInv, DataPart, IsBusy
<1>3. reqs' = [reqs EXCEPT ![i].st = "running", ![i].saw = saw] /\ dev' = dev
  BY DEF WorkerStart
<1>4. reqs \in Seq(Entry) /\ reqs[i] \in Entry
  BY <1>1, Parts
<1>5. reqs'[i].op = reqs[i].op /\ reqs'[i].arg = reqs[i].arg /\ reqs'[i].saw = saw
  BY <1>1, <1>3, <1>4 DEF Asked, Entry
<1>6. reqs[i].op \in PwmSetters => Field(reqs[i].op) = reqs[i].op
  BY DEF PwmSetters, Field, Fields
<1> QED
  BY <1>2, <1>3, <1>5, <1>6 DEF InPlace

\* A worker that transfers nothing.
LEMMA EndsSilently ==
    ASSUME DeviceInv, Running, NEW i \in Asked, reqs[i].st = "running",
           NEW ok \in BOOLEAN, NEW d \in DeviceState,
           WorkerEnd(i, ok, d, wire), UNCHANGED <<kind, exited>>,
           d.binding = dev.binding, d.struct = dev.struct, d.emitter = dev.emitter,
           d.edge = dev.edge, d.slot = dev.slot, d.live = dev.live,
           d.thread # "none" => dev.thread # "none" \/ dev.edge,
           kind = "uart" => d.fd \in {dev.fd, "open"} \/ Closes(i)
    PROVE  DeviceInv'
<1>1. wire = Transfer(FALSE, i, 0)
  BY DEF Transfer
<1> PICK w : w = wire
  OBVIOUS
<1>2. WorkerEnd(i, ok, d, w) /\ w = Transfer(FALSE, i, 0)
  BY <1>1
<1> QED
  BY <1>2, EndKeeps

\* A worker that leaves the device as it is and may transfer.
LEMMA EndsTransfer ==
    ASSUME DeviceInv, Running, NEW i \in Asked, reqs[i].st = "running",
           NEW ok \in BOOLEAN, NEW sent \in BOOLEAN, NEW v \in Nat,
           WorkerEnd(i, ok, dev, Transfer(sent, i, v)), UNCHANGED <<kind, exited>>,
           kind = "gpio" \/ "overlap" \notin use => v = reqs[i].arg
    PROVE  DeviceInv'
<1> PICK w : w = Transfer(sent, i, v)
  OBVIOUS
<1> PICK d : d = dev
  OBVIOUS
<1>1. WorkerEnd(i, ok, d, w) /\ d \in DeviceState
  BY Parts
<1> QED
  BY <1>1, EndKeeps

\* An asynchronous call that puts nothing into the struct.
LEMMA AsksPlainly ==
    ASSUME DeviceInv, Running, dev.binding, dev.struct, NEW op \in {"close", "read", "write"},
           NEW arg \in Nat, Submit(op, arg, dev), UNCHANGED <<kind, exited>>,
           kind = "uart" => op # "write",
           kind = "i2c" /\ op \in {"read", "write"} => arg = dev.slot["data"]
    PROVE  DeviceInv'
<1> PICK d : d = dev
  OBVIOUS
<1> PICK n : n = New
  OBVIOUS
<1>1. op \in OpNames /\ op \notin SpiTransfers /\ op \notin PwmSetters /\ op # "open"
  BY DEF OpNames, SpiTransfers, PwmSetters
<1>2. d \in DeviceState /\ n = Len(reqs) + 1 /\ Submit(op, arg, d)
  BY Parts
<1>3. reqs'[n].op = op /\ reqs'[n].arg = arg /\ dev' = d
  BY <1>1, Submitted
<1>4. InPlace(n)'
  BY <1>1, <1>3 DEF InPlace
<1> QED
  BY <1>1, <1>2, <1>4, SubmitKeeps

\* A synchronous call that leaves the device as it is.
LEMMA CallsPlainly ==
    ASSUME DeviceInv, Running, dev.binding, dev.struct, NEW op \in {"read", "write"},
           NEW ok \in BOOLEAN, NEW w, Sync(op, New, ok, dev, w), UNCHANGED <<kind, exited>>,
           w = wire \/ \E sent \in BOOLEAN : w = Transfer(sent, New, New)
    PROVE  DeviceInv'
<1> PICK d : d = dev
  OBVIOUS
<1> PICK n : n = New
  OBVIOUS
<1>1. d \in DeviceState /\ n = Len(reqs) + 1 /\ n \in Nat /\ Sync(op, n, ok, d, w)
  BY Parts
<1>2. op \in OpNames /\ op \notin {"close", "open"}
  BY DEF OpNames
<1> QED
  BY <1>1, <1>2, SyncCallKeeps

\* A synchronous call that transfers what it puts into the struct.
LEMMA CallsTransfer ==
    ASSUME DeviceInv, Running, dev.binding, dev.struct, NEW op \in OpNames, op \notin {"close", "open"},
           NEW ok \in BOOLEAN, NEW sent \in BOOLEAN, NEW n, n = New, NEW d \in DeviceState,
           Sync(op, n, ok, d, Transfer(sent, n, n)), UNCHANGED <<kind, exited>>,
           d.binding = dev.binding, d.struct = dev.struct, d.fd = dev.fd, d.edge = dev.edge,
           d.thread = dev.thread, d.emitter = dev.emitter
    PROVE  DeviceInv'
<1> PICK w : w = Transfer(sent, n, n)
  OBVIOUS
<1>1. n = Len(reqs) + 1 /\ n \in Nat /\ Sync(op, n, ok, d, w)
  BY Parts
<1> QED
  BY <1>1, SyncCallKeeps

LEMMA Pair ==
    ASSUME NEW a, NEW b
    PROVE  <<a, b>>[1] = a /\ <<a, b>>[2] = b
  BY Zenon

\* The outcomes of a write.
LEMMA WrittenOutcomes ==
    ASSUME NEW exists, NEW r \in Written(exists)
    PROVE  r[1] \in BOOLEAN /\ r[2] \in BOOLEAN
<1>1. PICK a \in BOOLEAN, b \in BOOLEAN : r = <<a, b>>
  BY DEF Written
<1>2. r[1] = a /\ r[2] = b
  BY <1>1, Pair
<1> QED
  BY <1>2

-----------------------------------------------------------------------------
(* The SPI bus.                                                            *)

\* A call that works on descriptor 0.
LEMMA SpiForeignKeeps ==
    ASSUME DeviceInv, Running, kind = "spi", NEW op \in UsesDescriptor, SpiForeign(op),
           UNCHANGED kind, exited' \in {exited, TRUE}
    PROVE  DeviceInv'
<1>1. dev.fd = "zero" /\ Crash("foreign") /\ use' = use \cup Usage(op)
  BY DEF SpiForeign
<1>2. "unopened" \in use' /\ use' \cap Harmful # {}
  BY <1>1, UsageFacts DEF Harmful
<1>3. ExitCloses' /\ exited' \in BOOLEAN
  BY <1>1 DEF ExitCloses, Crash, DeviceInv, TypePart
<1> QED
  BY <1>1, <1>2, <1>3, CrashKeeps

\* A transfer is called for.
LEMMA SpiCalls ==
    ASSUME DeviceInv, kind = "spi", SpiTransferArray \/ SpiTransferBuffer, UNCHANGED <<kind, exited>>
    PROVE  DeviceInv'
<1>1. Running /\ dev.binding /\ dev.struct /\ New \in Nat /\ New = Len(reqs) + 1
  BY Parts DEF SpiTransferArray, SpiTransferBuffer, CanCall, Wrapped
<1> PICK n : n = New
  OBVIOUS
<1>2. dev \in DeviceState /\ dev.slot \in [Fields -> Nat] /\ dev.live \in SUBSET Nat
  BY Parts
<1>3. ASSUME NEW op \in SpiTransfers, NEW d \in DeviceState, Submit(op, n, d),
             d.slot["data"] = n, op = "transferArray" => n \in d.live,
             d.binding = dev.binding, d.struct = dev.struct, d.fd = dev.fd, d.edge = dev.edge,
             d.thread = dev.thread, d.emitter = dev.emitter
      PROVE  DeviceInv'
  <2>1. op \in OpNames /\ op # "open"
    BY DEF OpNames, SpiTransfers
  <2>2. reqs'[n].op = op /\ reqs'[n].arg = n /\ reqs'[n].st = "queued" /\ dev' = d
    BY <1>1, <1>3, <2>1, Submitted
  <2>3. InPlace(n)'
    BY <1>3, <2>2 DEF InPlace
  <2> QED
    BY <1>1, <1>3, <2>1, <2>3, SubmitKeeps
<1>4. ASSUME NEW op \in SpiTransfers, NEW d \in DeviceState, SpiTransferSync(op, d),
             d.binding = dev.binding, d.struct = dev.struct, d.fd = dev.fd, d.edge = dev.edge,
             d.thread = dev.thread, d.emitter = dev.emitter
      PROVE  DeviceInv'
  <2>1. op \in OpNames /\ op \notin {"close", "open"} /\ op \in UsesDescriptor
    BY DEF OpNames, SpiTransfers, UsesDescriptor
  <2>2. CASE SpiForeign(op)
    BY <1>1, <2>1, <2>2, SpiForeignKeeps
  <2>3. CASE ~SpiForeign(op)
    <3>1. PICK r \in SpiTransfer : Sync(op, New, r[1], d, Transfer(r[2], New, New))
      BY <1>4, <2>3 DEF SpiTransferSync
    <3> PICK ok, sent : ok = r[1] /\ sent = r[2]
      OBVIOUS
    <3>2. ok \in BOOLEAN /\ sent \in BOOLEAN /\ Sync(op, n, ok, d, Transfer(sent, n, n))
      BY <3>1, WrittenOutcomes DEF SpiTransfer
    <3> QED
      BY <1>1, <1>4, <2>1, <3>2, CallsTransfer
  <2> QED
    BY <2>2, <2>3
<1>5. CASE SpiTransferArray
  <2>1. PICK d : d = [dev EXCEPT !.slot["data"] = n, !.live = @ \cup {n}]
    OBVIOUS
  <2>2. /\ d \in DeviceState /\ d.slot["data"] = n /\ n \in d.live /\ d.binding = dev.binding
        /\ d.struct = dev.struct /\ d.fd = dev.fd /\ d.edge = dev.edge
        /\ d.thread = dev.thread /\ d.emitter = dev.emitter
    BY <1>1, <1>2, <2>1 DEF DeviceState, Fields
  <2>3. PICK h : h = [d EXCEPT !.live = @ \ {n}]
    OBVIOUS
  <2>4. /\ h \in DeviceState /\ h.binding = d.binding /\ h.struct = d.struct /\ h.fd = d.fd
        /\ h.edge = d.edge /\ h.thread = d.thread /\ h.emitter = d.emitter
    BY <2>2, <2>3 DEF DeviceState
  <2>5. Submit("transferArray", n, d) \/ SpiTransferSync("transferArray", h)
    BY <1>5, <2>1, <2>3 DEF SpiTransferArray, SpiSetArrayBuffer, SpiRequest
  <2> QED
    BY <1>3, <1>4, <2>2, <2>4, <2>5 DEF SpiTransfers
<1>6. CASE SpiTransferBuffer
  <2>1. PICK d : d = [dev EXCEPT !.slot["data"] = n]
    OBVIOUS
  <2>2. /\ d \in DeviceState /\ d.slot["data"] = n /\ d.binding = dev.binding
        /\ d.struct = dev.struct /\ d.fd = dev.fd /\ d.edge = dev.edge
        /\ d.thread = dev.thread /\ d.emitter = dev.emitter
    BY <1>1, <1>2, <2>1 DEF DeviceState, Fields
  <2>3. Submit("transferBuffer", n, d) \/ SpiTransferSync("transferBuffer", d)
    BY <1>6, <2>1 DEF SpiTransferBuffer, SpiSetBuffer, SpiRequest
  <2> QED
    BY <1>3, <1>4, <2>2, <2>3 DEF SpiTransfers
<1> QED
  BY <1>5, <1>6

\* The outcomes of closing the device.
LEMMA SpiOutcomes ==
    ASSUME NEW r \in SpiClose
    PROVE  \/ r[1] = TRUE /\ r[2] = [dev EXCEPT !.fd = "none"]
           \/ r[1] = FALSE /\ r[2] = dev
<1> PICK g : g = [dev EXCEPT !.fd = "none"]
  OBVIOUS
<1> PICK h : h = dev
  OBVIOUS
<1>1. r = <<TRUE, g>> \/ r = <<FALSE, h>>
  BY DEF SpiClose
<1>2. CASE r = <<TRUE, g>>
  <2>1. r[1] = TRUE
    BY <1>2, Zenon
  <2>2. r[2] = g
    BY <1>2, Zenon
  <2> QED
    BY <2>1, <2>2
<1>3. CASE r = <<FALSE, h>>
  <2>1. r[1] = FALSE
    BY <1>3, Zenon
  <2>2. r[2] = h
    BY <1>3, Zenon
  <2> QED
    BY <2>1, <2>2
<1> QED
  BY <1>1, <1>2, <1>3

\* close() and closeSync(), called by the program or by the handler of 'exit'.
LEMMA SpiCloses ==
    ASSUME DeviceInv, Running, kind = "spi", dev.binding, SpiCloseSync, UNCHANGED kind,
           exited' \in {exited, TRUE}
    PROVE  DeviceInv'
<1>1. dev.struct /\ dev \in DeviceState /\ New = Len(reqs) + 1 /\ New \in Nat
  BY Parts DEF Wrapped
<1>2. CASE dev.fd = "zero"
  BY <1>2, SpiForeignKeeps DEF SpiCloseSync, UsesDescriptor
<1>3. CASE dev.fd # "zero"
  <2>1. PICK r \in SpiClose :
          Sync("close", New, r[1], [r[2] EXCEPT !.binding = ~r[1]], wire)
    BY <1>3 DEF SpiCloseSync
  <2> PICK ok : ok = r[1]
    OBVIOUS
  <2> PICK d : d = [r[2] EXCEPT !.binding = ~r[1]]
    OBVIOUS
  <2> PICK n : n = New
    OBVIOUS
  <2> PICK w : w = wire
    OBVIOUS
  <2>2. \/ r[1] = TRUE /\ r[2] = [dev EXCEPT !.fd = "none"]
        \/ r[1] = FALSE /\ r[2] = dev
    BY SpiOutcomes
  <2>3. ok \in BOOLEAN
    BY <2>2
  <2>4. /\ d \in DeviceState /\ d.struct = dev.struct /\ d.edge = dev.edge
        /\ d.thread = dev.thread
    BY <1>1, <2>2 DEF DeviceState
  <2>5. Sync("close", n, ok, d, w) /\ n = Len(reqs) + 1 /\ n \in Nat
    BY <1>1, <2>1
  <2>6. "close" \in OpNames
    BY DEF OpNames
  <2> QED
    BY <1>1, <2>3, <2>4, <2>5, <2>6, SyncCallKeeps DEF Wrapped
<1> QED
  BY <1>2, <1>3

LEMMA SpiWorks ==
    ASSUME DeviceInv, kind = "spi", NEW i \in Asked, SpiWorker(i), UNCHANGED <<kind, exited>>
    PROVE  DeviceInv'
<1>1. dev \in DeviceState /\ dev.slot["data"] \in Nat /\ reqs[i].saw \in Nat
  BY Parts
<1>2. CASE WorkerStart(i, dev.slot["data"])
  BY <1>1, <1>2, StartsInPlace
<1>3. CASE SpiOpenWorker(i)
  <2>1. /\ reqs[i].st = "running" /\ reqs[i].op = "open" /\ Running
    BY <1>3, WorkerRuns DEF SpiOpenWorker
  <2>2. PICK d, ok : /\ WorkerEnd(i, ok, d, wire) /\ ok \in BOOLEAN
                     /\ d = dev \/ d = [dev EXCEPT !.fd = "none"] \/ d = [dev EXCEPT !.fd = "open"]
    BY <1>3 DEF SpiOpenWorker, SpiSetConfiguration
  <2>3. /\ d \in DeviceState /\ d.binding = dev.binding /\ d.struct = dev.struct
        /\ d.emitter = dev.emitter /\ d.edge = dev.edge /\ d.slot = dev.slot
        /\ d.live = dev.live /\ d.thread = dev.thread
    BY <1>1, <2>2 DEF DeviceState
  <2> QED
    BY <2>1, <2>2, <2>3, EndsSilently
<1>4. CASE SpiTransferWorker(i)
  <2>1. /\ reqs[i].st = "running" /\ reqs[i].op \in SpiTransfers /\ Running
        /\ "overlap" \notin use => InPlace(i)
    BY <1>4, WorkerRuns DEF SpiTransferWorker
  <2>2. "overlap" \notin use => reqs[i].saw = reqs[i].arg /\ SpiUsable(reqs[i].saw)
    BY <2>1 DEF InPlace, SpiUsable
  <2>3. dev.fd = "zero" => use \cap Harmful # {}
    <3>1. reqs[i].op \in UsesDescriptor
      BY <2>1 DEF SpiTransfers, UsesDescriptor
    <3> QED
      BY <2>1, <3>1 DEF DeviceInv, OpenPart, Harmful
  <2>4. ~SpiUsable(reqs[i].saw) => use \cap Harmful # {}
    BY <2>2 DEF Harmful
  <2>5. \/ dev.fd = "zero" /\ Breaks("foreign")
        \/ ~SpiUsable(reqs[i].saw) /\ Breaks("released")
        \/ \E r \in SpiTransfer : WorkerEnd(i, r[1], dev, Transfer(r[2], i, reqs[i].saw))
    BY <1>4 DEF SpiTransferWorker
  <2>6. CASE \/ dev.fd = "zero" /\ Breaks("foreign")
             \/ ~SpiUsable(reqs[i].saw) /\ Breaks("released")
    BY <2>1, <2>3, <2>4, <2>6, BreaksKeeps
  <2>7. ASSUME NEW r \in SpiTransfer, WorkerEnd(i, r[1], dev, Transfer(r[2], i, reqs[i].saw))
        PROVE  DeviceInv'
    <3>1. r[1] \in BOOLEAN /\ r[2] \in BOOLEAN
      BY WrittenOutcomes DEF SpiTransfer
    <3> QED
      BY <1>1, <2>1, <2>2, <2>7, <3>1, EndsTransfer
  <2> QED
    BY <2>5, <2>6, <2>7
<1>5. CASE SpiCloseWorker(i)
  <2>1. /\ reqs[i].st = "running" /\ reqs[i].op = "close" /\ Running
    BY <1>5, WorkerRuns DEF SpiCloseWorker
  <2>2. CASE dev.fd = "zero"
    <3>1. Breaks("foreign")
      BY <1>5, <2>2 DEF SpiCloseWorker
    <3>2. use \cap Harmful # {}
      BY <2>1, <2>2 DEF DeviceInv, OpenPart, UsesDescriptor, Harmful
    <3> QED
      BY <2>1, <3>1, <3>2, BreaksKeeps
  <2>3. CASE dev.fd # "zero"
    <3>1. PICK r \in SpiClose : WorkerEnd(i, r[1], r[2], wire)
      BY <1>5, <2>3 DEF SpiCloseWorker
    <3> PICK ok : ok = r[1]
      OBVIOUS
    <3> PICK d : d = r[2]
      OBVIOUS
    <3>2. /\ ok \in BOOLEAN
          /\ d = dev \/ d = [dev EXCEPT !.fd = "none"]
          /\ WorkerEnd(i, ok, d, wire)
      BY <3>1, SpiOutcomes
    <3>3. /\ d \in DeviceState /\ d.binding = dev.binding /\ d.struct = dev.struct
          /\ d.emitter = dev.emitter /\ d.edge = dev.edge /\ d.slot = dev.slot
          /\ d.live = dev.live /\ d.thread = dev.thread
      BY <1>1, <3>2 DEF DeviceState
    <3> QED
      BY <2>1, <3>2, <3>3, EndsSilently
  <2> QED
    BY <2>2, <2>3
<1> QED
  BY <1>2, <1>3, <1>4, <1>5 DEF SpiWorker

LEMMA SpiReports ==
    ASSUME DeviceInv, kind = "spi", NEW i \in Asked, SpiAfterWork(i), UNCHANGED <<kind, exited>>
    PROVE  DeviceInv'
<1>1. /\ dev \in DeviceState /\ dev.slot["data"] \in Nat /\ dev.live \in SUBSET Nat
      /\ kind \in Wrapped
  BY Parts DEF Wrapped
<1>2. CASE SpiAfterTransfer(i)
  <2>1. /\ CanReport(i) /\ reqs[i].op \in SpiTransfers /\ reqs[i].op # "close"
    BY <1>2 DEF SpiAfterTransfer, SpiTransfers
  <2>0. ~Closes(i)
    BY <2>1 DEF Closes
  <2>2. IsBusy(i) /\ Running /\ ("overlap" \notin use => InPlace(i))
    BY <2>1, Reports
  <2>3. "overlap" \notin use => /\ dev.slot["data"] = i /\ SpiUsable(dev.slot["data"])
                                /\ reqs[i].op = "transferArray" => SpiReleasable
    BY <2>1, <2>2 DEF InPlace, SpiUsable, SpiReleasable
  <2>4. ~dev.struct => use \cap Harmful # {}
    BY <2>2, BusyHolds
  <2>5. "overlap" \in use => use \cap Harmful # {}
    BY DEF Harmful
  <2>6. CASE use \cap Harmful # {} /\ Breaks("released")
    BY <2>2, <2>6, BreaksKeeps
  <2>7. CASE ~(use \cap Harmful # {} /\ Breaks("released"))
    <3>1. PICK st, got, d :
            /\ AfterWork(i, st, got, d) /\ st \in {"called", "threw"}
            /\ got \in {0, dev.slot["data"]}
            /\ d = dev \/ d = [dev EXCEPT !.live = @ \ {dev.slot["data"]}]
      BY <1>2, <2>3, <2>4, <2>5, <2>7 DEF SpiAfterTransfer, SpiReleaseBuffer
    <3>2. /\ d \in DeviceState /\ d.binding = dev.binding /\ d.struct = dev.struct
          /\ d.emitter = dev.emitter /\ d.edge = dev.edge /\ d.fd = dev.fd
          /\ d.thread = dev.thread
      BY <1>1, <3>1 DEF DeviceState
    <3>3. got \in Nat /\ ("overlap" \notin use => got \in {0, i})
      BY <1>1, <2>3, <3>1
    <3> QED
      BY <2>0, <3>1, <3>2, <3>3, AfterKeeps
  <2> QED
    BY <2>6, <2>7
<1>3. CASE reqs[i].op = "open" /\ AfterWork(i, "called", 0, dev)
  BY <1>3, AnswersKeep DEF Closes
<1> QED
  BY <1>1, <1>2, <1>3, CallsKeep, ForgetKeeps DEF SpiAfterWork

\* The wrapper has forgotten the object: it is collected.
LEMMA CollectKeeps ==
    ASSUME DeviceInv, kind \in Wrapped, ~dev.binding, Collect, UNCHANGED <<kind, exited>>
    PROVE  DeviceInv'
<1> PICK d : d = [dev EXCEPT !.struct = FALSE]
  OBVIOUS
<1>1. dev \in DeviceState
  BY Parts
<1>2. /\ d \in DeviceState /\ d.binding = dev.binding /\ d.slot = dev.slot /\ d.live = dev.live
      /\ d.emitter = dev.emitter /\ d.edge = dev.edge /\ d.fd = dev.fd /\ d.thread = dev.thread
  BY <1>1 DEF DeviceState
<1>3. dev' = d /\ UNCHANGED <<reqs, queue, finished, wire, use, fault>>
  BY DEF Collect
<1> QED
  BY <1>2, <1>3, DevKeeps

LEMMA SpiKeeps ==
    ASSUME DeviceInv, kind = "spi", SpiStep, UNCHANGED <<kind, exited>>
    PROVE  DeviceInv'
<1>1. ASSUME SpiCloseCall PROVE DeviceInv'
  <2>1. Running /\ dev.binding /\ dev.struct /\ New \in Nat
    BY <1>1, Parts DEF SpiCloseCall, CanCall, Wrapped
  <2>2. CASE SpiCloseSync
    BY <2>1, <2>2, SpiCloses
  <2>3. CASE Submit("close", New, dev)
    BY <2>1, <2>3, AsksPlainly
  <2> QED
    BY <1>1, <2>2, <2>3 DEF SpiCloseCall, SpiRequest
<1>2. ASSUME SpiDestroy PROVE DeviceInv'
  BY <1>2, CollectKeeps DEF SpiDestroy, Wrapped
<1> QED
  BY <1>1, <1>2, SpiCalls, SpiWorks, SpiReports DEF SpiStep, Asked

-----------------------------------------------------------------------------
(* The PWM pin.                                                            *)

LEMMA PwmOutcomes ==
    ASSUME NEW op \in PwmSetters, NEW d, NEW r \in PwmSet(op, d)
    PROVE  r[1] \in BOOLEAN /\ r[2] \in BOOLEAN
<1>1. \E exists : r \in Written(exists)
  BY DEF PwmSetters, PwmSet, PwmSetPeriod, PwmSetDutyCycle, PwmSetEnable
<1> QED
  BY <1>1, WrittenOutcomes

LEMMA PwmSets ==
    ASSUME DeviceInv, kind = "pwm", NEW op \in PwmSetters, PwmSetter(op), UNCHANGED <<kind, exited>>
    PROVE  DeviceInv'
<1>1. /\ Running /\ dev.binding /\ dev.struct /\ New \in Nat /\ New = Len(reqs) + 1
      /\ dev \in DeviceState
  BY Parts DEF PwmSetter, CanCall, Wrapped
<1> PICK n : n = New
  OBVIOUS
<1> PICK d : d = [dev EXCEPT !.slot[op] = n]
  OBVIOUS
<1>2. op \in OpNames /\ op \in Fields /\ op \notin {"close", "open"}
  BY DEF OpNames, Fields, PwmSetters
<1>3. /\ d \in DeviceState /\ d.slot[op] = n /\ d.binding = dev.binding
      /\ d.struct = dev.struct /\ d.fd = dev.fd /\ d.edge = dev.edge
      /\ d.thread = dev.thread /\ d.emitter = dev.emitter
  BY <1>1, <1>2 DEF DeviceState
<1>4. CASE PwmTorn /\ Crash("race") /\ use' = use \cup Usage(op)
  <2>1. \E j \in Asked : Opens(j)
    BY <1>4 DEF PwmTorn, InState, Asked, Opens
  <2>2. "early" \in use' /\ use' \cap Harmful # {}
    BY <1>4, <2>1, UsageFacts DEF Harmful
  <2>3. ExitCloses' /\ exited' \in BOOLEAN
    BY <1>1 DEF ExitCloses, DeviceInv, TypePart, Running
  <2> QED
    BY <1>1, <1>4, <2>2, <2>3, CrashKeeps
<1>5. CASE Submit(op, n, d)
  <2>1. reqs'[n].op = op /\ reqs'[n].arg = n /\ reqs'[n].st = "queued" /\ dev' = d
    BY <1>1, <1>2, <1>5, Submitted
  <2>2. InPlace(n)'
    BY <1>2, <1>3, <2>1 DEF InPlace
  <2> QED
    BY <1>1, <1>2, <1>3, <1>5, <2>2, SubmitKeeps
<1>6. ASSUME NEW r \in PwmSet(op, d), Sync(op, n, r[1], d, Transfer(r[2], n, n))
      PROVE  DeviceInv'
  <2> PICK ok, sent : ok = r[1] /\ sent = r[2]
    OBVIOUS
  <2>1. ok \in BOOLEAN /\ sent \in BOOLEAN /\ Sync(op, n, ok, d, Transfer(sent, n, n))
    BY <1>6, PwmOutcomes
  <2> QED
    BY <1>1, <1>2, <1>3, <2>1, CallsTransfer
<1> QED
  BY <1>4, <1>5, <1>6 DEF PwmSetter, PwmSetSync, PwmRequest

LEMMA PwmCloses ==
    ASSUME DeviceInv, Running, kind = "pwm", dev.binding, PwmCloseSync, UNCHANGED kind,
           exited' \in {exited, TRUE}
    PROVE  DeviceInv'
<1>1. dev.struct /\ dev \in DeviceState /\ New = Len(reqs) + 1 /\ New \in Nat
  BY Parts DEF Wrapped
<1>2. PICK g \in PwmClose : Sync("close", New, TRUE, [g EXCEPT !.binding = FALSE], wire)
  BY DEF PwmCloseSync
<1> PICK d : d = [g EXCEPT !.binding = FALSE]
  OBVIOUS
<1> PICK n : n = New
  OBVIOUS
<1> PICK w : w = wire
  OBVIOUS
<1>3. /\ d \in DeviceState /\ d.struct = dev.struct /\ d.edge = dev.edge
      /\ d.thread = dev.thread
  BY <1>1, <1>2 DEF DeviceState, PwmClose
<1>4. Sync("close", n, TRUE, d, w) /\ n = Len(reqs) + 1 /\ n \in Nat
  BY <1>1, <1>2
<1>5. "close" \in OpNames
  BY DEF OpNames
<1> QED
  BY <1>1, <1>3, <1>4, <1>5, SyncCallKeeps DEF Wrapped

LEMMA PwmWorks ==
    ASSUME DeviceInv, kind = "pwm", NEW i \in Asked, PwmWorker(i), UNCHANGED <<kind, exited>>
    PROVE  DeviceInv'
<1>1. dev \in DeviceState /\ dev.slot \in [Fields -> Nat] /\ reqs[i].saw \in Nat
  BY Parts
<1>2. CASE WorkerStart(i, dev.slot[Field(reqs[i].op)])
  <2> PICK saw : saw = dev.slot[Field(reqs[i].op)]
    OBVIOUS
  <2>1. saw \in Nat
    BY <1>1 DEF Field, Fields
  <2>2. WorkerStart(i, saw)
    BY <1>2
  <2> QED
    BY <2>1, <2>2, StartsInPlace
<1>3. CASE PwmOpenWorker(i)
  <2>1. /\ reqs[i].st = "running" /\ reqs[i].op = "open" /\ Running
        /\ "overlap" \notin use => InPlace(i)
    BY <1>3, WorkerRuns DEF PwmOpenWorker
  <2> PICK p : p = dev.slot["setPeriod"]
    OBVIOUS
  <2> PICK h : h = [dev EXCEPT !.fd = "open"]
    OBVIOUS
  <2>2. p \in Nat
    BY <1>1 DEF Fields
  <2>3. /\ h \in DeviceState /\ h.binding = dev.binding /\ h.struct = dev.struct
        /\ h.emitter = dev.emitter /\ h.edge = dev.edge /\ h.slot = dev.slot
        /\ h.live = dev.live /\ h.thread = dev.thread
    BY <1>1 DEF DeviceState
  <2>4. \/ WorkerEnd(i, FALSE, dev, wire)
        \/ \E ok \in BOOLEAN : WorkerEnd(i, ok, h, wire)
        \/ p # 0 /\ \E ok \in BOOLEAN : WorkerEnd(i, ok, h, Transfer(TRUE, i, p))
    BY <1>3 DEF PwmOpenWorker
  <2>5. CASE WorkerEnd(i, FALSE, dev, wire)
    <3> PICK d : d = dev
      OBVIOUS
    <3>1. WorkerEnd(i, FALSE, d, wire) /\ d \in DeviceState
      BY <1>1, <2>5
    <3> QED
      BY <2>1, <3>1, EndsSilently
  <2>6. CASE \E ok \in BOOLEAN : WorkerEnd(i, ok, h, wire)
    BY <2>1, <2>3, <2>6, EndsSilently
  <2>7. CASE p # 0 /\ \E ok \in BOOLEAN : WorkerEnd(i, ok, h, Transfer(TRUE, i, p))
    <3>1. "overlap" \notin use => p = reqs[i].arg
      BY <2>1, <2>7 DEF InPlace
    <3> PICK w : w = Transfer(TRUE, i, p)
      OBVIOUS
    <3>2. PICK ok \in BOOLEAN : WorkerEnd(i, ok, h, w)
      BY <2>7
    <3> QED
      BY <2>1, <2>2, <2>3, <3>1, <3>2, EndKeeps
  <2> QED
    BY <2>4, <2>5, <2>6, <2>7
<1>4. CASE /\ Works(i, PwmSetters)
           /\ \/ PwmTorn /\ Breaks("race")
              \/ \E r \in PwmSet(reqs[i].op, dev) :
                   WorkerEnd(i, r[1], dev, Transfer(r[2], i, reqs[i].saw))
  <2>1. /\ reqs[i].st = "running" /\ reqs[i].op \in PwmSetters /\ Running
        /\ "overlap" \notin use => InPlace(i)
    BY <1>4, WorkerRuns
  <2>2. "overlap" \notin use => reqs[i].saw = reqs[i].arg
    BY <2>1 DEF InPlace
  <2>3. CASE PwmTorn /\ Breaks("race")
    <3>1. PICK j \in Asked : Opens(j) /\ reqs[j].op = "open"
      BY <2>3 DEF PwmTorn, InState, Asked, Opens
    <3>2. IsBusy(i) /\ i # j
      BY <2>1, <3>1 DEF IsBusy, PwmSetters
    <3>3. use \cap Harmful # {}
      BY <3>1, <3>2 DEF DeviceInv, AlonePart, Harmful
    <3> QED
      BY <2>1, <2>3, <3>3, BreaksKeeps
  <2>4. ASSUME NEW r \in PwmSet(reqs[i].op, dev),
               WorkerEnd(i, r[1], dev, Transfer(r[2], i, reqs[i].saw))
        PROVE  DeviceInv'
    <3>1. r[1] \in BOOLEAN /\ r[2] \in BOOLEAN
      BY <2>1, PwmOutcomes
    <3> QED
      BY <1>1, <2>1, <2>2, <2>4, <3>1, EndsTransfer
  <2> QED
    BY <1>4, <2>3, <2>4
<1>5. CASE Works(i, {"close"}) /\ \E d \in PwmClose : WorkerEnd(i, TRUE, d, wire)
  <2>1. reqs[i].st = "running" /\ Running
    BY <1>5, WorkerRuns
  <2>2. PICK d \in PwmClose : WorkerEnd(i, TRUE, d, wire)
    BY <1>5
  <2>3. /\ d \in DeviceState /\ d.binding = dev.binding /\ d.struct = dev.struct
        /\ d.emitter = dev.emitter /\ d.edge = dev.edge /\ d.slot = dev.slot
        /\ d.live = dev.live /\ d.thread = dev.thread
    BY <1>1 DEF DeviceState, PwmClose
  <2> QED
    BY <2>1, <2>2, <2>3, EndsSilently
<1> QED
  BY <1>2, <1>3, <1>4, <1>5 DEF PwmWorker, PwmCommonWorker

LEMMA PwmKeeps ==
    ASSUME DeviceInv, kind = "pwm", PwmStep, UNCHANGED <<kind, exited>>
    PROVE  DeviceInv'
<1>1. ASSUME PwmCloseCall PROVE DeviceInv'
  <2>1. Running /\ dev.binding /\ dev.struct /\ New \in Nat
    BY <1>1, Parts DEF PwmCloseCall, CanCall, Wrapped
  <2>2. CASE PwmCloseSync
    BY <2>1, <2>2, PwmCloses
  <2>3. CASE Submit("close", New, dev)
    BY <2>1, <2>3, AsksPlainly
  <2> QED
    BY <1>1, <2>2, <2>3 DEF PwmCloseCall, PwmRequest
<1>2. ASSUME PwmDestroy PROVE DeviceInv'
  BY <1>2, CollectKeeps DEF PwmDestroy, Wrapped
<1>3. ASSUME PwmSetPeriodCall \/ PwmSetDutyCycleCall \/ PwmSetEnableCall PROVE DeviceInv'
  BY <1>3, PwmSets DEF PwmSetPeriodCall, PwmSetDutyCycleCall, PwmSetEnableCall, PwmSetters
<1>4. ASSUME NEW i, PwmAfterWorker(i) PROVE DeviceInv'
  BY <1>4, AnswersKeep, CallsKeep, ForgetKeeps DEF PwmAfterWorker, Wrapped, Closes
<1> QED
  BY <1>1, <1>2, <1>3, <1>4, PwmWorks DEF PwmStep, Asked

-----------------------------------------------------------------------------
(* The GPIO pin.                                                           *)

\* What closing the pin leaves.
LEMMA GpioOutcomes ==
    ASSUME DeviceInv, NEW r \in GpioClose
    PROVE  /\ r[1] \in BOOLEAN /\ r[2] \in DeviceState
           /\ r[2].binding = dev.binding /\ r[2].struct = dev.struct
           /\ r[2].emitter = dev.emitter /\ r[2].edge = dev.edge
           /\ r[2].slot = dev.slot /\ r[2].live = dev.live /\ r[2].thread = dev.thread
<1>1. dev \in DeviceState
  BY Parts
<1>2. PICK c \in Written(dev.fd = "open") :
        r = <<c[1], [dev EXCEPT !.value = "none", !.fd = IF c[2] THEN "none" ELSE @]>>
  BY DEF GpioClose, SystemioOpenWriteClose
<1>3. c[1] \in BOOLEAN /\ c[2] \in BOOLEAN
  BY WrittenOutcomes
<1>4. PICK g : g = [dev EXCEPT !.value = "none", !.fd = IF c[2] THEN "none" ELSE @]
  OBVIOUS
<1>5. /\ g \in DeviceState /\ g.binding = dev.binding /\ g.struct = dev.struct
      /\ g.emitter = dev.emitter /\ g.edge = dev.edge
      /\ g.slot = dev.slot /\ g.live = dev.live /\ g.thread = dev.thread
  BY <1>1, <1>4 DEF DeviceState
<1>6. r[1] = c[1] /\ r[2] = g
  BY <1>2, <1>4, Pair
<1> QED
  BY <1>3, <1>5, <1>6

LEMMA GpioCloses ==
    ASSUME DeviceInv, Running, kind = "gpio", dev.binding, GpioCloseSync, UNCHANGED kind,
           exited' \in {exited, TRUE}
    PROVE  DeviceInv'
<1>1. dev.struct /\ New = Len(reqs) + 1 /\ New \in Nat
  BY Parts DEF Wrapped
<1>2. PICK r \in GpioClose : Sync("close", New, r[1], [r[2] EXCEPT !.binding = ~r[1]], wire)
  BY DEF GpioCloseSync
<1> PICK ok : ok = r[1]
  OBVIOUS
<1> PICK g : g = r[2]
  OBVIOUS
<1> PICK d : d = [g EXCEPT !.binding = ~ok]
  OBVIOUS
<1> PICK n : n = New
  OBVIOUS
<1> PICK w : w = wire
  OBVIOUS
<1>3. /\ ok \in BOOLEAN /\ g \in DeviceState /\ g.struct = dev.struct /\ g.edge = dev.edge
      /\ g.thread = dev.thread
  BY GpioOutcomes
<1>4. /\ d \in DeviceState /\ d.struct = g.struct /\ d.edge = g.edge /\ d.thread = g.thread
  BY <1>3 DEF DeviceState
<1>5. Sync("close", n, ok, d, w) /\ n = Len(reqs) + 1 /\ n \in Nat
  BY <1>1, <1>2
<1>6. "close" \in OpNames
  BY DEF OpNames
<1> QED
  BY <1>1, <1>3, <1>4, <1>5, <1>6, SyncCallKeeps DEF Wrapped

\* The outcomes of setting the edge.
LEMMA EdgeOutcomes ==
    ASSUME NEW d \in DeviceState, NEW e \in GpioSetEdge(d)
    PROVE  /\ e[1] \in BOOLEAN /\ e[2] \in DeviceState
           /\ e[2].binding = d.binding /\ e[2].struct = d.struct
           /\ e[2].emitter = d.emitter /\ e[2].edge = d.edge
           /\ e[2].slot = d.slot /\ e[2].live = d.live
           /\ e[2].thread # "none" => d.thread # "none" \/ d.edge
<1>1. PICK g : g = [d EXCEPT !.value = "open"]
  OBVIOUS
<1>2. PICK h : h = [d EXCEPT !.value = "open", !.thread = "start"]
  OBVIOUS
<1>3. \/ e = <<TRUE, d>> \/ e = <<FALSE, d>> \/ e = <<FALSE, g>>
      \/ e = <<FALSE, h>> /\ d.edge
  BY <1>1, <1>2 DEF GpioSetEdge
<1>4. e[1] \in BOOLEAN /\ (e[2] = d \/ e[2] = g \/ (e[2] = h /\ d.edge))
  <2>1. ASSUME NEW a \in BOOLEAN, NEW b, e = <<a, b>> PROVE e[1] \in BOOLEAN /\ e[2] = b
    BY <2>1, Pair
  <2>2. CASE e = <<TRUE, d>>
    BY <2>1, <2>2
  <2>3. CASE e = <<FALSE, d>>
    BY <2>1, <2>3
  <2>4. CASE e = <<FALSE, g>>
    BY <2>1, <2>4
  <2>5. CASE e = <<FALSE, h>> /\ d.edge
    BY <2>1, <2>5
  <2> QED
    BY <1>3, <2>2, <2>3, <2>4, <2>5
<1>5. /\ g \in DeviceState /\ g.binding = d.binding /\ g.struct = d.struct
      /\ g.emitter = d.emitter /\ g.edge = d.edge
      /\ g.slot = d.slot /\ g.live = d.live /\ g.thread = d.thread
  BY <1>1 DEF DeviceState
<1>6. /\ h \in DeviceState /\ h.binding = d.binding /\ h.struct = d.struct
      /\ h.emitter = d.emitter /\ h.edge = d.edge
      /\ h.slot = d.slot /\ h.live = d.live
  BY <1>2 DEF DeviceState
<1> QED
  BY <1>4, <1>5, <1>6

LEMMA GpioWorks ==
    ASSUME DeviceInv, kind = "gpio", NEW i \in Asked, GpioWorker(i), UNCHANGED <<kind, exited>>
    PROVE  DeviceInv'
<1>1. dev \in DeviceState /\ reqs[i].arg \in Nat
  BY Parts
<1>2. CASE WorkerStart(i, reqs[i].arg)
  BY <1>1, <1>2, StartsInPlace
<1>3. CASE GpioOpenWorker(i)
  <2>1. reqs[i].st = "running" /\ Running
    BY <1>3, WorkerRuns DEF GpioOpenWorker
  <2>2. PICK r \in SystemioDeviceOpen, dir \in GpioSetDirection :
          IF r[1] /\ dir
          THEN \E e \in GpioSetEdge([dev EXCEPT !.fd = r[2]]) : WorkerEnd(i, e[1], e[2], wire)
          ELSE WorkerEnd(i, FALSE, [dev EXCEPT !.fd = r[2]], wire)
    BY <1>3 DEF GpioOpenWorker
  <2>3. r[2] \in {"open", dev.fd}
    <3> PICK fd : fd = dev.fd
      OBVIOUS
    <3>1. \E a : r = <<a, "open">> \/ r = <<a, fd>>
      BY DEF SystemioDeviceOpen
    <3> QED
      BY <3>1, Pair
  <2>4. PICK d : d = [dev EXCEPT !.fd = r[2]]
    OBVIOUS
  <2>5. /\ d \in DeviceState /\ d.binding = dev.binding /\ d.struct = dev.struct
        /\ d.emitter = dev.emitter /\ d.edge = dev.edge /\ d.slot = dev.slot
        /\ d.live = dev.live /\ d.thread = dev.thread
    BY <1>1, <2>3, <2>4 DEF DeviceState
  <2>6. \/ \E e \in GpioSetEdge(d) : WorkerEnd(i, e[1], e[2], wire)
        \/ WorkerEnd(i, FALSE, d, wire)
    BY <2>2, <2>4
  <2>7. ASSUME NEW e \in GpioSetEdge(d), WorkerEnd(i, e[1], e[2], wire) PROVE DeviceInv'
    <3>1. PICK ok : ok = e[1]
      OBVIOUS
    <3>2. PICK g : g = e[2]
      OBVIOUS
    <3>3. /\ ok \in BOOLEAN /\ g \in DeviceState
          /\ g.binding = d.binding /\ g.struct = d.struct
          /\ g.emitter = d.emitter /\ g.edge = d.edge
          /\ g.slot = d.slot /\ g.live = d.live
          /\ g.thread # "none" => d.thread # "none" \/ d.edge
      BY <2>5, <3>1, <3>2, EdgeOutcomes
    <3>4. WorkerEnd(i, ok, g, wire)
      BY <2>7, <3>1, <3>2
    <3> QED
      BY <2>1, <2>5, <3>3, <3>4, EndsSilently
  <2>8. CASE WorkerEnd(i, FALSE, d, wire)
    BY <2>1, <2>5, <2>8, EndsSilently
  <2> QED
    BY <2>6, <2>7, <2>8
<1>4. CASE GpioWriteWorker(i)
  <2>1. reqs[i].st = "running" /\ Running
    BY <1>4, WorkerRuns DEF GpioWriteWorker
  <2>2. PICK r \in GpioWrite : WorkerEnd(i, r[1], dev, Transfer(r[2], i, reqs[i].arg))
    BY <1>4 DEF GpioWriteWorker
  <2>3. r[1] \in BOOLEAN /\ r[2] \in BOOLEAN
    BY WrittenOutcomes DEF GpioWrite, SystemioOpenWriteClose
  <2> QED
    BY <1>1, <2>1, <2>2, <2>3, EndsTransfer
<1>5. CASE GpioReadWorker(i)
  <2>1. reqs[i].st = "running" /\ Running
    BY <1>5, WorkerRuns DEF GpioReadWorker
  <2>2. PICK ok \in BOOLEAN : WorkerEnd(i, ok, dev, wire)
    BY <1>5 DEF GpioReadWorker, GpioRead, SystemioOpenReadClose
  <2> PICK d : d = dev
    OBVIOUS
  <2>3. WorkerEnd(i, ok, d, wire) /\ d \in DeviceState
    BY <1>1, <2>2
  <2> QED
    BY <2>1, <2>3, EndsSilently
<1>6. CASE GpioCloseWorker(i)
  <2>1. reqs[i].st = "running" /\ Running
    BY <1>6, WorkerRuns DEF GpioCloseWorker
  <2>2. PICK r \in GpioClose : WorkerEnd(i, r[1], r[2], wire)
    BY <1>6 DEF GpioCloseWorker
  <2> PICK ok : ok = r[1]
    OBVIOUS
  <2> PICK d : d = r[2]
    OBVIOUS
  <2>3. /\ ok \in BOOLEAN /\ d \in DeviceState /\ d.binding = dev.binding
        /\ d.struct = dev.struct /\ d.emitter = dev.emitter /\ d.edge = dev.edge
        /\ d.slot = dev.slot /\ d.live = dev.live /\ d.thread = dev.thread
    BY GpioOutcomes
  <2>4. WorkerEnd(i, ok, d, wire)
    BY <2>2
  <2> QED
    BY <2>1, <2>3, <2>4, EndsSilently
<1> QED
  BY <1>2, <1>3, <1>4, <1>5, <1>6 DEF GpioWorker

\* The thread that waits for edges.
LEMMA EdgeKeeps ==
    ASSUME DeviceInv, kind = "gpio", GpioEdgeDetection, UNCHANGED <<kind, exited>>
    PROVE  DeviceInv'
<1>1. dev.thread # "none" /\ Running
  BY DEF GpioEdgeDetection, GpioGetValueFd, GpioEdgePoll, GpioEmitChangeEvent
<1>2. CASE ThreadCrash
  <2>1. use \cap Harmful # {}
    BY <1>1 DEF DeviceInv, EdgePart, Harmful
  <2> QED
    BY <1>1, <1>2, <2>1, BreaksKeeps DEF ThreadCrash
<1>3. ASSUME NEW to \in {"poll", "ended", "emit", "check"}, ThreadGoes(to)
      PROVE  DeviceInv'
  <2> PICK d : d = [dev EXCEPT !.thread = to]
    OBVIOUS
  <2>1. dev \in DeviceState
    BY Parts
  <2>2. /\ d \in DeviceState /\ d.binding = dev.binding /\ d.slot = dev.slot /\ d.live = dev.live
        /\ d.emitter = dev.emitter /\ d.edge = dev.edge /\ d.fd = dev.fd
        /\ d.struct = dev.struct
    BY <2>1 DEF DeviceState
  <2>3. dev' = d /\ UNCHANGED <<reqs, queue, finished, wire, use, fault>>
    BY <1>3 DEF ThreadGoes
  <2> QED
    BY <1>1, <2>2, <2>3, DevKeeps
<1>4. ThreadCrash \/ \E to \in {"poll", "ended", "emit", "check"} : ThreadGoes(to)
  BY DEF GpioEdgeDetection, GpioGetValueFd, GpioEdgePoll, GpioEmitChangeEvent
<1> QED
  BY <1>2, <1>3, <1>4

LEMMA GpioKeeps ==
    ASSUME DeviceInv, kind = "gpio", GpioStep, UNCHANGED <<kind, exited>>
    PROVE  DeviceInv'
<1>1. ASSUME CanCall, dev.binding PROVE Running /\ dev.struct /\ New \in Nat
  BY <1>1, Parts DEF CanCall, Wrapped
<1>2. ASSUME GpioCloseCall PROVE DeviceInv'
  <2>1. Running /\ dev.binding /\ dev.struct /\ New \in Nat
    BY <1>1, <1>2 DEF GpioCloseCall
  <2>2. CASE GpioCloseSync
    BY <2>1, <2>2, GpioCloses
  <2>3. CASE Submit("close", New, dev)
    BY <2>1, <2>3, AsksPlainly
  <2> QED
    BY <1>2, <2>2, <2>3 DEF GpioCloseCall, GpioRequest
<1>3. ASSUME GpioWriteCall PROVE DeviceInv'
  <2>1. Running /\ dev.binding /\ dev.struct /\ New \in Nat
    BY <1>1, <1>3 DEF GpioWriteCall
  <2>2. CASE Submit("write", New, dev)
    BY <2>1, <2>2, AsksPlainly
  <2>3. ASSUME NEW r \in GpioWrite, Sync("write", New, r[1], dev, Transfer(r[2], New, New))
        PROVE  DeviceInv'
    <3> PICK ok, sent : ok = r[1] /\ sent = r[2]
      OBVIOUS
    <3> PICK w : w = Transfer(sent, New, New)
      OBVIOUS
    <3>1. ok \in BOOLEAN /\ sent \in BOOLEAN
      BY WrittenOutcomes DEF GpioWrite, SystemioOpenWriteClose
    <3>2. Sync("write", New, ok, dev, w) /\ \E y \in BOOLEAN : w = Transfer(y, New, New)
      BY <2>3, <3>1
    <3> QED
      BY <2>1, <3>1, <3>2, CallsPlainly
  <2> QED
    BY <1>3, <2>2, <2>3 DEF GpioWriteCall, GpioRequest
<1>4. ASSUME GpioReadCall PROVE DeviceInv'
  <2>1. Running /\ dev.binding /\ dev.struct /\ New \in Nat
    BY <1>1, <1>4 DEF GpioReadCall
  <2>2. CASE Submit("read", New, dev)
    BY <2>1, <2>2, AsksPlainly
  <2>3. ASSUME NEW ok \in BOOLEAN, Sync("read", New, ok, dev, wire)
        PROVE  DeviceInv'
    BY <2>1, <2>3, CallsPlainly
  <2> QED
    BY <1>4, <2>2, <2>3 DEF GpioReadCall, GpioRequest, GpioRead, SystemioOpenReadClose
<1>5. ASSUME GpioDestroy PROVE DeviceInv'
  BY <1>5, CollectKeeps DEF GpioDestroy, Wrapped
<1>6. ASSUME NEW i \in Asked, GpioAfterWorker(i) PROVE DeviceInv'
  <2> PICK got : got = IF reqs[i].op = "read" /\ reqs[i].ok THEN i ELSE 0
    OBVIOUS
  <2>1. got \in {0, i} /\ got \in Nat
    BY Parts
  <2>2. (~Closes(i) /\ AfterWork(i, "called", got, dev)) \/ CloseReports(i) \/ Forget(i)
    BY <1>6 DEF GpioAfterWorker, Closes
  <2> QED
    BY <2>1, <2>2, AnswersKeep, CallsKeep, ForgetKeeps DEF Wrapped
<1> QED
  BY <1>2, <1>3, <1>4, <1>5, <1>6, GpioWorks, EdgeKeeps DEF GpioStep, Asked

-----------------------------------------------------------------------------
(* The I2C bus and the ADC pin.                                            *)

\* A device that was freed in close() is used again.
LEMMA DanglingKeeps ==
    ASSUME DeviceInv, Running, kind \in {"i2c", "adc"}, ~dev.struct, Crash("freed"), NEW op,
           use' = use \cup Usage(op), UNCHANGED <<kind, exited>>
    PROVE  DeviceInv'
<1>1. \E i \in Asked : reqs[i].st \in {"called", "sync"} /\ Closes(i)
  BY DEF DeviceInv, FreedPart, Wrapped
<1>2. "after" \in use' /\ use' \cap Harmful # {}
  BY <1>1, UsageFacts DEF Harmful
<1>3. exited' \in BOOLEAN /\ ExitCloses'
  BY DEF DeviceInv, TypePart, ExitCloses, Running
<1> QED
  BY <1>2, <1>3, CrashKeeps

\* A synchronous call that changes the slave address, or that closes and frees.
LEMMA FreeingKeeps ==
    ASSUME DeviceInv, Running, kind \in {"i2c", "adc"}, dev.struct, NEW op \in {"setAddress", "close"},
           NEW d \in DeviceState, Sync(op, New, TRUE, d, wire), UNCHANGED <<kind, exited>>,
           d.binding = dev.binding, d.edge = dev.edge, d.thread = dev.thread,
           (d.fd = dev.fd /\ d.struct = dev.struct) \/ op = "close"
    PROVE  DeviceInv'
<1> PICK n : n = New
  OBVIOUS
<1> PICK w : w = wire
  OBVIOUS
<1>1. n = Len(reqs) + 1 /\ n \in Nat /\ dev.binding /\ kind \notin Wrapped
  BY Parts DEF Wrapped
<1>2. op \in OpNames /\ op # "open"
  BY DEF OpNames
<1>3. Sync(op, n, TRUE, d, w)
  OBVIOUS
<1> QED
  BY <1>1, <1>2, <1>3, SyncCallKeeps

LEMMA I2cWorks ==
    ASSUME DeviceInv, kind = "i2c", NEW i \in Asked, I2cWorker(i), UNCHANGED <<kind, exited>>
    PROVE  DeviceInv'
<1>1. dev \in DeviceState /\ reqs[i].arg \in Nat /\ dev.slot["data"] \in Nat
  BY Parts
<1>2. CASE WorkerStart(i, reqs[i].arg)
  BY <1>1, <1>2, StartsInPlace
<1>3. CASE I2cOpenWorker(i)
  <2>1. reqs[i].st = "running" /\ Running
    BY <1>3, WorkerRuns DEF I2cOpenWorker
  <2>2. PICK ok \in BOOLEAN :
          WorkerEnd(i, ok, [dev EXCEPT !.fd = IF ok THEN "open" ELSE "none"], wire)
    BY <1>3 DEF I2cOpenWorker
  <2> PICK d : d = [dev EXCEPT !.fd = IF ok THEN "open" ELSE "none"]
    OBVIOUS
  <2>3. /\ d \in DeviceState /\ d.binding = dev.binding /\ d.struct = dev.struct
        /\ d.emitter = dev.emitter /\ d.edge = dev.edge /\ d.slot = dev.slot
        /\ d.live = dev.live /\ d.thread = dev.thread
    BY <1>1 DEF DeviceState
  <2> QED
    BY <2>1, <2>2, <2>3, EndsSilently
<1>4. CASE I2cWriteWorker(i) \/ I2cReadWorker(i)
  <2>1. /\ reqs[i].st = "running" /\ Running /\ reqs[i].op \in {"read", "write"}
        /\ "overlap" \notin use => InPlace(i)
    BY <1>4, WorkerRuns DEF I2cWriteWorker, I2cReadWorker
  <2>2. PICK r \in I2cTransfer : WorkerEnd(i, r[1], dev, Transfer(r[2], i, dev.slot["data"]))
    BY <1>4 DEF I2cWriteWorker, I2cReadWorker
  <2>3. "overlap" \notin use => reqs[i].arg = dev.slot["data"]
    BY <2>1 DEF InPlace
  <2>4. r[1] \in BOOLEAN /\ r[2] \in BOOLEAN
    BY WrittenOutcomes DEF I2cTransfer
  <2> PICK v : v = dev.slot["data"]
    OBVIOUS
  <2>5. v \in Nat /\ WorkerEnd(i, r[1], dev, Transfer(r[2], i, v))
    BY <1>1, <2>2
  <2> QED
    BY <2>1, <2>3, <2>4, <2>5, EndsTransfer
<1> QED
  BY <1>2, <1>3, <1>4 DEF I2cWorker

LEMMA I2cReports ==
    ASSUME DeviceInv, kind = "i2c", NEW i \in Asked, I2cAfterWork(i), UNCHANGED <<kind, exited>>
    PROVE  DeviceInv'
<1>1. /\ dev \in DeviceState /\ dev.slot \in [Fields -> Nat] /\ i \in Nat
  BY Parts
<1>2. CASE ~dev.struct /\ CanReport(i) /\ Breaks("freed")
  <2>1. IsBusy(i) /\ Running
    BY <1>2, Reports
  <2> QED
    BY <1>2, <2>1, BusyHolds, BreaksKeeps
<1>3. ASSUME NEW got \in {0, i}, NEW d, d = dev \/ d = [dev EXCEPT !.slot["data"] = 0],
             AfterWork(i, "called", got, d)
      PROVE  DeviceInv'
  <2>1. /\ d \in DeviceState /\ d.binding = dev.binding /\ d.struct = dev.struct
        /\ d.emitter = dev.emitter /\ d.edge = dev.edge /\ d.fd = dev.fd
        /\ d.thread = dev.thread
    BY <1>1, <1>3 DEF DeviceState, Fields
  <2>2. got \in Nat
    BY <1>1
  <2> QED
    BY <1>3, <2>1, <2>2, AfterKeeps
<1> QED
  BY <1>2, <1>3 DEF I2cAfterWork

LEMMA I2cKeeps ==
    ASSUME DeviceInv, kind = "i2c", I2cStep, UNCHANGED <<kind, exited>>
    PROVE  DeviceInv'
<1>1. /\ dev \in DeviceState /\ dev.slot["data"] \in Nat /\ New \in Nat /\ dev.binding
  BY Parts DEF Wrapped
<1>2. ASSUME CanCall, NEW op, I2cDangling(op) PROVE DeviceInv'
  BY <1>2, DanglingKeeps DEF I2cDangling, CanCall
<1>3. ASSUME CanCall, dev.struct, NEW op \in {"read", "write"}, I2cRequest(op) PROVE DeviceInv'
  BY <1>1, <1>3, AsksPlainly DEF I2cRequest, CanCall
<1>4. ASSUME CanCall, dev.struct,
             Sync("setAddress", New, TRUE, [dev EXCEPT !.slot["data"] = New], wire)
      PROVE  DeviceInv'
  <2> PICK d : d = [dev EXCEPT !.slot["data"] = New]
    OBVIOUS
  <2>1. /\ d \in DeviceState /\ d.binding = dev.binding /\ d.struct = dev.struct
        /\ d.edge = dev.edge /\ d.fd = dev.fd /\ d.thread = dev.thread
    BY <1>1 DEF DeviceState, Fields
  <2> QED
    BY <1>4, <2>1, FreeingKeeps DEF CanCall
<1>5. ASSUME CanCall, dev.struct,
             Sync("close", New, TRUE, I2cDestroy([dev EXCEPT !.fd = "none"]), wire)
      PROVE  DeviceInv'
  <2> PICK d : d = I2cDestroy([dev EXCEPT !.fd = "none"])
    OBVIOUS
  <2>1. /\ d \in DeviceState /\ d.binding = dev.binding
        /\ d.edge = dev.edge /\ d.thread = dev.thread
    BY <1>1 DEF DeviceState, I2cDestroy
  <2> QED
    BY <1>5, <2>1, FreeingKeeps DEF CanCall
<1> QED
  BY <1>2, <1>3, <1>4, <1>5, I2cWorks, I2cReports
  DEF I2cStep, I2cSetAddress, I2cWriteCall, I2cReadCall, I2cCloseCall, Asked

LEMMA AdcWorks ==
    ASSUME DeviceInv, kind = "adc", NEW i \in Asked, AdcWorker(i), UNCHANGED <<kind, exited>>
    PROVE  DeviceInv'
<1>1. dev \in DeviceState /\ reqs[i].arg \in Nat
  BY Parts
<1>2. CASE WorkerStart(i, reqs[i].arg)
  BY <1>1, <1>2, StartsInPlace
<1>3. CASE AdcOpenWorker(i) \/ AdcReadWorker(i) \/ AdcCloseWorker(i)
  <2>1. reqs[i].st = "running" /\ Running
    BY <1>3, WorkerRuns DEF AdcOpenWorker, AdcReadWorker, AdcCloseWorker
  <2>2. PICK ok \in BOOLEAN : WorkerEnd(i, ok, dev, wire)
    BY <1>3 DEF AdcOpenWorker, AdcReadWorker, AdcCloseWorker, AdcRead, AdcClose
  <2> PICK d : d = dev
    OBVIOUS
  <2>3. WorkerEnd(i, ok, d, wire) /\ d \in DeviceState
    BY <1>1, <2>2
  <2> QED
    BY <2>1, <2>3, EndsSilently
<1> QED
  BY <1>2, <1>3 DEF AdcWorker

LEMMA AdcReports ==
    ASSUME DeviceInv, kind = "adc", NEW i \in Asked, AdcAfterWork(i), UNCHANGED <<kind, exited>>
    PROVE  DeviceInv'
<1>1. dev \in DeviceState /\ i \in Nat /\ kind \notin Wrapped
  BY Parts DEF Wrapped
<1>2. CASE ~dev.struct /\ Returns(i) /\ Breaks("freed")
  <2>1. IsBusy(i) /\ Running
    BY <1>2 DEF Returns, InState, IsBusy
  <2> QED
    BY <1>2, <2>1, BusyHolds, BreaksKeeps
<1>3. CASE CloseReturns(i, AdcDestroy(dev))
  <2> PICK d : d = AdcDestroy(dev)
    OBVIOUS
  <2>1. /\ d \in DeviceState /\ d.binding = dev.binding
        /\ d.emitter = dev.emitter /\ d.edge = dev.edge /\ d.fd = dev.fd
        /\ d.thread = dev.thread
    BY <1>1 DEF DeviceState, AdcDestroy
  <2>2. CloseReturns(i, d)
    BY <1>3
  <2> QED
    BY <1>1, <2>1, <2>2, ReturnKeeps
<1>4. ASSUME NEW got \in {0, i}, AfterWork(i, "called", got, dev), ~Closes(i) PROVE DeviceInv'
  BY <1>1, <1>4, AnswersKeep
<1> QED
  BY <1>2, <1>3, <1>4, CallsKeep DEF AdcAfterWork, Closes

LEMMA AdcKeeps ==
    ASSUME DeviceInv, kind = "adc", AdcStep, UNCHANGED <<kind, exited>>
    PROVE  DeviceInv'
<1>1. dev \in DeviceState /\ New \in Nat /\ dev.binding
  BY Parts DEF Wrapped
<1>2. ASSUME CanCall, NEW op, AdcDangling(op) PROVE DeviceInv'
  BY <1>2, DanglingKeeps DEF AdcDangling, CanCall
<1>3. ASSUME CanCall, dev.struct, NEW op \in {"read", "close"}, AdcRequest(op) PROVE DeviceInv'
  BY <1>1, <1>3, AsksPlainly DEF AdcRequest, CanCall
<1>4. ASSUME CanCall, dev.struct, NEW ok \in BOOLEAN, Sync("read", New, ok, dev, wire)
      PROVE  DeviceInv'
  BY <1>1, <1>4, CallsPlainly DEF CanCall
<1>5. ASSUME CanCall, dev.struct, Sync("close", New, TRUE, AdcDestroy(dev), wire)
      PROVE  DeviceInv'
  <2> PICK d : d = AdcDestroy(dev)
    OBVIOUS
  <2>1. /\ d \in DeviceState /\ d.binding = dev.binding
        /\ d.edge = dev.edge /\ d.thread = dev.thread
    BY <1>1 DEF DeviceState, AdcDestroy
  <2> QED
    BY <1>5, <2>1, FreeingKeeps DEF CanCall
<1> QED
  BY <1>2, <1>3, <1>4, <1>5, AdcWorks, AdcReports
  DEF AdcStep, AdcReadCall, AdcReadSync, AdcCloseCall, AdcCloseSync, AdcRead, AdcClose, Asked

-----------------------------------------------------------------------------
(* The UART.                                                               *)

\* A call on a port whose handle is closed.
LEMMA UartNullKeeps ==
    ASSUME DeviceInv, Running, kind = "uart", NEW op, UartNull(op), UNCHANGED kind,
           exited' \in {exited, TRUE}
    PROVE  DeviceInv'
<1>1. /\ dev.binding /\ dev.fd = "closed" /\ Crash("null") /\ use' = use \cup Usage(op)
  BY DEF UartNull
<1>2. "overlap" \in use'
  <2>1. "overlap" \notin use => CloseBusy
    BY <1>1 DEF DeviceInv, UartPart
  <2>2. CloseBusy => ~Idle
    BY DEF CloseBusy, Idle
  <2> QED
    BY <1>1, <2>1, <2>2, UsageFacts
<1>3. use' \cap Harmful # {}
  BY <1>2 DEF Harmful
<1>4. ExitCloses' /\ exited' \in BOOLEAN
  BY <1>1 DEF ExitCloses, Crash, DeviceInv, TypePart
<1> QED
  BY <1>1, <1>3, <1>4, CrashKeeps

LEMMA UartCloses ==
    ASSUME DeviceInv, Running, kind = "uart", dev.binding, UartCloseSync, UNCHANGED kind,
           exited' \in {exited, TRUE}
    PROVE  DeviceInv'
<1>1. dev.struct /\ dev \in DeviceState /\ New = Len(reqs) + 1 /\ New \in Nat
  BY Parts DEF Wrapped
<1>2. CASE ~dev.emitter \/ dev.fd = "none"
  <2>1. PICK f : Crash(f) /\ use' = use \cup Usage("close")
    BY <1>2 DEF UartCloseSync
  <2>2. ~dev.emitter => CloseBusy
    BY DEF DeviceInv, UartPart
  <2>3. CloseBusy => ~Idle
    BY DEF CloseBusy, Idle
  <2>4. (~dev.emitter => "overlap" \in use' /\ "cut" \in use')
        /\ (dev.fd = "none" => "unopened" \in use')
    BY <2>1, <2>2, <2>3, UsageFacts DEF UsesDescriptor
  <2>5. use' \cap Harmful # {}
    BY <1>2, <2>4 DEF Harmful
  <2>6. ExitCloses' /\ exited' \in BOOLEAN
    BY <1>2, <2>1, <2>4 DEF ExitCloses, Crash, DeviceInv, TypePart
  <2> QED
    BY <2>1, <2>5, <2>6, CrashKeeps
<1>3. CASE ~(~dev.emitter \/ dev.fd = "none")
  <2>1. PICK g \in UartClose(FALSE) :
          Sync("close", New, TRUE, [UartDropEmitter(g) EXCEPT !.binding = FALSE], wire)
    BY <1>3 DEF UartCloseSync
  <2> PICK d : d = [UartDropEmitter(g) EXCEPT !.binding = FALSE]
    OBVIOUS
  <2> PICK n : n = New
    OBVIOUS
  <2> PICK w : w = wire
    OBVIOUS
  <2>2. g = dev \/ g = [dev EXCEPT !.fd = "closing"]
    BY DEF UartClose
  <2>3. g \in DeviceState /\ g.struct = dev.struct /\ g.edge = dev.edge /\ g.thread = dev.thread
    BY <1>1, <2>2 DEF DeviceState
  <2>4. /\ d \in DeviceState /\ d.struct = g.struct /\ d.edge = g.edge
        /\ d.thread = g.thread /\ ~d.binding
    BY <2>3 DEF DeviceState, UartDropEmitter
  <2>5. Sync("close", n, TRUE, d, w) /\ n = Len(reqs) + 1 /\ n \in Nat
    BY <1>1, <2>1
  <2>6. "close" \in OpNames
    BY DEF OpNames
  <2> QED
    BY <1>1, <2>3, <2>4, <2>5, <2>6, SyncCallKeeps DEF Wrapped
<1> QED
  BY <1>2, <1>3

LEMMA UartWrites ==
    ASSUME DeviceInv, kind = "uart", UartWriteCall, UNCHANGED <<kind, exited>>
    PROVE  DeviceInv'
<1>1. Running /\ dev \in DeviceState /\ New \in Nat /\ New = Len(reqs) + 1 /\ kind \in Wrapped
  BY Parts DEF UartWriteCall, CanCall, Wrapped
<1>2. CASE UartNull("write")
  BY <1>1, <1>2, UartNullKeeps
<1>3. CASE ~UartNull("write")
  <2> PICK n : n = New
    OBVIOUS
  <2> PICK d : d = [dev EXCEPT !.slot["data"] = n]
    OBVIOUS
  <2> PICK h : h = [d EXCEPT !.live = @ \cup {n}]
    OBVIOUS
  <2>1. /\ d \in DeviceState /\ d.slot["data"] = n /\ d.binding = dev.binding
        /\ d.struct = dev.struct /\ d.fd = dev.fd /\ d.edge = dev.edge
        /\ d.thread = dev.thread /\ d.emitter = dev.emitter
    BY <1>1 DEF DeviceState, Fields
  <2>2. /\ h \in DeviceState /\ h.slot["data"] = n /\ n \in h.live /\ h.binding = dev.binding
        /\ h.struct = dev.struct /\ h.fd = dev.fd /\ h.edge = dev.edge
        /\ h.thread = dev.thread /\ h.emitter = dev.emitter
    BY <1>1, <2>1, Zenon DEF DeviceState
  <2>3. /\ dev.binding
        /\ \/ Submit("write", n, h)
           \/ \E r \in UartWrite : Sync("write", n, r[1], d, Transfer(r[2], n, n))
    BY <1>3 DEF UartWriteCall, UartInstance, UartRequest
  <2>4. dev.struct /\ "write" \in OpNames
    BY <1>1, <2>3, Parts DEF OpNames
  <2>5. CASE Submit("write", n, h)
    <3>1. reqs'[n].op = "write" /\ reqs'[n].arg = n /\ reqs'[n].st = "queued" /\ dev' = h
      BY <1>1, <2>4, <2>5, Submitted
    <3>2. InPlace(n)'
      BY <2>2, <3>1 DEF InPlace
    <3> QED
      BY <1>1, <2>2, <2>3, <2>4, <2>5, <3>2, SubmitKeeps
  <2>6. ASSUME NEW r \in UartWrite, Sync("write", n, r[1], d, Transfer(r[2], n, n))
        PROVE  DeviceInv'
    <3> PICK ok, sent : ok = r[1] /\ sent = r[2]
      OBVIOUS
    <3>1. ok \in BOOLEAN /\ sent \in BOOLEAN /\ Sync("write", n, ok, d, Transfer(sent, n, n))
      BY <2>6, WrittenOutcomes DEF UartWrite
    <3> QED
      BY <1>1, <2>1, <2>3, <2>4, <3>1, CallsTransfer
  <2> QED
    BY <2>3, <2>5, <2>6
<1> QED
  BY <1>2, <1>3

LEMMA UartWorks ==
    ASSUME DeviceInv, kind = "uart", NEW i \in Asked, UartWorker(i), UNCHANGED <<kind, exited>>
    PROVE  DeviceInv'
<1>1. dev \in DeviceState /\ dev.slot["data"] \in Nat /\ reqs[i].saw \in Nat
  BY Parts
<1>2. CASE WorkerStart(i, dev.slot["data"])
  BY <1>1, <1>2, StartsInPlace
<1>3. CASE UartOpenWorker(i)
  <2>1. reqs[i].st = "running" /\ Running
    BY <1>3, WorkerRuns DEF UartOpenWorker
  <2>2. CASE Breaks("race")
    BY <2>1, <2>2, BreaksKeeps
  <2>3. CASE ~Breaks("race")
    <3>1. PICK d, ok : /\ WorkerEnd(i, ok, d, wire) /\ ok \in BOOLEAN
                       /\ d = dev \/ d = [dev EXCEPT !.fd = "open"]
      BY <1>3, <2>3 DEF UartOpenWorker
    <3>2. /\ d \in DeviceState /\ d.binding = dev.binding /\ d.struct = dev.struct
          /\ d.emitter = dev.emitter /\ d.edge = dev.edge /\ d.slot = dev.slot
          /\ d.live = dev.live /\ d.thread = dev.thread /\ d.fd \in {dev.fd, "open"}
      BY <1>1, <3>1 DEF DeviceState
    <3> QED
      BY <2>1, <3>1, <3>2, EndsSilently
  <2> QED
    BY <2>2, <2>3
<1>4. CASE UartWriteWorker(i)
  <2>1. /\ reqs[i].st = "running" /\ reqs[i].op = "write" /\ Running
        /\ "overlap" \notin use => InPlace(i)
    BY <1>4, WorkerRuns DEF UartWriteWorker
  <2>2. "overlap" \notin use => /\ reqs[i].saw = reqs[i].arg /\ reqs[i].saw \in dev.live
                                /\ dev.slot["data"] = reqs[i].saw
    BY <2>1 DEF InPlace
  <2>3. CASE (Breaks("released") \/ Breaks("overrun")) /\ "overlap" \in use
    BY <2>1, <2>3, BreaksKeeps DEF Harmful
  <2>4. ASSUME NEW r \in UartWrite, WorkerEnd(i, r[1], dev, Transfer(r[2], i, reqs[i].saw))
        PROVE  DeviceInv'
    <3>1. r[1] \in BOOLEAN /\ r[2] \in BOOLEAN
      BY WrittenOutcomes DEF UartWrite
    <3> QED
      BY <1>1, <2>1, <2>2, <2>4, <3>1, EndsTransfer
  <2> QED
    BY <1>4, <2>2, <2>3, <2>4 DEF UartWriteWorker
<1>5. CASE UartCloseWorker(i)
  <2>1. reqs[i].st = "running" /\ reqs[i].op = "close" /\ Running
    BY <1>5, WorkerRuns DEF UartCloseWorker
  <2>2. CASE dev.fd = "none"
    <3>1. Breaks("unopened")
      BY <1>5, <2>2 DEF UartCloseWorker
    <3>2. use \cap Harmful # {}
      BY <2>1, <2>2 DEF DeviceInv, OpenPart, UsesDescriptor, Harmful
    <3> QED
      BY <2>1, <3>1, <3>2, BreaksKeeps
  <2>3. CASE Breaks("race")
    BY <2>1, <2>3, BreaksKeeps
  <2>4. CASE dev.fd # "none" /\ ~Breaks("race")
    <3>1. PICK d \in UartClose(TRUE) : WorkerEnd(i, TRUE, d, wire)
      BY <1>5, <2>4 DEF UartCloseWorker
    <3>2. d = dev \/ d = [dev EXCEPT !.fd = "closing"] \/ d = [dev EXCEPT !.fd = "lost"]
      BY DEF UartClose
    <3>3. /\ d \in DeviceState /\ d.binding = dev.binding /\ d.struct = dev.struct
          /\ d.emitter = dev.emitter /\ d.edge = dev.edge /\ d.slot = dev.slot
          /\ d.live = dev.live /\ d.thread = dev.thread
      BY <1>1, <3>2 DEF DeviceState
    <3>4. Closes(i)
      BY <2>1 DEF Closes
    <3> QED
      BY <2>1, <3>1, <3>3, <3>4, EndsSilently
  <2> QED
    BY <2>2, <2>3, <2>4
<1> QED
  BY <1>2, <1>3, <1>4, <1>5 DEF UartWorker

LEMMA UartReports ==
    ASSUME DeviceInv, kind = "uart", NEW i \in Asked, UartAfterWorker(i), UNCHANGED <<kind, exited>>
    PROVE  DeviceInv'
<1>1. dev \in DeviceState /\ kind \in Wrapped
  BY Parts DEF Wrapped
<1>2. CASE UartAfterWrite(i)
  <2>1. CanReport(i) /\ reqs[i].op = "write"
    BY <1>2 DEF UartAfterWrite, AfterWork
  <2>2. IsBusy(i) /\ Running /\ ("overlap" \notin use => InPlace(i))
    BY <2>1, Reports
  <2>3. "overlap" \notin use => dev.slot["data"] \in dev.live
    BY <2>1, <2>2 DEF InPlace
  <2>4. ~dev.struct => use \cap Harmful # {}
    BY <2>2, BusyHolds
  <2>5. "overlap" \in use => use \cap Harmful # {}
    BY DEF Harmful
  <2>6. CASE use \cap Harmful # {} /\ Breaks("released")
    BY <2>2, <2>6, BreaksKeeps
  <2>7. CASE ~(use \cap Harmful # {} /\ Breaks("released"))
    <3> PICK d : d = [dev EXCEPT !.live = @ \ {dev.slot["data"]}]
      OBVIOUS
    <3>1. AfterWork(i, "called", 0, d)
      BY <1>2, <2>3, <2>4, <2>5, <2>7 DEF UartAfterWrite
    <3>2. /\ d \in DeviceState /\ d.binding = dev.binding /\ d.struct = dev.struct
          /\ d.emitter = dev.emitter /\ d.edge = dev.edge /\ d.fd = dev.fd
          /\ d.thread = dev.thread
      BY <1>1 DEF DeviceState
    <3>3. ~Closes(i)
      BY <2>1 DEF Closes
    <3> QED
      BY <3>1, <3>2, <3>3, AfterKeeps
  <2> QED
    BY <2>6, <2>7
<1>3. CASE reqs[i].op = "open" /\ AfterWork(i, "called", 0, dev)
  BY <1>3, AnswersKeep DEF Closes
<1> QED
  BY <1>1, <1>2, <1>3, CallsKeep, ForgetKeeps DEF UartAfterWorker

LEMMA UartKeeps ==
    ASSUME DeviceInv, kind = "uart", UartStep, UNCHANGED <<kind, exited>>
    PROVE  DeviceInv'
<1>1. /\ dev \in DeviceState /\ New \in Nat /\ New = Len(reqs) + 1 /\ kind \in Wrapped
      /\ (dev.binding => dev.struct)
  BY Parts DEF Wrapped
<1>2. ASSUME UartCloseCall PROVE DeviceInv'
  <2>1. Running
    BY <1>2 DEF UartCloseCall, CanCall
  <2>2. CASE UartNull("close")
    BY <2>1, <2>2, UartNullKeeps
  <2>3. CASE UartInstance /\ UartCloseSync
    BY <2>1, <2>3, UartCloses DEF UartInstance
  <2>4. CASE UartInstance /\ UartRequest("close", UartDropEmitter(dev))
    <3> PICK d : d = UartDropEmitter(dev)
      OBVIOUS
    <3> PICK n : n = New
      OBVIOUS
    <3>1. /\ d \in DeviceState /\ d.binding = dev.binding /\ d.struct = dev.struct
          /\ d.fd = dev.fd /\ d.edge = dev.edge /\ d.thread = dev.thread
      BY <1>1 DEF DeviceState, UartDropEmitter
    <3>2. Submit("close", n, d) /\ dev.binding /\ dev.struct
      BY <1>1, <2>4 DEF UartRequest, UartInstance
    <3>3. "close" \in OpNames /\ "close" \notin PwmSetters /\ "close" \notin SpiTransfers
      BY DEF OpNames, PwmSetters, SpiTransfers
    <3>4. reqs'[n].op = "close"
      BY <1>1, <3>2, <3>3, Submitted
    <3>5. InPlace(n)'
      BY <3>3, <3>4 DEF InPlace
    <3> QED
      BY <1>1, <2>1, <3>1, <3>2, <3>3, <3>5, SubmitKeeps
  <2> QED
    BY <1>2, <2>2, <2>3, <2>4 DEF UartCloseCall
<1>3. ASSUME UartDestroy PROVE DeviceInv'
  BY <1>1, <1>3, CollectKeeps DEF UartDestroy
<1>4. ASSUME UartHandleClosed PROVE DeviceInv'
  <2> PICK d : d = [dev EXCEPT !.fd = "closed"]
    OBVIOUS
  <2>1. /\ d \in DeviceState /\ d.binding = dev.binding /\ d.slot = dev.slot /\ d.live = dev.live
        /\ d.emitter = dev.emitter /\ d.edge = dev.edge /\ d.thread = dev.thread
        /\ d.struct = dev.struct /\ d.fd = "closed"
    BY <1>1 DEF DeviceState
  <2>2. dev.fd = "closing" /\ dev' = d /\ UNCHANGED <<reqs, queue, finished, wire, use, fault>>
    BY <1>4 DEF UartHandleClosed
  <2> QED
    BY <2>1, <2>2, DevKeeps
<1>5. ASSUME UartReadCb PROVE DeviceInv'
  <2>1. /\ Running /\ use' = use \cup {"lateInput"}
        /\ UNCHANGED <<dev, reqs, queue, finished, wire>>
    BY <1>5 DEF UartReadCb, LoopRuns, Crash
  <2>2. "lateInput" \in use' /\ use \subseteq use' /\ ("overlap" \notin use' => "cut" \notin use')
    BY <2>1 DEF DeviceInv, AlonePart
  <2>3. FaultHasCause'
    BY <2>2 DEF FaultHasCause, Harmful
  <2>4. ExitCloses' /\ exited' \in BOOLEAN
    BY <2>1 DEF ExitCloses, Running, DeviceInv, TypePart
  <2> QED
    BY <2>1, <2>2, <2>3, <2>4, UseKeeps
<1> QED
  BY <1>2, <1>3, <1>4, <1>5, UartWrites, UartWorks, UartReports DEF UartStep, Asked

-----------------------------------------------------------------------------
(* The whole system.                                                       *)

\* The constructors leave a device that nobody works for, but for the open.
LEMMA Constructs ==
    ASSUME NEW x \in DeviceKinds, NEW c \in Constructed(x)
    PROVE  /\ c[1] \in DeviceState /\ c[1].binding /\ c[1].struct /\ c[1].emitter
           /\ c[1].fd \in {"zero", "none"} /\ c[1].thread = "none"
           /\ c[1].edge => x = "gpio"
           /\ x = "uart" => c[1].fd = "none"
           /\ x = "pwm" => c[1].slot["setPeriod"] \in {0, 1}
           /\ c[2] \in Entry /\ c[2].op = "open" /\ c[2].st = "queued" /\ c[2].got = 0
           /\ x = "pwm" => c[2].arg = 1
<1>1. ASSUME NEW fd \in {"zero", "none"}
      PROVE  /\ Device(fd) \in DeviceState /\ Device(fd).binding /\ Device(fd).struct
             /\ Device(fd).emitter /\ Device(fd).fd = fd /\ Device(fd).thread = "none"
             /\ ~Device(fd).edge /\ Device(fd).slot = [f \in Fields |-> 0]
  BY DEF Device, DeviceState
<1>2. ASSUME NEW a \in Nat
      PROVE  /\ NewRequest("open", a, "queued") \in Entry /\ NewRequest("open", a, "queued").op = "open"
             /\ NewRequest("open", a, "queued").st = "queued" /\ NewRequest("open", a, "queued").got = 0
             /\ NewRequest("open", a, "queued").arg = a
  BY DEF NewRequest, Entry, OpNames
<1>3. CASE x \in {"spi", "i2c", "adc", "uart"}
  <2>1. \E fd \in {"zero", "none"}, a \in {0, 1} :
          c = <<Device(fd), NewRequest("open", a, "queued")>> /\ (x = "uart" => fd = "none")
    BY <1>3 DEF Constructed, SpiConstructor, I2cConstructor, AdcConstructor, UartConstructor,
                SpiCreate, I2cCreate, AdcCreate, UartCreate
  <2>2. PICK fd \in {"zero", "none"}, a \in {0, 1} :
          /\ c[1] = Device(fd) /\ c[2] = NewRequest("open", a, "queued")
          /\ x = "uart" => fd = "none"
    BY <2>1, Pair
  <2> QED
    BY <1>1, <1>2, <1>3, <2>2
<1>4. CASE x = "pwm"
  <2> PICK g : g = PwmCreate
    OBVIOUS
  <2> PICK h : h = [g EXCEPT !.slot["setPeriod"] = 1, !.slot["setDutyCycle"] = 1]
    OBVIOUS
  <2>1. \E d \in {g, h} : c = <<d, NewRequest("open", 1, "queued")>>
    BY <1>4 DEF Constructed, PwmConstructor, PwmSetConfiguration
  <2>2. PICK d \in {g, h} : c[1] = d /\ c[2] = NewRequest("open", 1, "queued")
    BY <2>1, Pair
  <2>3. /\ g \in DeviceState /\ g.binding /\ g.struct /\ g.emitter /\ g.fd = "none"
        /\ g.thread = "none" /\ ~g.edge /\ g.slot = [f \in Fields |-> 0]
    BY <1>1 DEF PwmCreate
  <2>4. /\ h \in DeviceState /\ h.binding /\ h.struct /\ h.emitter /\ h.fd = "none"
        /\ h.thread = "none" /\ ~h.edge
    BY <2>3 DEF DeviceState, Fields
  <2>5. h.slot["setPeriod"] = 1 /\ g.slot["setPeriod"] = 0
    BY <2>3 DEF DeviceState, Fields
  <2>6. /\ c[2] \in Entry /\ c[2].op = "open" /\ c[2].st = "queued" /\ c[2].got = 0
        /\ c[2].arg = 1
    BY <1>2, <2>2
  <2>7. CASE c[1] = g
    BY <1>4, <2>3, <2>5, <2>6, <2>7
  <2>8. CASE c[1] = h
    BY <1>4, <2>4, <2>5, <2>6, <2>8
  <2> QED
    BY <2>2, <2>7, <2>8
<1>5. CASE x = "gpio"
  <2> PICK g : g = GpioCreate
    OBVIOUS
  <2> PICK h : h = [g EXCEPT !.edge = TRUE]
    OBVIOUS
  <2>1. \E d \in {g, h} : c = <<d, NewRequest("open", 1, "queued")>>
    BY <1>5 DEF Constructed, GpioConstructor, GpioSetConfigurable
  <2>2. PICK d \in {g, h} : c[1] = d /\ c[2] = NewRequest("open", 1, "queued")
    BY <2>1, Pair
  <2>3. /\ g \in DeviceState /\ g.binding /\ g.struct /\ g.emitter /\ g.fd = "none"
        /\ g.thread = "none"
    BY <1>1 DEF GpioCreate
  <2>4. /\ h \in DeviceState /\ h.binding /\ h.struct /\ h.emitter /\ h.fd = "none"
        /\ h.thread = "none"
    BY <2>3 DEF DeviceState
  <2>5. c[2] \in Entry /\ c[2].op = "open" /\ c[2].st = "queued" /\ c[2].got = 0
    BY <1>2, <2>2
  <2>6. CASE c[1] = g
    BY <1>5, <2>3, <2>5, <2>6
  <2>7. CASE c[1] = h
    BY <1>5, <2>4, <2>5, <2>7
  <2> QED
    BY <2>2, <2>6, <2>7
<1> QED
  BY <1>3, <1>4, <1>5 DEF DeviceKinds

LEMMA DeviceInit ==
    ASSUME PeripheralsInit
    PROVE  DeviceInv
<1>1. PICK c \in Constructed(kind) : dev = c[1] /\ reqs = <<c[2]>>
  BY DEF PeripheralsInit
<1>2. kind \in DeviceKinds /\ exited = FALSE /\ fault = "none" /\ wire = <<>> /\ queue = <<1>> /\ finished = <<>>
  BY DEF PeripheralsInit
<1> PICK e : e = c[2]
  OBVIOUS
<1>3. /\ dev \in DeviceState /\ dev.binding /\ dev.struct /\ dev.emitter
      /\ dev.fd \in {"zero", "none"} /\ dev.thread = "none"
      /\ dev.edge => kind = "gpio"
      /\ kind = "uart" => dev.fd = "none"
      /\ kind = "pwm" => dev.slot["setPeriod"] \in {0, 1}
      /\ e \in Entry /\ e.op = "open" /\ e.st = "queued" /\ e.got = 0
      /\ kind = "pwm" => e.arg = 1
  BY <1>1, <1>2, Constructs
<1>4. reqs = <<e>> /\ Len(reqs) = 1 /\ reqs[1] = e /\ reqs \in Seq(Entry)
  BY <1>1, <1>3
<1>5. \A i \in Asked : i = 1 /\ reqs[i] = e
  BY <1>4 DEF Asked
<1>6. 1 \in Asked
  BY <1>4 DEF Asked
<1>7. use = {} \/ (use = {"edge"} /\ dev.edge)
  BY DEF PeripheralsInit
<1>8. dev.edge => "edge" \in use
  BY DEF PeripheralsInit
<1>9. TypePart
  <2>1. wire \in Seq([req : Nat, val : Nat])
    BY <1>2
  <2> QED
    BY <1>2, <1>3, <1>4, <2>1 DEF TypePart
<1>10. Lists(queue, "queued") /\ Lists(finished, "finished")
  BY <1>2, <1>3, <1>5, <1>6 DEF Lists
<1>11. AlonePart
  BY <1>3, <1>4, <1>5, <1>7 DEF AlonePart, Closes
<1>12. FreedPart /\ ClosedPart /\ UartPart /\ EdgePart
  <2>1. FreedPart /\ ClosedPart
    BY <1>3 DEF FreedPart, ClosedPart
  <2>2. UartPart
    BY <1>3 DEF UartPart
  <2>3. EdgePart
    BY <1>3, <1>8 DEF EdgePart
  <2> QED
    BY <2>1, <2>2, <2>3
<1>13. OpenPart
  BY <1>3, <1>5 DEF OpenPart, UsesDescriptor
<1>14. DataPart
  BY <1>3, <1>5 DEF DataPart, InPlace, SpiTransfers, PwmSetters
<1>15. WirePart
  BY <1>2, <1>3, <1>5 DEF WirePart
<1>16. FaultHasCause /\ ExitCloses
  BY <1>2 DEF FaultHasCause, ExitCloses
<1>17. OwnData
  BY <1>2, <1>3, <1>5 DEF OwnData, Asked
<1>18. OnceInOrder
  BY <1>2 DEF OnceInOrder
<1> QED
  BY <1>9, <1>10, <1>11, <1>12, <1>13, <1>14, <1>15, <1>16, <1>17, <1>18 DEF DeviceInv

\* Process 'exit'.
LEMMA ExitKeeps ==
    ASSUME DeviceInv, Exit
    PROVE  DeviceInv'
<1>1. Running /\ exited' = TRUE /\ UNCHANGED kind
  BY DEF Exit
<1>2. CASE kind \in Wrapped /\ dev.binding
  <2>1. ExitClose
    BY <1>2 DEF Exit
  <2> QED
    BY <1>1, <1>2, <2>1, SpiCloses, PwmCloses, GpioCloses, UartCloses, UartNullKeeps DEF ExitClose
<1>3. CASE ~(kind \in Wrapped /\ dev.binding)
  <2>1. UNCHANGED <<dev, reqs, queue, finished, wire, use, fault>>
    BY <1>3 DEF Exit
  <2>2. FaultHasCause'
    BY <1>1, <2>1 DEF FaultHasCause, Running
  <2>3. ExitCloses'
    BY <1>1, <1>3, <2>1 DEF DeviceInv, ClosedPart, ExitCloses
  <2>4. "overlap" \notin use' => "cut" \notin use'
    BY <2>1 DEF DeviceInv, AlonePart
  <2> QED
    BY <1>1, <2>1, <2>2, <2>3, <2>4, UseKeeps
<1> QED
  BY <1>2, <1>3

LEMMA DeviceStutter ==
    ASSUME DeviceInv, UNCHANGED poolVars
    PROVE  DeviceInv'
<1>1. /\ UNCHANGED <<kind, dev, reqs, queue, finished, wire, use, fault, exited>>
  BY DEF poolVars
<1>2. FaultHasCause' /\ ExitCloses' /\ exited' \in BOOLEAN
      /\ ("overlap" \notin use' => "cut" \notin use')
  BY <1>1 DEF DeviceInv, FaultHasCause, ExitCloses, Harmful, LoopRace, TypePart, AlonePart
<1> QED
  BY <1>1, <1>2, UseKeeps

LEMMA DeviceNext ==
    ASSUME DeviceInv, [PeripheralsNext]_poolVars
    PROVE  DeviceInv'
<1>1. ASSUME DeviceStep PROVE DeviceInv'
  BY <1>1, SpiKeeps, PwmKeeps, GpioKeeps, I2cKeeps, AdcKeeps, UartKeeps DEF DeviceStep
<1> QED
  BY <1>1, ExitKeeps, DeviceStutter DEF PeripheralsNext

LEMMA DeviceAlways == PeripheralsSpec => []DeviceInv
<1>1. PeripheralsInit => DeviceInv
  BY DeviceInit
<1>2. DeviceInv /\ [PeripheralsNext]_poolVars => DeviceInv'
  BY DeviceNext
<1> QED
  BY <1>1, <1>2, PTL DEF PeripheralsSpec

\* iotjs_reqwrap and the six peripheral modules: whatever the program, the threads, the
\* collector and 'exit' do, memory or a descriptor that is not the device's own is used only
\* after what the peripheral cannot stand.
THEOREM DeviceFaultsHaveCauses == PeripheralsSpec => []FaultHasCause
<1>1. DeviceInv => FaultHasCause
  BY DEF DeviceInv
<1> QED
  BY <1>1, DeviceAlways, PTL

\* The workers and after-work functions of the peripherals: each request has its own effect
\* and its own answer, for any number of requests and of threads of the pool.
THEOREM EachRequestItsOwn == PeripheralsSpec => []RequestsFaithful
<1>1. DeviceInv => RequestsFaithful
  BY DEF DeviceInv, RequestsFaithful
<1> QED
  BY <1>1, DeviceAlways, PTL

\* The handlers of 'exit' of spi.js, pwm.js, gpio.js and uart.js leave no device open, unless
\* a close failed or overlapped with other requests.
THEOREM ExitLeavesNoDevice == PeripheralsSpec => []ExitCloses
<1>1. DeviceInv => ExitCloses
  BY DEF DeviceInv
<1> QED
  BY <1>1, DeviceAlways, PTL

-----------------------------------------------------------------------------
(* The module loader, over a file system of its own.                       *)

CONSTANTS Files, Directories, Main, Ids, NativeIds, MainId, Cwds, FirstCwd, FixedDirs,
          MaxModules

VARIABLES cwd, cache, modules, native, stack, got, circular, starts

L == INSTANCE ModuleLoader

States == {"compiling", "complete", "threw"}

Frames == [kind : {"module"}, of : Nat] \cup [kind : {"native"}, of : NativeIds]

\* The module objects are records, whatever their ids and filenames are.
ModulesInv == \E I, F : modules \in Seq([id : I, filename : F, state : States])

\* What is on the stack is being compiled, and is there once.
StackInv ==
    /\ stack \in Seq(Frames)
    /\ \A i \in DOMAIN stack : stack[i].kind = "module" =>
          /\ stack[i].of \in DOMAIN modules
          /\ modules[stack[i].of].state = "compiling"
          /\ \A j \in DOMAIN stack : stack[j].kind = "module" /\ stack[i].of = stack[j].of => i = j

\* The cache holds complete modules only.
CacheInv ==
    \A p \in DOMAIN cache : cache[p] \in DOMAIN modules /\ modules[cache[p]].state = "complete"

Inv == ModulesInv /\ StackInv /\ CacheInv /\ L!ExportsComplete

\* A native module is in the cache from the start of its code on.
NativeInv ==
    /\ native \in [NativeIds -> States \cup {"none"}]
    /\ starts \in [NativeIds -> Nat]
    /\ \A id \in NativeIds : starts[id] <= 1 /\ (native[id] = "none" => starts[id] = 0)

-----------------------------------------------------------------------------
(* Native modules.                                                         *)

\* Native.require puts a module into its cache when it starts it.
LEMMA NativeRequireKeeps ==
    ASSUME NativeInv, NEW id \in NativeIds, L!NativeRequire(id)
    PROVE  NativeInv'
<1>1. CASE native[id] # "none"
  BY <1>1 DEF NativeInv, L!NativeRequire
<1>2. CASE native[id] = "none"
  <2>1. native' = [native EXCEPT ![id] = "compiling"] /\ starts' = [starts EXCEPT ![id] = @ + 1]
    BY <1>2 DEF L!NativeRequire
  <2>2. starts[id] = 0
    BY <1>2 DEF NativeInv
  <2> QED
    BY <2>1, <2>2 DEF NativeInv, States
<1> QED
  BY <1>1, <1>2

\* load() changes native modules through Native.require only.
LEMMA LoadKeepsNative ==
    ASSUME NativeInv, NEW id, NEW parent, L!Load(id, parent)
    PROVE  NativeInv'
<1>1. CASE id \in NativeIds /\ L!NativeRequire(id)
  BY <1>1, NativeRequireKeeps
<1>2. CASE UNCHANGED <<native, starts>>
  BY <1>2 DEF NativeInv
<1> QED
  BY <1>1, <1>2 DEF L!Load

\* The code of each native module is run at most once, in any circle of native
\* modules and after any exception (Native.require, js/iotjs.js).
THEOREM NativeRunsOnce == L!Spec => []L!NativeOnce
<1>1. L!Init => NativeInv
  BY DEF L!Init, NativeInv, States
<1>2. NativeInv /\ [L!Next]_(L!vars) => NativeInv'
  <2> SUFFICES ASSUME NativeInv, [L!Next]_(L!vars) PROVE NativeInv'
    OBVIOUS
  <2>1. CASE L!RunMain
    BY <2>1, LoadKeepsNative DEF L!RunMain
  <2>2. ASSUME NEW m \in DOMAIN modules, NEW id \in Ids \cup NativeIds, L!Require(m, id)
        PROVE  NativeInv'
    BY <2>2, LoadKeepsNative DEF L!Require
  <2>3. ASSUME NEW id \in NativeIds, L!NativeRequires(id)
        PROVE  NativeInv'
    BY <2>3, NativeRequireKeeps DEF L!NativeRequires
  <2>4. CASE L!CompileReturns
    <3>1. UNCHANGED starts /\ (UNCHANGED native \/ native' = [native EXCEPT ![L!Last(stack).of] = "complete"])
      BY <2>4 DEF L!CompileReturns
    <3> QED
      BY <3>1 DEF NativeInv, States
  <2>5. CASE L!CompileThrows
    <3>1. UNCHANGED starts /\ (UNCHANGED native \/ native' = [native EXCEPT ![L!Last(stack).of] = "threw"])
      BY <2>5 DEF L!CompileThrows
    <3> QED
      BY <3>1 DEF NativeInv, States
  <2>6. ASSUME NEW dir \in Cwds, L!Chdir(dir)
        PROVE  NativeInv'
    BY <2>6 DEF L!Chdir, NativeInv
  <2>7. CASE UNCHANGED L!vars
    BY <2>7 DEF L!vars, NativeInv
  <2> QED
    BY <2>1, <2>2, <2>3, <2>4, <2>5, <2>6, <2>7 DEF L!Next
<1>3. NativeInv => L!NativeOnce
  BY DEF NativeInv, L!NativeOnce
<1> QED
  BY <1>1, <1>2, <1>3, PTL DEF L!Spec

-----------------------------------------------------------------------------
(* User modules.                                                           *)

\* The frames that are left when the innermost one is gone.
LEMMA PopStack ==
    ASSUME StackInv, stack # <<>>
    PROVE  /\ Len(stack) \in DOMAIN stack /\ L!Last(stack) = stack[Len(stack)]
           /\ L!Last(stack) \in Frames
           /\ L!Front(stack) \in Seq(Frames)
           /\ \A i \in DOMAIN L!Front(stack) :
                 i \in DOMAIN stack /\ i # Len(stack) /\ L!Front(stack)[i] = stack[i]
<1>1. stack \in Seq(Frames) /\ Len(stack) \in Nat /\ Len(stack) > 0
  BY DEF StackInv
<1>2. L!Last(stack) = stack[Len(stack)] /\ Len(stack) \in DOMAIN stack
  BY <1>1 DEF L!Last
<1>3. L!Front(stack) = [i \in 1 .. Len(stack) - 1 |-> stack[i]]
  BY <1>1 DEF L!Front
<1>4. L!Front(stack) \in Seq(Frames)
  BY <1>1, <1>3
<1>5. \A i \in DOMAIN L!Front(stack) : i \in DOMAIN stack /\ i # Len(stack) /\ L!Front(stack)[i] = stack[i]
  BY <1>1, <1>3
<1> QED
  BY <1>1, <1>2, <1>4, <1>5

\* Setting the state of one module leaves the others and the domain.
LEMMA SetState ==
    ASSUME ModulesInv, NEW top \in DOMAIN modules, NEW st \in States,
           modules' = [modules EXCEPT ![top].state = st]
    PROVE  /\ ModulesInv'
           /\ DOMAIN modules' = DOMAIN modules
           /\ modules'[top].state = st /\ modules'[top].filename = modules[top].filename
           /\ \A m \in DOMAIN modules : m # top => modules'[m] = modules[m]
<1>1. PICK I, F : modules \in Seq([id : I, filename : F, state : States])
  BY DEF ModulesInv
<1>2. modules[top] \in [id : I, filename : F, state : States]
  <2>1. \A S, q : q \in Seq(S) => \A i \in DOMAIN q : q[i] \in S
    OBVIOUS
  <2> QED
    BY <1>1, <2>1
<1>3. [modules[top] EXCEPT !.state = st] \in [id : I, filename : F, state : States]
  BY <1>2
<1>4. modules' = [modules EXCEPT ![top] = [modules[top] EXCEPT !.state = st]]
  OBVIOUS
<1>5. modules' \in Seq([id : I, filename : F, state : States])
  BY <1>1, <1>3, <1>4
<1>6. /\ [modules[top] EXCEPT !.state = st].state = st
      /\ [modules[top] EXCEPT !.state = st].filename = modules[top].filename
  BY <1>2
<1>7. modules'[top].state = st /\ modules'[top].filename = modules[top].filename
  BY <1>1, <1>4, <1>6
<1> QED
  BY <1>1, <1>4, <1>5, <1>7 DEF ModulesInv

\* A native module that is started is on the stack, and changes no user's module.
LEMMA NativeKeeps ==
    ASSUME Inv, NEW id \in NativeIds, L!NativeRequire(id), UNCHANGED <<cache, modules, got>>
    PROVE  Inv'
<1>1. CASE UNCHANGED stack
  BY <1>1 DEF Inv, ModulesInv, StackInv, CacheInv, L!ExportsComplete
<1>2. CASE stack' = Append(stack, L!NativeModule(id))
  <2>1. stack \in Seq(Frames) /\ L!NativeModule(id) \in Frames /\ L!NativeModule(id).kind = "native"
    BY DEF Inv, StackInv, Frames, L!NativeModule
  <2>2. /\ stack' \in Seq(Frames)
        /\ \A i \in DOMAIN stack' : stack'[i].kind = "module" => i \in DOMAIN stack /\ stack'[i] = stack[i]
    BY <1>2, <2>1
  <2>3. StackInv'
    BY <2>2 DEF Inv, StackInv
  <2> QED
    BY <2>3 DEF Inv, ModulesInv, CacheInv, L!ExportsComplete
<1> QED
  BY <1>1, <1>2 DEF L!NativeRequire

\* load() keeps the invariant: it answers from the cache, or starts a new module.
LEMMA LoadKeeps ==
    ASSUME Inv, NEW id, NEW parent, L!Load(id, parent)
    PROVE  Inv'
<1>1. CASE id \in NativeIds /\ L!NativeRequire(id) /\ UNCHANGED <<cache, modules, got>>
  BY <1>1, NativeKeeps
<1>2. ASSUME NEW path, L!Cached(path), L!Answer(path, cache[path]), UNCHANGED <<cache, modules, stack>>
      PROVE  Inv'
  <2>1. modules[cache[path]].state = "complete"
    BY <1>2 DEF Inv, CacheInv, L!Cached
  <2>2. L!ExportsComplete'
    BY <1>2, <2>1 DEF Inv, L!Answer, L!ExportsComplete
  <2> QED
    BY <1>2, <2>2 DEF Inv, ModulesInv, StackInv, CacheInv
<1>3. ASSUME NEW path, L!LoadFile(id, path)
      PROVE  Inv'
  <2> DEFINE new == [id |-> id, filename |-> path, state |-> "compiling"]
             n == Len(modules)
  <2>1. PICK I, F : modules \in Seq([id : I, filename : F, state : States])
    BY DEF Inv, ModulesInv
  <2>2. modules' = Append(modules, new) /\ stack' = Append(stack, L!Module(n + 1)) /\ UNCHANGED <<cache, got>>
    BY <1>3 DEF L!LoadFile
  <2> HIDE DEF new
  <2>3. modules \in Seq([id : I \cup {id}, filename : F \cup {path}, state : States])
    <3>1. [id : I, filename : F, state : States]
             \subseteq [id : I \cup {id}, filename : F \cup {path}, state : States]
      OBVIOUS
    <3>2. \A S, T, q : q \in Seq(S) /\ S \subseteq T => q \in Seq(T)
      OBVIOUS
    <3> QED
      BY <2>1, <3>1, <3>2
  <2>4. new \in [id : I \cup {id}, filename : F \cup {path}, state : States] /\ new.state = "compiling"
    BY DEF new, States
  <2>5. modules' \in Seq([id : I \cup {id}, filename : F \cup {path}, state : States])
    BY <2>2, <2>3, <2>4
  <2>6. /\ n \in Nat /\ n + 1 \notin DOMAIN modules /\ n + 1 \in DOMAIN modules'
        /\ modules'[n + 1] = new
        /\ \A i \in DOMAIN modules : i \in DOMAIN modules' /\ modules'[i] = modules[i]
    BY <2>2, <2>3, <2>4
  <2>7. stack \in Seq(Frames) /\ L!Module(n + 1) \in Frames /\ L!Module(n + 1).of = n + 1
    BY <2>6 DEF Inv, StackInv, Frames, L!Module
  <2>8. /\ stack' \in Seq(Frames)
        /\ \A i \in DOMAIN stack' :
              \/ i \in DOMAIN stack /\ stack'[i] = stack[i]
              \/ i = Len(stack) + 1 /\ stack'[i].of = n + 1
    BY <2>2, <2>7
  <2>9. StackInv'
    BY <2>4, <2>6, <2>8 DEF Inv, StackInv
  <2>10. CacheInv' /\ L!ExportsComplete'
    BY <2>2, <2>6 DEF Inv, CacheInv, L!ExportsComplete
  <2> QED
    BY <2>5, <2>9, <2>10 DEF Inv, ModulesInv
<1> QED
  BY <1>1, <1>2, <1>3 DEF L!Load

\* The end of a module's code, by return or by an exception, keeps the invariant.
LEMMA CompileKeeps ==
    ASSUME Inv, L!CompileReturns \/ L!CompileThrows
    PROVE  Inv'
<1>1. /\ stack # <<>> /\ stack' = L!Front(stack)
  BY DEF L!CompileReturns, L!CompileThrows
<1> DEFINE top == L!Last(stack).of
<1>2. /\ Len(stack) \in DOMAIN stack /\ L!Last(stack) = stack[Len(stack)]
      /\ L!Last(stack) \in Frames
      /\ stack' \in Seq(Frames)
      /\ \A i \in DOMAIN stack' : i \in DOMAIN stack /\ i # Len(stack) /\ stack'[i] = stack[i]
  BY <1>1, PopStack DEF Inv
<1>3. CASE L!Last(stack).kind = "native"
  <2>1. UNCHANGED <<cache, modules, got>>
    BY <1>3 DEF L!CompileReturns, L!CompileThrows
  <2>2. StackInv'
    BY <1>2, <2>1 DEF Inv, StackInv
  <2> QED
    BY <2>1, <2>2 DEF Inv, ModulesInv, CacheInv, L!ExportsComplete
<1>4. CASE L!Last(stack).kind # "native"
  <2>1. /\ L!Last(stack).kind = "module" /\ top \in DOMAIN modules /\ modules[top].state = "compiling"
        /\ \A i \in DOMAIN stack' : stack'[i].kind = "module" => stack'[i].of # top
    <3>1. L!Last(stack).kind = "module"
      BY <1>2, <1>4 DEF Frames
    <3> QED
      BY <1>2, <3>1 DEF Inv, StackInv
  <2>2. PICK st \in States :
           /\ modules' = [modules EXCEPT ![top].state = st]
           /\ \/ UNCHANGED <<cache, got>>
              \/ /\ st = "complete"
                 /\ cache' = [p \in DOMAIN cache \cup {modules[top].filename} |->
                                 IF p = modules[top].filename THEN top ELSE cache[p]]
                 /\ got' = got \cup {<<modules[top].filename, top, "complete">>}
    BY <1>4 DEF L!CompileReturns, L!CompileThrows, States
  <2>3. /\ ModulesInv' /\ DOMAIN modules' = DOMAIN modules /\ modules'[top].state = st
        /\ \A m \in DOMAIN modules : m # top => modules'[m] = modules[m]
    BY <2>1, <2>2, SetState DEF Inv
  <2>4. StackInv'
    BY <1>2, <2>1, <2>3 DEF Inv, StackInv
  <2>5. \A p \in DOMAIN cache : cache[p] # top /\ cache[p] \in DOMAIN modules /\ modules[cache[p]].state = "complete"
    BY <2>1 DEF Inv, CacheInv
  <2>6. CacheInv' /\ L!ExportsComplete'
    BY <2>1, <2>2, <2>3, <2>5 DEF Inv, CacheInv, L!ExportsComplete
  <2> QED
    BY <2>3, <2>4, <2>6 DEF Inv
<1> QED
  BY <1>3, <1>4

\* A step keeps the invariant.
LEMMA StepKeeps == Inv /\ [L!Next]_(L!vars) => Inv'
<1> SUFFICES ASSUME Inv, [L!Next]_(L!vars) PROVE Inv'
  OBVIOUS
<1>1. CASE L!RunMain
  BY <1>1, LoadKeeps DEF L!RunMain
<1>2. ASSUME NEW m \in DOMAIN modules, NEW id \in Ids \cup NativeIds, L!Require(m, id)
      PROVE  Inv'
  BY <1>2, LoadKeeps DEF L!Require
<1>3. ASSUME NEW id \in NativeIds, L!NativeRequires(id)
      PROVE  Inv'
  BY <1>3, NativeKeeps DEF L!NativeRequires
<1>4. CASE L!CompileReturns \/ L!CompileThrows
  BY <1>4, CompileKeeps
<1>5. ASSUME NEW dir \in Cwds, L!Chdir(dir)
      PROVE  Inv'
  BY <1>5 DEF L!Chdir, Inv, ModulesInv, StackInv, CacheInv, L!ExportsComplete
<1>6. CASE UNCHANGED L!vars
  BY <1>6 DEF L!vars, Inv, ModulesInv, StackInv, CacheInv, L!ExportsComplete
<1> QED
  BY <1>1, <1>2, <1>3, <1>4, <1>5, <1>6 DEF L!Next

\* At the start there is no module.
LEMMA InitInv == L!Init => Inv
  BY DEF L!Init, Inv, ModulesInv, StackInv, CacheInv, L!ExportsComplete

\* Whatever requires what, in circles too, and whatever code throws: what
\* require() returns of a user's file has run to its end (iotjs_module_t.load).
THEOREM NothingHalfMade == L!Spec => []L!ExportsComplete
<1>1. Inv => L!ExportsComplete
  BY DEF Inv
<1> QED
  BY <1>1, InitInv, StepKeeps, PTL DEF L!Spec

-----------------------------------------------------------------------------
(* One module object of a file.                                            *)

\* The innermost frames of a file that is required in no circle: it is not cached, and
\* no second frame compiles it.
AloneInv ==
    \A i \in DOMAIN stack : stack[i].kind = "module" =>
        LET p == modules[stack[i].of].filename
        IN  p \notin circular =>
                /\ p \notin DOMAIN cache
                /\ \A j \in DOMAIN stack :
                      stack[j].kind = "module" /\ modules[stack[j].of].filename = p => i = j

\* What require() returned of such a file is what the cache holds.
GotInv == \A g \in got : g[1] \in DOMAIN cache /\ (g[1] \notin circular => cache[g[1]] = g[2])

SameInv == AloneInv /\ GotInv

\* Native modules do not matter.
LEMMA NativeKeepsSame ==
    ASSUME Inv, SameInv, NEW id \in NativeIds, L!NativeRequire(id),
           UNCHANGED <<cache, modules, got, circular>>
    PROVE  SameInv'
<1>1. CASE UNCHANGED stack
  BY <1>1 DEF SameInv, AloneInv, GotInv
<1>2. CASE stack' = Append(stack, L!NativeModule(id))
  <2>1. stack \in Seq(Frames) /\ L!NativeModule(id) \in Frames /\ L!NativeModule(id).kind = "native"
    BY DEF Inv, StackInv, Frames, L!NativeModule
  <2>2. \A i \in DOMAIN stack' :
           stack'[i].kind = "module" => i \in DOMAIN stack /\ stack'[i] = stack[i]
    BY <1>2, <2>1
  <2>3. AloneInv'
    BY <2>2 DEF SameInv, AloneInv
  <2> QED
    BY <2>3 DEF SameInv, GotInv
<1> QED
  BY <1>1, <1>2 DEF L!NativeRequire

\* load() makes a second frame of a file only in a circle.
LEMMA LoadKeepsSame ==
    ASSUME Inv, SameInv, NEW id, NEW parent, L!Load(id, parent)
    PROVE  SameInv'
<1>1. CASE id \in NativeIds /\ L!NativeRequire(id) /\ UNCHANGED <<cache, modules, got, circular>>
  BY <1>1, NativeKeepsSame
<1>2. ASSUME NEW path, L!Cached(path), L!Answer(path, cache[path]),
             UNCHANGED <<cache, modules, stack, circular>>
      PROVE  SameInv'
  <2>1. GotInv'
    BY <1>2 DEF SameInv, GotInv, L!Answer, L!Cached
  <2> QED
    BY <1>2, <2>1 DEF SameInv, AloneInv
<1>3. ASSUME NEW path, ~L!Cached(path), L!LoadFile(id, path)
      PROVE  SameInv'
  <2> DEFINE new == [id |-> id, filename |-> path, state |-> "compiling"]
             n == Len(modules)
  <2>1. /\ modules' = Append(modules, new) /\ stack' = Append(stack, L!Module(n + 1))
        /\ UNCHANGED <<cache, got>>
        /\ circular' = IF L!BeingCompiled(path) THEN circular \cup {path} ELSE circular
    BY <1>3 DEF L!LoadFile
  <2>2. new.filename = path
    OBVIOUS
  <2> HIDE DEF new
  <2>3. PICK S : modules \in Seq(S)
    BY DEF Inv, ModulesInv
  <2>4. /\ n \in Nat /\ modules'[n + 1] = new
        /\ \A i \in DOMAIN modules : modules'[i] = modules[i]
    BY <2>1, <2>3
  <2>5. stack \in Seq(Frames) /\ L!Module(n + 1).of = n + 1
    BY DEF Inv, StackInv, L!Module
  <2>6. /\ Len(stack) + 1 \in DOMAIN stack' /\ Len(stack) + 1 \notin DOMAIN stack
        /\ stack'[Len(stack) + 1].of = n + 1
        /\ \A i \in DOMAIN stack' :
              i # Len(stack) + 1 => i \in DOMAIN stack /\ stack'[i] = stack[i]
    BY <2>1, <2>5
  <2>7. \A i \in DOMAIN stack : stack[i].kind = "module" =>
           modules'[stack[i].of].filename = modules[stack[i].of].filename
    BY <2>4 DEF Inv, StackInv
  <2>8. modules'[stack'[Len(stack) + 1].of].filename = path
    BY <2>2, <2>4, <2>6
  <2>9. \A i \in DOMAIN stack :
           stack[i].kind = "module" /\ modules[stack[i].of].filename = path => path \in circular'
    BY <2>1 DEF L!BeingCompiled
  <2>10. circular \subseteq circular'
    BY <2>1
  <2>11. AloneInv'
    <3> SUFFICES ASSUME NEW i \in DOMAIN stack', stack'[i].kind = "module",
                        modules'[stack'[i].of].filename \notin circular'
                 PROVE  /\ modules'[stack'[i].of].filename \notin DOMAIN cache'
                        /\ \A j \in DOMAIN stack' :
                              /\ stack'[j].kind = "module"
                              /\ modules'[stack'[j].of].filename = modules'[stack'[i].of].filename
                              => i = j
      BY DEF AloneInv
    <3> DEFINE m == Len(stack) + 1
    <3>1. /\ \A j \in DOMAIN stack' : j # m => j \in DOMAIN stack /\ stack'[j] = stack[j]
          /\ modules'[stack'[m].of].filename = path
      BY <2>6, <2>8
    <3> HIDE DEF m, n
    <3>2. CASE i = m
      <4>1. path \notin DOMAIN cache' /\ path \notin circular'
        BY <1>3, <2>1, <3>1, <3>2 DEF L!Cached
      <4>2. ASSUME NEW j \in DOMAIN stack', stack'[j].kind = "module", j # m
            PROVE  modules'[stack'[j].of].filename # path
        BY <2>7, <2>9, <3>1, <4>1, <4>2
      <4> QED
        BY <3>1, <3>2, <4>1, <4>2
    <3>3. CASE i # m
      <4>1. /\ i \in DOMAIN stack /\ stack'[i] = stack[i] /\ stack[i].kind = "module"
            /\ modules'[stack'[i].of].filename = modules[stack[i].of].filename
        BY <2>7, <3>1, <3>3
      <4>2. /\ modules[stack[i].of].filename \notin circular
            /\ modules[stack[i].of].filename # path
        BY <2>9, <2>10, <4>1
      <4>3. /\ modules[stack[i].of].filename \notin DOMAIN cache
            /\ \A j \in DOMAIN stack :
                  stack[j].kind = "module"
                    /\ modules[stack[j].of].filename = modules[stack[i].of].filename => i = j
        BY <4>1, <4>2 DEF SameInv, AloneInv
      <4>4. ASSUME NEW j \in DOMAIN stack', stack'[j].kind = "module",
                   modules'[stack'[j].of].filename = modules'[stack'[i].of].filename
            PROVE  i = j
        <5>1. j # m
          BY <3>1, <4>1, <4>2, <4>4
        <5>2. j \in DOMAIN stack /\ stack'[j] = stack[j]
          BY <3>1, <5>1
        <5>3. modules[stack[j].of].filename = modules[stack[i].of].filename
          BY <2>7, <4>1, <4>4, <5>2
        <5> QED
          BY <4>3, <4>4, <5>2, <5>3
      <4> QED
        BY <2>1, <4>1, <4>3, <4>4
    <3> QED
      BY <3>2, <3>3
  <2>12. GotInv'
    BY <2>1, <2>10 DEF SameInv, GotInv
  <2> QED
    BY <2>11, <2>12 DEF SameInv
<1> QED
  BY <1>1, <1>2, <1>3 DEF L!Load

\* The end of a module's code caches its file for the first time, or in a circle.
LEMMA CompileKeepsSame ==
    ASSUME Inv, SameInv, L!CompileReturns \/ L!CompileThrows
    PROVE  SameInv'
<1>1. stack # <<>> /\ stack' = L!Front(stack) /\ UNCHANGED circular
  BY DEF L!CompileReturns, L!CompileThrows
<1> DEFINE top == L!Last(stack).of
           file == modules[top].filename
<1>2. /\ Len(stack) \in DOMAIN stack /\ L!Last(stack) = stack[Len(stack)]
      /\ L!Last(stack) \in Frames
      /\ \A i \in DOMAIN stack' : i \in DOMAIN stack /\ i # Len(stack) /\ stack'[i] = stack[i]
  BY <1>1, PopStack DEF Inv
<1>3. CASE L!Last(stack).kind = "native"
  <2>1. UNCHANGED <<cache, modules, got>>
    BY <1>3 DEF L!CompileReturns, L!CompileThrows
  <2>2. AloneInv'
    BY <1>1, <1>2, <2>1 DEF SameInv, AloneInv
  <2> QED
    BY <1>1, <2>1, <2>2 DEF SameInv, GotInv
<1>4. CASE L!Last(stack).kind # "native"
  <2>1. L!Last(stack).kind = "module" /\ top \in DOMAIN modules
    <3>1. L!Last(stack).kind = "module"
      BY <1>2, <1>4 DEF Frames
    <3> QED
      BY <1>2, <3>1 DEF Inv, StackInv
  <2>2. PICK st \in States :
           /\ modules' = [modules EXCEPT ![top].state = st]
           /\ \/ UNCHANGED <<cache, got>>
              \/ /\ cache' = [p \in DOMAIN cache \cup {file} |-> IF p = file THEN top ELSE cache[p]]
                 /\ got' = got \cup {<<file, top, "complete">>}
    BY <1>4 DEF L!CompileReturns, L!CompileThrows, States
  <2>3. \A m \in DOMAIN modules : modules'[m].filename = modules[m].filename
    BY <2>1, <2>2, SetState DEF Inv
  <2>4. \A i \in DOMAIN stack' : stack'[i].kind = "module" =>
           modules'[stack'[i].of].filename = modules[stack[i].of].filename
    BY <1>2, <2>3 DEF Inv, StackInv
  <2>5. file \notin circular =>
           /\ file \notin DOMAIN cache
           /\ \A i \in DOMAIN stack' : stack'[i].kind = "module" =>
                 modules'[stack'[i].of].filename # file
    BY <1>2, <2>1, <2>4 DEF SameInv, AloneInv
  <2>6. AloneInv'
    <3> SUFFICES ASSUME NEW i \in DOMAIN stack', stack'[i].kind = "module",
                        modules'[stack'[i].of].filename \notin circular'
                 PROVE  /\ modules'[stack'[i].of].filename \notin DOMAIN cache'
                        /\ \A j \in DOMAIN stack' :
                              /\ stack'[j].kind = "module"
                              /\ modules'[stack'[j].of].filename = modules'[stack'[i].of].filename
                              => i = j
      BY DEF AloneInv
    <3>1. modules'[stack'[i].of].filename \notin DOMAIN cache
      BY <1>1, <1>2, <2>4 DEF SameInv, AloneInv
    <3>2. modules'[stack'[i].of].filename # file
      BY <1>1, <2>5
    <3>3. modules'[stack'[i].of].filename \notin DOMAIN cache'
      BY <2>2, <3>1, <3>2
    <3> QED
      BY <1>1, <1>2, <2>4, <3>3 DEF SameInv, AloneInv
  <2>7. GotInv'
    <3>1. CASE UNCHANGED <<cache, got>>
      BY <1>1, <3>1 DEF SameInv, GotInv
    <3>2. CASE /\ cache' = [p \in DOMAIN cache \cup {file} |-> IF p = file THEN top ELSE cache[p]]
               /\ got' = got \cup {<<file, top, "complete">>}
      <4> HIDE DEF file, top
      <4>1. ASSUME NEW g \in got
            PROVE  g[1] \in DOMAIN cache' /\ (g[1] \notin circular' => cache'[g[1]] = g[2])
        <5>1. g[1] \in DOMAIN cache /\ (g[1] \notin circular => cache[g[1]] = g[2])
          BY DEF SameInv, GotInv
        <5>2. g[1] \notin circular => g[1] # file
          BY <2>5, <5>1
        <5> QED
          BY <1>1, <3>2, <5>1, <5>2
      <4>2. file \in DOMAIN cache' /\ cache'[file] = top
        BY <3>2
      <4> QED
        BY <3>2, <4>1, <4>2 DEF GotInv
    <3> QED
      BY <2>2, <3>1, <3>2
  <2> QED
    BY <2>6, <2>7 DEF SameInv
<1> QED
  BY <1>3, <1>4

\* All who require a file get the same module object, from whatever directory and after
\* whatever failed attempts, unless the file was required in a circle.
THEOREM OneModuleOfAFile == L!Spec => []L!SameModule
<1>1. L!Init => SameInv
  BY DEF L!Init, SameInv, AloneInv, GotInv
<1>2. Inv /\ SameInv /\ [L!Next]_(L!vars) => SameInv'
  <2> SUFFICES ASSUME Inv, SameInv, [L!Next]_(L!vars) PROVE SameInv'
    OBVIOUS
  <2>1. CASE L!RunMain
    BY <2>1, LoadKeepsSame DEF L!RunMain
  <2>2. ASSUME NEW m \in DOMAIN modules, NEW id \in Ids \cup NativeIds, L!Require(m, id)
        PROVE  SameInv'
    BY <2>2, LoadKeepsSame DEF L!Require
  <2>3. ASSUME NEW id \in NativeIds, L!NativeRequires(id)
        PROVE  SameInv'
    BY <2>3, NativeKeepsSame DEF L!NativeRequires
  <2>4. CASE L!CompileReturns \/ L!CompileThrows
    BY <2>4, CompileKeepsSame
  <2>5. ASSUME NEW dir \in Cwds, L!Chdir(dir)
        PROVE  SameInv'
    BY <2>5 DEF L!Chdir, SameInv, AloneInv, GotInv
  <2>6. CASE UNCHANGED L!vars
    BY <2>6 DEF L!vars, SameInv, AloneInv, GotInv
  <2> QED
    BY <2>1, <2>2, <2>3, <2>4, <2>5, <2>6 DEF L!Next
<1>3. SameInv => L!SameModule
  BY DEF SameInv, GotInv, L!SameModule
<1> QED
  BY <1>1, <1>2, <1>3, InitInv, StepKeeps, PTL DEF L!Spec
=============================================================================
