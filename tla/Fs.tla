--------------------------------- MODULE Fs ---------------------------------
(***************************************************************************)
(* The fs module (js/fs.js) on libuv's file requests                       *)
(* (iotjs_module_fs.c).                                                    *)
(*                                                                         *)
(* A call of JavaScript is a record.  What it asks of the operating system *)
(* is a request: an asynchronous one waits in the pool until a thread      *)
(* executes it, and then for the loop, which runs the continuation in      *)
(* fs.js; a synchronous one is executed on the JavaScript thread, which    *)
(* does nothing else meanwhile, while the pool goes on.                    *)
(*                                                                         *)
(* The unit of data is what one read or write moves: 1023 bytes, or the    *)
(* rest of them.  A unit is <<call that wrote it, its position>>.  The     *)
(* kernel k is a flat directory, inodes and descriptors; a path names no   *)
(* file (0), an empty directory (-1) or an inode.                          *)
(***************************************************************************)
EXTENDS Integers, Sequences, SequencesExt, FiniteSetsExt

CONSTANTS
    NumPaths,     \* bound: paths
    NumFds,       \* bound: descriptors (RLIMIT_NOFILE)
    MaxCalls,     \* bound: calls of the user
    Lengths,      \* bound: lengths of the data of writeFile()
    Kinds,        \* the functions the user calls
    MaxFaults,    \* bound: requests that fail though nothing is wrong with them
    MaxRounds     \* bound: writes with NaN for position and length

ASSUME ConstantsAssumption ==
    /\ {NumPaths, NumFds} \subseteq Nat \ {0}
    /\ {MaxCalls, MaxFaults, MaxRounds} \union Lengths \subseteq Nat
    /\ Kinds \subseteq {"readFile", "writeFile", "stat", "mkdir", "rmdir", "unlink",
                        "rename", "readdir"}

VARIABLES
    k,        \* the kernel: names, files, fds
    calls,    \* the calls so far
    pool,     \* requests that wait for a thread
    done,     \* requests that wait for the loop, with their outcomes, in order
    js,       \* the request the JavaScript thread is blocked on, if any
    faults    \* bound: requests that failed for no reason

vars == <<k, calls, pool, done, js, faults>>

Paths == 1..NumPaths
Fds == 1..NumFds
Inodes == 1..(MaxCalls + 1)
NoFd == [inode |-> 0, pos |-> 0, owner |-> 0, writable |-> FALSE]

-----------------------------------------------------------------------------
(***************************************************************************)
(* The handlers of iotjs_module_fs.c, each with what the system call it    *)
(* passes to libuv does: the kernel it leaves, whether it failed, and the  *)
(* result that AfterAsync() or AfterSync() hands to JavaScript.            *)
(***************************************************************************)
Outcome(kernel, val) == [k |-> kernel, err |-> FALSE, val |-> val]
Failure == [k |-> k, err |-> TRUE, val |-> <<>>]

FreeInode ==
    Min({i \in Inodes : /\ \A p \in Paths : k.names[p] # i
                        /\ \A f \in Fds : k.fds[f].inode # i})
FreeFds == {f \in Fds : k.fds[f] = NoFd}

\* Open, with the flags of 'r' and 'w': O_CREAT makes the file, O_TRUNC empties it.
Open(q) ==
    LET p == calls[q.call].path
        w == calls[q.call].kind = "writeFile"
        i == IF k.names[p] = 0 THEN FreeInode ELSE k.names[p]
        f == Min(FreeFds)
    IN  IF FreeFds = {} \/ (IF w THEN k.names[p] = -1 ELSE k.names[p] = 0) THEN Failure
        ELSE Outcome(
               [k EXCEPT
                  !.names[p] = i,
                  !.files = IF w THEN [@ EXCEPT ![i] = <<>>] ELSE @,
                  !.fds[f] = [inode |-> i, pos |-> 0, owner |-> q.call, writable |-> w]],
               <<f, i>>)

\* Read at the descriptor's own position; a directory cannot be read.
Read(q) ==
    LET f == calls[q.call].fd
        d == k.fds[f]
    IN  IF d.inode \in {0, -1} \/ d.writable THEN Failure
        ELSE IF d.pos >= Len(k.files[d.inode]) THEN Outcome(k, <<>>)
        ELSE Outcome([k EXCEPT !.fds[f].pos = @ + 1], <<k.files[d.inode][d.pos + 1]>>)

\* Write of q.n units at the position q.arg; what is skipped reads as zeros.
Write(q) ==
    LET d == k.fds[calls[q.call].fd]
        old == k.files[d.inode]
        Unit(i) == IF i = q.arg + 1 THEN <<q.call, i>>
                   ELSE IF i <= Len(old) THEN old[i] ELSE <<0, 0>>
    IN  IF ~d.writable THEN Failure
        ELSE IF q.n = 0 THEN Outcome(k, <<0>>)
        ELSE Outcome([k EXCEPT !.files[d.inode] =
                         [i \in 1..(IF Len(old) > q.arg THEN Len(old) ELSE q.arg + 1)
                            |-> Unit(i)]],
                     <<1>>)

Close(q) ==
    LET f == calls[q.call].fd
    IN  IF k.fds[f] = NoFd THEN Failure ELSE Outcome([k EXCEPT !.fds[f] = NoFd], <<>>)

\* MakeStatObject(): the kind of the file, and its size.
MakeStatObject(i) == IF i = -1 THEN <<-1, 0>> ELSE <<1, Len(k.files[i])>>

Stat(q) ==
    LET i == k.names[calls[q.call].path]
    IN  IF i = 0 THEN Failure ELSE Outcome(k, MakeStatObject(i))

MkDir(q) ==
    LET p == calls[q.call].path
    IN  IF k.names[p] # 0 THEN Failure ELSE Outcome([k EXCEPT !.names[p] = -1], <<>>)

RmDir(q) ==
    LET p == calls[q.call].path
    IN  IF k.names[p] # -1 THEN Failure ELSE Outcome([k EXCEPT !.names[p] = 0], <<>>)

\* A file that is open lives on without its name.
Unlink(q) ==
    LET p == calls[q.call].path
    IN  IF k.names[p] \in {0, -1} THEN Failure ELSE Outcome([k EXCEPT !.names[p] = 0], <<>>)

\* A file replaces a file, and an (empty) directory a directory.
Rename(q) ==
    LET p == calls[q.call].path
        to == calls[q.call].to
    IN  IF k.names[p] = 0 \/ (k.names[to] # 0 /\ (k.names[p] = -1) # (k.names[to] = -1))
        THEN Failure
        ELSE Outcome([k EXCEPT !.names[to] = k.names[p],
                               !.names[p] = IF p = to THEN @ ELSE 0], <<>>)

\* The names in the directory that holds all paths.
ReadDir(q) ==
    Outcome(k, SelectSeq([p \in Paths |-> p], LAMBDA p : k.names[p] # 0))

\* uv executes request q.
System(q) ==
    CASE q.op = "open"    -> Open(q)
      [] q.op = "read"    -> Read(q)
      [] q.op = "write"   -> Write(q)
      [] q.op = "close"   -> Close(q)
      [] q.op = "stat"    -> Stat(q)
      [] q.op = "mkdir"   -> MkDir(q)
      [] q.op = "rmdir"   -> RmDir(q)
      [] q.op = "unlink"  -> Unlink(q)
      [] q.op = "rename"  -> Rename(q)
      [] q.op = "readdir" -> ReadDir(q)

\* Any system call may also fail for a reason of its own; a close() that does has released
\* the descriptor all the same.
Fault(q) == IF q.op = "close" THEN [System(q) EXCEPT !.err = TRUE] ELSE Failure

Outcomes(q) == {System(q)} \union (IF faults < MaxFaults THEN {Fault(q)} ELSE {})

\* IsWithinBounds().
IsWithinBounds(off, len, max) == off <= max /\ max - off >= len

\* What Write lets through to uv; data of length 0 is an internal error.
Accepts(off, len, max) == max > 0 /\ off < max /\ IsWithinBounds(off, len, max)

-----------------------------------------------------------------------------
(***************************************************************************)
(* The continuations of fs.js.  Each gives the call as it is afterwards    *)
(* and the requests it makes; a set of such, where C leaves a choice.      *)
(***************************************************************************)
NewCall(kind, sync, path, to, len) ==
    [kind |-> kind, sync |-> sync, path |-> path, to |-> to, len |-> len,
     fd |-> 0, got |-> <<>>, written |-> 0, round |-> 0,
     results |-> <<>>,     \* calls of the callback, or what the function returned
     threw |-> FALSE,      \* history: an exception left the continuation
     inode |-> 0,          \* history: the file that was opened
     failed |-> FALSE,     \* history: a read or write of the call failed
     stray |-> FALSE,      \* history: it used a descriptor that was not its own
     with |-> {}]          \* history: calls that overlapped it

Request(q, op, arg, n) == [call |-> q.call, op |-> op, arg |-> arg, n |-> n]
CloseEnd(q, c) == Request(q, "close", 0, c.round)
CloseError(q, c) == Request(q, "close", 1, c.round)

Goes(c, reqs) == {[call |-> c, reqs |-> reqs]}
Calls(c, err, data) == Goes([c EXCEPT !.results = Append(@, [err |-> err, data |-> data])], {})

\* read(): always 1023 bytes, from the current position.
StartRead(q, c) == Goes(c, {Request(q, "read", 0, 1)})

\* write(): the handler throws inside the continuation if it does not accept the range.
StartWrite(q, c) ==
    IF Accepts(c.written, 1, c.len) THEN Goes(c, {Request(q, "write", c.written, 1)})
    ELSE Goes([c EXCEPT !.threw = TRUE], {})

\* Mutant of AfterOpen: an error of open() is not passed on.
AfterOpenSilent(q, c, o) ==
    IF o.err THEN Goes(c, {})
    ELSE LET opened == [c EXCEPT !.fd = o.val[1], !.inode = o.val[2]]
         IN  IF c.kind = "readFile" THEN StartRead(q, opened) ELSE StartWrite(q, opened)

\* The callback that readFile() and writeFile() give to open().
AfterOpen(q, c, o) ==
    IF o.err THEN Calls(c, TRUE, <<>>)
    ELSE LET opened == [c EXCEPT !.fd = o.val[1], !.inode = o.val[2]]
         IN  IF c.kind = "readFile" THEN StartRead(q, opened) ELSE StartWrite(q, opened)

\* Mutant of AfterRead: it reads on at the end of the file.
AfterReadGoesOn(q, c, o) ==
    IF o.err THEN Goes([c EXCEPT !.failed = TRUE], {CloseEnd(q, c)})
    ELSE IF o.val = <<>> THEN Goes(c, {CloseEnd(q, c), Request(q, "read", 0, 1)})
    ELSE StartRead(q, [c EXCEPT !.got = @ \o o.val])

\* Mutant of AfterRead: a short file is taken for a whole one.
AfterReadShort(q, c, o) ==
    IF o.err THEN Goes([c EXCEPT !.failed = TRUE], {CloseError(q, c), CloseEnd(q, c)})
    ELSE Goes([c EXCEPT !.got = @ \o o.val], {CloseEnd(q, c)})

\* afterRead(): after an error it goes on, with bytesRead 0.
AfterRead(q, c, o) ==
    IF o.err THEN Goes([c EXCEPT !.failed = TRUE], {CloseError(q, c), CloseEnd(q, c)})
    ELSE IF o.val = <<>> THEN Goes(c, {CloseEnd(q, c)})
    ELSE StartRead(q, [c EXCEPT !.got = @ \o o.val])

\* afterWrite(): after an error it goes on with n undefined, so that position and length
\* of the next write are NaN.  The conversion to size_t is undefined: a number that is out
\* of bounds, and Write throws, or 0.
AfterWrite(q, c, o) ==
    LET next == [c EXCEPT !.failed = TRUE, !.round = @ + 1]
    IN  IF o.err
        THEN Goes([next EXCEPT !.threw = TRUE], {CloseError(q, c)})
             \union (IF c.round < MaxRounds
                     THEN Goes(next, {CloseError(q, c), Request(q, "write", 0, 0)}) ELSE {})
        ELSE IF o.val = <<0>> \/ c.written + 1 = c.len THEN Goes(c, {CloseEnd(q, c)})
        ELSE StartWrite(q, [c EXCEPT !.written = @ + 1])

\* The callbacks given to close(): the one of the error path has no data, nor the error.
AfterClose(q, c, o) ==
    Calls(c, o.err, IF q.arg = 0 /\ c.kind = "readFile" THEN c.got ELSE <<>>)

\* readFileSync() and writeFileSync(): an error ends the loop and is forgotten.
AfterSyncStep(q, c, o) ==
    CASE q.op = "open" ->
            IF o.err THEN Calls(c, TRUE, <<>>)
            ELSE LET opened == [c EXCEPT !.fd = o.val[1], !.inode = o.val[2]]
                 IN  IF c.kind = "readFile" THEN StartRead(q, opened)
                     ELSE IF Accepts(0, 1, c.len) THEN StartWrite(q, opened)
                     ELSE Goes(opened, {CloseEnd(q, c)})
      [] q.op = "read" ->
            IF o.err \/ o.val = <<>>
            THEN Goes([c EXCEPT !.failed = o.err], {CloseEnd(q, c)})
            ELSE StartRead(q, [c EXCEPT !.got = @ \o o.val])
      [] q.op = "write" ->
            IF o.err \/ c.written + 1 = c.len
            THEN Goes([c EXCEPT !.failed = o.err], {CloseEnd(q, c)})
            ELSE StartWrite(q, [c EXCEPT !.written = @ + 1])
      [] q.op = "close" -> AfterClose(q, c, o)

\* What happens once request q of the call c has the outcome o.
Continue(q, c, o) ==
    IF q.op \notin {"open", "read", "write", "close"} THEN Calls(c, o.err, o.val)
    ELSE IF c.sync THEN AfterSyncStep(q, c, o)
    ELSE CASE q.op = "open"  -> AfterOpen(q, c, o)
           [] q.op = "read"  -> AfterRead(q, c, o)
           [] q.op = "write" -> AfterWrite(q, c, o)
           [] q.op = "close" -> AfterClose(q, c, o)

-----------------------------------------------------------------------------
(***************************************************************************)
(* Steps.                                                                  *)
(***************************************************************************)
Init ==
    /\ \E second \in {0, -1} :
        k = [names |-> [p \in Paths |-> CASE p = 1 -> 1 [] p = 2 -> second [] OTHER -> 0],
             files |-> [i \in Inodes |-> IF i = 1 THEN <<<<0, 1>>, <<0, 2>>>> ELSE <<>>],
             fds |-> [f \in Fds |-> NoFd]]
    /\ calls = <<>>
    /\ pool = {}
    /\ done = <<>>
    /\ js = <<>>
    /\ faults = 0

Active ==
    {q.call : q \in pool} \union {done[i].q.call : i \in DOMAIN done}
                          \union {js[i].call : i \in DOMAIN js}

\* The user calls a function: its first request.
Start(kind, sync, path, to, len) ==
    LET c == Len(calls) + 1
        q == [call |-> c, arg |-> 0, n |-> 0,
              op |-> IF kind \in {"readFile", "writeFile"} THEN "open" ELSE kind]
    IN  /\ Len(calls) < MaxCalls
        /\ js = <<>>
        /\ calls' = Append([d \in DOMAIN calls |->
                              IF d \in Active
                              THEN [calls[d] EXCEPT !.with = @ \union {c}] ELSE calls[d]],
                           [NewCall(kind, sync, path, to, len) EXCEPT !.with = Active])
        /\ pool' = IF sync THEN pool ELSE pool \union {q}
        /\ js' = IF sync THEN <<q>> ELSE js
        /\ UNCHANGED <<k, done, faults>>

UserCall ==
    \E kind \in Kinds, sync \in BOOLEAN, path \in Paths, to \in Paths, len \in Lengths :
        /\ kind # "rename" => to = path
        /\ kind # "writeFile" => len = 0
        /\ Start(kind, sync, path, to, len)

\* The system call of q is made: its outcome is o.
Execute(q, o) ==
    /\ k' = o.k
    /\ faults' = IF o = System(q) THEN faults ELSE faults + 1

Stray(q) ==
    q.op \in {"read", "write", "close"} /\ k.fds[calls[q.call].fd].owner # q.call

\* A thread of the pool executes a request.
Worker ==
    \E q \in pool : \E o \in Outcomes(q) :
        /\ Execute(q, o)
        /\ pool' = pool \ {q}
        /\ done' = Append(done, [q |-> q, err |-> o.err, val |-> o.val])
        /\ calls' = [calls EXCEPT ![q.call].stray = @ \/ Stray(q)]
        /\ UNCHANGED js

\* AfterAsync(): the loop runs the callback of a request.
AfterAsync ==
    /\ js = <<>>
    /\ done # <<>>
    /\ LET d == Head(done)
       IN  \E x \in Continue(d.q, calls[d.q.call], d) :
            /\ calls' = [calls EXCEPT ![d.q.call] = x.call]
            /\ pool' = pool \union x.reqs
    /\ done' = Tail(done)
    /\ UNCHANGED <<k, js, faults>>

\* FS_SYNC and AfterSync(): the request is executed and its continuation run at once.
SyncStep ==
    /\ js # <<>>
    /\ LET q == Head(js)
       IN  \E o \in Outcomes(q) :
            /\ Execute(q, o)
            /\ \E x \in Continue(q, calls[q.call], o) :
                /\ calls' = [calls EXCEPT ![q.call] = [x.call EXCEPT !.stray = @ \/ Stray(q)]]
                /\ js' = SetToSeq(x.reqs)
    /\ UNCHANGED <<pool, done>>

Next == UserCall \/ Worker \/ AfterAsync \/ SyncStep

Spec == Init /\ [][Next]_vars

\* The threads execute what is in the pool, the loop and the JavaScript thread go on.
FairSpec == Spec /\ WF_vars(Worker) /\ WF_vars(AfterAsync) /\ WF_vars(SyncStep)

-----------------------------------------------------------------------------
(***************************************************************************)
(* Properties.                                                             *)
(***************************************************************************)

\* A call reads, writes and closes only the descriptor it opened itself, although
\* descriptor numbers are reused while requests wait in the pool; only a read or write
\* that fails breaks this, because afterRead() and afterWrite() (fs.js:195, 271) then
\* close the descriptor and go on using it.
OwnDescriptor ==
    (\E c \in DOMAIN calls : calls[c].stray) => (\E c \in DOMAIN calls : calls[c].failed)

\* The calls that may disturb what the call c reads or writes: one that overlaps with it and
\* writes, or has failed and closes twice, or has lost its descriptor to such a one and uses
\* the number all the same.
Disturbing(c) ==
    {d \in calls[c].with : calls[d].kind = "writeFile" \/ calls[d].failed \/ calls[d].stray}

\* When readFile() or readFileSync() hands over data, it is the whole file that was opened,
\* whatever is renamed, unlinked or read in the meantime; and when writeFile() or
\* writeFileSync() reports success, the file holds exactly its data: unless one of its own
\* reads or writes fails, or a call that overlaps with it disturbs it (fs.js:170-314).
WholeAnswers ==
    \A c \in DOMAIN calls :
        LET r == calls'[c].results
            content == k'.files[calls[c].inode]
        IN  (/\ r # calls[c].results
             /\ ~r[Len(r)].err
             /\ ~calls'[c].failed
             /\ Disturbing(c)' = {})
            => /\ calls[c].kind = "readFile" /\ calls[c].inode # -1 => r[Len(r)].data = content
               /\ calls[c].kind = "writeFile" => content = [i \in 1..calls[c].len |-> <<c, i>>]

WholeFile == [][WholeAnswers]_vars

\* Every call is answered and leaves no descriptor open, also when its requests fail,
\* unless an exception leaves its continuation: the descriptor that writeFile() of empty
\* data has opened stays open, and its callback is never called (fs.js:245-289).
CallCompletes ==
    \A c \in 1..MaxCalls :
        c \in DOMAIN calls ~>
            (/\ c \in DOMAIN calls
             /\ \/ calls[c].threw
                \/ calls[c].results # <<>> /\ \A f \in Fds : k.fds[f].owner # c)

\* readFile() and writeFile() do not report success when a read or write of theirs failed:
\* the documentation has `err` {Error|null} for it, and the entire file in `data`.  The
\* callback that afterRead() gives to close() hides the error behind its own (fs.js:197).
ErrorIsReported ==
    \A c \in DOMAIN calls :
        calls[c].failed /\ ~calls[c].sync =>
            \A i \in DOMAIN calls[c].results : calls[c].results[i].err
=============================================================================
