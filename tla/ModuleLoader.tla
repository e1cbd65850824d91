---------------------------- MODULE ModuleLoader ----------------------------
(***************************************************************************)
(* require(): the loader of user modules (js/module.js) over the loader of *)
(* native modules (js/iotjs.js).                                           *)
(*                                                                         *)
(* A path is the sequence of its segments, from the root; a segment is a   *)
(* sequence of names, so that 'a.js' is <<"a", "js">>.  A user's module    *)
(* may call its require() at any time: while it is compiled, and later     *)
(* from a callback or a function it exports.                               *)
(***************************************************************************)
EXTENDS Integers, Sequences, SequencesExt

CONSTANTS
    Files,        \* the files there are, as paths without '.' and '..'
    Directories,  \* the directories there are
    Main,         \* package.json -> the path its main names
    Ids,          \* the ids that programs require: a path, and whether it begins with '/'
    NativeIds,    \* the ids of native modules
    MainId,       \* process.argv[1]
    Cwds,         \* the directories a program may make its current one
    FirstCwd,     \* the current directory at the start
    FixedDirs,    \* moduledirs: <<FirstCwd, FirstCwd/iotjs_modules, HOME..., IOTJS_PATH...>>
    MaxModules    \* bound: module objects made

Dot == <<".">>
DotDot == <<"..">>

VARIABLES
    cwd,       \* process.cwd()
    cache,     \* iotjs_module_t.cache: path -> number of a module object
    modules,   \* the module objects: id, filename, and how far their code is
    native,    \* Native.cache: "none", or how far the code of the module is
    stack,     \* the modules that are being compiled, innermost last
    got,       \* history: what require() returned of a file: <<path, module, its state then>>
    circular,  \* history: the files that were required while they were compiled
    starts     \* history: how often the code of a native module was started

vars == <<cwd, cache, modules, native, stack, got, circular, starts>>

-----------------------------------------------------------------------------
(* Paths.                                                                  *)

\* The operating system walks a path: where it is after each segment.  '..' of
\* the root is the root.
Walk(path) ==
    LET at[i \in 0 .. Len(path)] ==
            IF i = 0 THEN <<>>
            ELSE IF path[i] = Dot THEN at[i - 1]
            ELSE IF path[i] # DotDot THEN Append(at[i - 1], path[i])
            ELSE IF at[i - 1] = <<>> THEN <<>> ELSE Front(at[i - 1])
    IN  at

Denotes(path) == Walk(path)[Len(path)]

\* iotjs_module_t.tryPath: statSync() finds no path that goes on after something
\* that is no directory, and a directory is no module.
TryPath(path) ==
    LET at == Walk(path)
    IN  at[Len(path)] \in Files /\ \A i \in 1 .. Len(path) - 1 : at[i] \in Directories

\* iotjs_module_t.normalizePath: a path that goes below the root is an error.
NormalizePath(path) ==
    LET at[i \in 0 .. Len(path)] ==
            IF i = 0 THEN [ok |-> TRUE, out |-> <<>>]
            ELSE IF path[i] = Dot \/ ~at[i - 1].ok THEN at[i - 1]
            ELSE IF path[i] # DotDot THEN [at[i - 1] EXCEPT !.out = Append(@, path[i])]
            ELSE IF at[i - 1].out = <<>> THEN [at[i - 1] EXCEPT !.ok = FALSE]
            ELSE [at[i - 1] EXCEPT !.out = Front(@)]
    IN  at[Len(path)]

WithJs(path) == Append(Front(path), Append(Last(path), "js"))

PackageJson == <<"package", "json">>
IndexJs == <<"index", "js">>

\* iotjs_module_t.resolveFilepath in one directory: what it tries, in its order
Candidates(path) ==
    LET json == path \o <<PackageJson>>
        isPackage == TryPath(json)
        main == IF isPackage /\ Denotes(json) \in DOMAIN Main
                THEN <<path \o Main[Denotes(json)]>> ELSE <<>>
    IN  <<path, WithJs(path)>> \o (IF isPackage THEN main \o <<path \o <<IndexJs>>>> ELSE <<>>)

\* iotjs_module_t.resolveDirectories and the begin of the loop over them: the
\* directory of the requiring module comes first; the empty directory leaves
\* an absolute id as it is and makes any other relative to the current one.
ModulePaths(id, parent) ==
    (IF parent = 0 THEN <<>> ELSE <<Front(modules[parent].filename) \o id.path>>)
        \o <<IF id.absolute THEN id.path ELSE cwd \o id.path>>
        \o [i \in DOMAIN FixedDirs |-> FixedDirs[i] \o id.path]

\* iotjs_module_t.resolveFilepath: the first path that is a file, or <<>>
ResolveFilepath(id, parent) ==
    LET paths == ModulePaths(id, parent)
        all == FlattenSeq([i \in DOMAIN paths |-> Candidates(paths[i])])
        found == SelectSeq(all, TryPath)
    IN  IF found = <<>> THEN <<>> ELSE Head(found)

\* iotjs_module_t.resolveModPath: <<>> for a module that is not found, or that has
\* the id of its parent, and for the error of normalizePath.
ResolveModPath(id, parent) ==
    IF parent # 0 /\ id = modules[parent].id THEN <<>>
    ELSE LET path == ResolveFilepath(id, parent)
             norm == NormalizePath(path)
         IN  IF path = <<>> \/ ~norm.ok THEN <<>> ELSE norm.out

-----------------------------------------------------------------------------
(* Loading.                                                                *)

Cached(path) == path \in DOMAIN cache

Module(m) == [kind |-> "module", of |-> m]
NativeModule(id) == [kind |-> "native", of |-> id]

BeingCompiled(path) ==
    \E i \in DOMAIN stack : stack[i].kind = "module" /\ modules[stack[i].of].filename = path

\* require() answers with a module that has been loaded.
Answer(path, m) ==
    got' = got \cup {<<path, m, modules[m].state>>}

\* The rest of iotjs_module_t.load: a new module object, whose code is compiled and run.
LoadFile(id, path) ==
    /\ Len(modules) < MaxModules
    /\ modules' = Append(modules, [id |-> id, filename |-> path, state |-> "compiling"])
    /\ stack' = Append(stack, Module(Len(modules) + 1))
    /\ circular' = IF BeingCompiled(path) THEN circular \cup {path} ELSE circular
    /\ UNCHANGED <<cache, got>>

\* Native.require: the module is in the cache before its code runs, and stays
\* there when the code throws.
NativeRequire(id) ==
    IF native[id] # "none"
    THEN UNCHANGED <<native, stack, starts>>
    ELSE /\ native' = [native EXCEPT ![id] = "compiling"]
         /\ stack' = Append(stack, NativeModule(id))
         /\ starts' = [starts EXCEPT ![id] = @ + 1]

\* iotjs_module_t.load for a module that requires id; a failure throws in the
\* module, which may go on or throw in its turn.
Load(id, parent) ==
    /\ UNCHANGED cwd
    /\ \/ /\ id \in NativeIds
          /\ NativeRequire(id)
          /\ UNCHANGED <<cache, modules, got, circular>>
       \/ /\ id \notin NativeIds
          /\ LET path == ResolveModPath(id, parent)
             IN  /\ path # <<>>
                 /\ IF Cached(path)
                    THEN Answer(path, cache[path]) /\ UNCHANGED <<cache, modules, stack, circular>>
                    ELSE LoadFile(id, path)
          /\ UNCHANGED <<native, starts>>

\* iotjs_module_t.runMain
RunMain ==
    /\ modules = <<>>
    /\ stack = <<>>
    /\ Load(MainId, 0)

\* A user's module calls its require(), not while native code runs.
Require(m, id) ==
    /\ stack # <<>> => Last(stack).kind = "module"
    /\ Load(id, m)

\* A native module requires another one while it is compiled.
NativeRequires(id) ==
    /\ stack # <<>> /\ Last(stack).kind = "native"
    /\ NativeRequire(id)
    /\ UNCHANGED <<cwd, cache, modules, got, circular>>

\* The code of the innermost module ends: it is cached, and require() returns.
CompileReturns ==
    /\ stack # <<>>
    /\ stack' = Front(stack)
    /\ LET top == Last(stack)
       IN  IF top.kind = "native"
           THEN /\ native' = [native EXCEPT ![top.of] = "complete"]
                /\ UNCHANGED <<cache, modules, got>>
           ELSE LET path == modules[top.of].filename
                IN  /\ modules' = [modules EXCEPT ![top.of].state = "complete"]
                    /\ cache' = [p \in DOMAIN cache \cup {path} |->
                                    IF p = path THEN top.of ELSE cache[p]]
                    /\ got' = got \cup {<<path, top.of, "complete">>}
                    /\ UNCHANGED native
    /\ UNCHANGED <<cwd, circular, starts>>

\* The code of the innermost module throws, or cannot be compiled; nothing is cached.
CompileThrows ==
    /\ stack # <<>>
    /\ stack' = Front(stack)
    /\ LET top == Last(stack)
       IN  IF top.kind = "native"
           THEN native' = [native EXCEPT ![top.of] = "threw"] /\ UNCHANGED modules
           ELSE modules' = [modules EXCEPT ![top.of].state = "threw"] /\ UNCHANGED native
    /\ UNCHANGED <<cwd, cache, got, circular, starts>>

\* process.chdir()
Chdir(dir) ==
    /\ dir # cwd
    /\ cwd' = dir
    /\ UNCHANGED <<cache, modules, native, stack, got, circular, starts>>

Init ==
    /\ cwd = FirstCwd
    /\ cache = <<>>
    /\ modules = <<>>
    /\ native = [id \in NativeIds |-> "none"]
    /\ stack = <<>>
    /\ got = {}
    /\ circular = {}
    /\ starts = [id \in NativeIds |-> 0]

Next ==
    \/ RunMain
    \/ \E m \in DOMAIN modules, id \in Ids \cup NativeIds : Require(m, id)
    \/ \E id \in NativeIds : NativeRequires(id)
    \/ CompileReturns
    \/ CompileThrows
    \/ \E dir \in Cwds : Chdir(dir)

Spec == Init /\ [][Next]_vars

-----------------------------------------------------------------------------
(* Properties.                                                             *)

\* Whatever id, directory and main of a package led to it, a module's filename
\* is the one path of an existing file, so that the cache has one key for a file:
\* the path that was tested and its normal form are the same file.
FilenameIsFile == \A m \in DOMAIN modules : modules[m].filename \in Files

\* require() of a user's module never returns exports that are half made: the code
\* has run to its end, even in a circle of modules, and after one that threw.
ExportsComplete == \A g \in got : g[3] = "complete"

\* All who require a file get the same module object, by whatever id, from whatever
\* directory and after whatever failed attempts; excepted are files that were
\* required in a circle, of which a second object is made.
SameModule ==
    \A g, h \in got : g[1] = h[1] /\ g[1] \notin circular => g[2] = h[2]

\* The code of a native module is run once, though native modules require each
\* other in circles and may throw.
NativeOnce == \A id \in NativeIds : starts[id] <= 1
=============================================================================
