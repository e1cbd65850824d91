-------------------------- MODULE MCModuleLoader ---------------------------
EXTENDS ModuleLoader

W == <<"w">>
Lib == <<"lib">>
H == <<"h">>
Mods == <<"iotjs_modules">>
P == <<"p">>

Id(path) == [absolute |-> FALSE, path |-> path]

MCDirectories == {<<>>, <<W>>, <<W, Lib>>, <<W, Mods>>, <<W, Mods, P>>, <<H>>}
MCFiles == {<<W, <<"main", "js">>>>, <<W, Lib, <<"a", "js">>>>, <<H, <<"a", "js">>>>,
            <<W, Mods, P, PackageJson>>, <<W, Mods, P, Lib>>}
MCMain == [j \in {<<W, Mods, P, PackageJson>>} |-> <<Dot, Lib>>]

\* './lib/a', '../w/lib/a', 'a', 'p', '/w/main', and a path that leaves the root
MCIds == {Id(<<Dot, Lib, <<"a">>>>), Id(<<DotDot, W, Lib, <<"a">>>>), Id(<<<<"a">>>>), Id(<<P>>),
          [absolute |-> TRUE, path |-> <<W, <<"main">>>>],
          Id(<<DotDot, DotDot, DotDot, H, <<"a">>>>)}
MCNativeIds == {Id(<<<<"fs">>>>), Id(<<<<"net">>>>)}
MCMainId == Id(<<<<"main", "js">>>>)
MCCwds == {<<W>>, <<H>>}
MCStart == <<W>>
MCFixedDirs == <<<<W>>, <<W, Mods>>, <<H, Mods>>>>
=============================================================================
