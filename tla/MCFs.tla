-------------------------------- MODULE MCFs --------------------------------
(* Instances of Fs for TLC. *)
EXTENDS Fs

\* A file, and a path that is free or a directory.
MCNumPaths == 2
\* Enough for every call to have one, so that numbers are reused but do not run out.
MCNumFds == 2
\* Enough for a call to open a descriptor between two closes of another one.
MCMaxCalls == 2
\* Nothing, and more than one write.
MCLengths == {0, 2}
MCKinds ==
    {"readFile", "writeFile", "stat", "mkdir", "rmdir", "unlink", "rename", "readdir"}
\* One disk error or refused close.
MCMaxFaults == 1
\* Enough for a write with NaN to fail and to be repeated.
MCMaxRounds == 2

\* For ErrorIsReported: only what reads a whole file, on a disk without errors.
MCReads == {"readFile"}
MCNoFaults == 0
=============================================================================
