------------------------------ MODULE MCTimers ------------------------------
(***************************************************************************)
(* Timers for TLC.  TIMEOUT_MAX is 2 ms; the delays are one below the      *)
(* range, those in it, one above it, and the one that is no number.        *)
(***************************************************************************)
EXTENDS Timers

CONSTANTS t1, t2, h1, h2, nan

MCTimeouts1 == {t1}
MCTimeouts2 == {t1, t2}
MCTimers2 == {h1, h2}
MCDelays == {0, 2, 3, nan}

=============================================================================
