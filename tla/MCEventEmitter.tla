--------------------------- MODULE MCEventEmitter ---------------------------
(***************************************************************************)
(* An event with two functions, three registrations and nested emissions.  *)
(***************************************************************************)
EXTENDS EventEmitter

CONSTANTS f, g

MCFunction == {f, g}
=============================================================================
