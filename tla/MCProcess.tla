------------------------------ MODULE MCProcess ------------------------------
(***************************************************************************)
(* A process for TLC.  Its constants are numbers given in the .cfg files.  *)
(***************************************************************************)
EXTENDS Process

=============================================================================
