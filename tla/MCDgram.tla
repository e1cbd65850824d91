------------------------------ MODULE MCDgram ------------------------------
(* Instance of Dgram for TLC. *)
EXTENDS Dgram

\* Enough for sends before and after a close() in one queue.
MCMaxSends == 3
\* Enough for a bind after one that failed; send() binds on its own as well.
MCMaxBinds == 2
\* Enough for a datagram before and an error after it.
MCMaxArrivals == 2
=============================================================================
