---------------------------- MODULE MCNetSocket ----------------------------
(* Instances of NetSocket for TLC: two chunks to write, one to read, one more
   connection of the server. *)
EXTENDS NetSocket

\* Enough for one write in flight and another in the buffer.
MCMaxWrites == 2
\* Enough for data that is buffered when the end of the data arrives.
MCMaxReads == 1
\* Enough for a server that is closed twice, or listens again after close().
MCMaxServerCalls == 2
\* Enough for a server that is not drained when this socket closes.
MCMaxOthers == 1
=============================================================================
