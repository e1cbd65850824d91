------------------------------- MODULE Http -------------------------------
(***************************************************************************)
(* One HTTP connection of IoT.js, at the client's end (http_client.js, one *)
(* ClientRequest) or at the server's (http_server.js), from the moment its *)
(* socket is connected.  Both feed what the socket reads to an HTTP parser *)
(* and write messages to it (http_outgoing.js): the client one request,    *)
(* the server a ServerResponse for each request.                           *)
(*                                                                         *)
(* Of the socket (net.js) the model has what decides when it is closed and *)
(* what is written by then: end() makes 'finish' follow once every write   *)
(* is answered, and destroy() closes the handle after 'finish' only.       *)
(***************************************************************************)
EXTENDS HttpParser

VARIABLES sock,     \* the socket, a record: see Connected
          read,     \* "on" | "eof" (the peer's end was read) | "error"
          parser,   \* socket.parser is not null
          exec,     \* the parser runs: a callback may come
          res,      \* client: req.res; server: socket._httpMessage; 0 is none
          eof,      \* messages whose stream was given its end
          outgoing, \* each message we send: "open" | "ended"
          late,     \* history: a message was written to while 'finish' was a tick away
          thrown,   \* history: an exception that no code here catches
          closes    \* 'close' events of the request, or of the responses

connVars == <<sock, read, parser, exec, res, eof, outgoing, late, thrown, closes>>
vars == <<parserVars, connVars>>

Client == type = "response"
Server == type = "request"

\* `ending' is not _socketState.writable; `ended' says that 'finish' was emitted, `tick' that
\* it is due in the next tick and `waits' that destroy() waits for it; `pending' counts
\* the writes that are queued or in flight.
Connected == [handle |-> "open", ending |-> FALSE, ended |-> FALSE, waits |-> FALSE,
              tick |-> FALSE, pending |-> 0]

Init ==
  /\ type \in {"request", "response"}
  /\ HttpParserInit
  /\ sock = Connected /\ read = "on" /\ parser = TRUE /\ exec = FALSE
  /\ res = 0 /\ eof = {} /\ outgoing = IF Client THEN <<"open">> ELSE <<>>
  /\ late = FALSE /\ thrown = FALSE /\ closes = 0
----------------------------------------------------------------------------
(* The socket.                                                             *)

\* end(): without a write to wait for, 'finish' is emitted in the next tick.
SocketEnd(s) ==
  IF s.ending THEN s ELSE [s EXCEPT !.ending = TRUE, !.tick = (s.pending = 0)]

\* Mutant of Destroy: the handle is closed at once.
DestroyNow(s) ==
  IF s.handle # "open" THEN s
  ELSE [SocketEnd(s) EXCEPT !.handle = "closing", !.ended = TRUE, !.tick = FALSE]

\* destroy(): close() after 'finish' and until then a listener for it.
Destroy(s) ==
  LET e == SocketEnd(s)
  IN  IF s.handle # "open" THEN s
      ELSE IF e.ended THEN [e EXCEPT !.handle = "closing"]
      ELSE [e EXCEPT !.waits = TRUE]

\* Mutant of DestroySoon: end() alone.
DestroySoonForgets(s) == SocketEnd(s)

\* destroySoon(): `finished' does not exist, it always listens for 'finish'.
DestroySoon(s) == [SocketEnd(s) EXCEPT !.waits = TRUE]

\* emitFinish() and onSocketFinish(): with the peer's end read, or with a destroy() that
\* waits, the handle is closed; else only our side is shut down.
EmitFinish(s) ==
  LET e == [s EXCEPT !.ended = TRUE, !.tick = FALSE]
  IN  IF s.ended THEN [s EXCEPT !.tick = FALSE]
      ELSE IF read = "eof" \/ s.waits THEN Destroy(e)
      ELSE e

\* Ticks run before the next event of the loop, and after each callback of the parser.
TicksDone == ~sock.tick
Idle == ~exec /\ TicksDone
Reading == sock.handle = "open" /\ read = "on"

FinishTick ==
  /\ sock.tick
  /\ sock' = EmitFinish(sock)
  /\ UNCHANGED <<parserVars, read, parser, exec, res, eof, outgoing, late, thrown, closes>>

\* AfterWrite() and _onwrite(), which looks at no status: the next write that is queued is
\* made; the last one of a socket that is ending emits 'finish'.  On a handle that is closed
\* by then a queued write finds no _handle and throws.
OnWritten ==
  /\ Idle /\ sock.pending > 0
  /\ LET answered == [sock EXCEPT !.pending = @ - 1]
     IN  IF sock.handle # "open"
         THEN /\ sock' = [sock EXCEPT !.pending = 0]
              /\ thrown' = (thrown \/ sock.pending > 1)
         ELSE /\ sock' = IF answered.pending = 0 /\ sock.ending
                         THEN EmitFinish(answered) ELSE answered
              /\ UNCHANGED thrown
  /\ UNCHANGED <<parserVars, read, parser, exec, res, eof, outgoing, late, closes>>
----------------------------------------------------------------------------
(* What is read.                                                           *)

\* socketOnData(): the chunk goes to the parser.  The client's has none once its input was
\* no HTTP, while destroy() waits: null.execute() throws.
OnData ==
  /\ Reading /\ Idle
  /\ exec' = parser /\ thrown' = (thrown \/ ~parser)
  /\ UNCHANGED <<parserVars, sock, read, parser, res, eof, outgoing, late, closes>>

\* parserOnIncomingClient(): a second response destroys the socket.
\* parserOnIncoming(): a response is made and takes over the socket.
OnIncoming ==
  IF Client
  THEN /\ res' = IF res = 0 THEN Len(incoming') ELSE res
       /\ sock' = IF res = 0 THEN sock ELSE Destroy(sock)
       /\ UNCHANGED outgoing
  ELSE /\ outgoing' = Append(outgoing, "open")
       /\ res' = Len(outgoing) + 1
       /\ UNCHANGED sock

\* A callback of the parser while it runs.
Parsing ==
  /\ exec /\ TicksDone /\ Callback
  /\ IF Len(incoming') # Len(incoming) THEN OnIncoming ELSE UNCHANGED <<sock, res, outgoing>>
  /\ eof' = {k \in 1 .. Len(incoming') : incoming'[k].complete} \cup eof
  /\ UNCHANGED <<read, parser, exec, late, thrown, closes>>

\* execute() has consumed the chunk.
Parsed ==
  /\ exec /\ TicksDone /\ gram # "dead"
  /\ exec' = FALSE
  /\ UNCHANGED <<parserVars, sock, read, parser, res, eof, outgoing, late, thrown, closes>>

\* execute() returns an error: the client drops the parser and reports it.
ParseFails ==
  /\ exec /\ TicksDone
  /\ IF gram = "dead" THEN UNCHANGED parserVars ELSE ParseError
  /\ exec' = FALSE /\ sock' = Destroy(sock)
  /\ parser' = (parser /\ Server)
  /\ UNCHANGED <<read, res, eof, outgoing, late, thrown, closes>>

\* parser.finish(), and the stream that it may complete.
FinishParser ==
  /\ Finish
  /\ eof' = {k \in 1 .. Len(incoming') : incoming'[k].complete} \cup eof

\* 'end' of the socket.  The client destroys it; the server too if the request is cut, and
\* else forgets the parser and ends its side, which onread() then takes for a reason to
\* destroy: whatever is unanswered.
OnEnd ==
  /\ Reading /\ Idle
  /\ read' = "eof"
  /\ IF parser THEN FinishParser ELSE UNCHANGED <<parserVars, eof>>
  /\ parser' = (Server /\ FinishFails)
  /\ sock' = Destroy(sock)
  /\ UNCHANGED <<exec, res, outgoing, late, thrown, closes>>

\* 'error' of the socket: a read failed, and nothing more is read.  The handler that the
\* server has for 'clientError' destroys it.
OnError ==
  /\ Reading /\ Idle
  /\ read' = "error"
  /\ IF Client /\ parser
     THEN FinishParser /\ parser' = FALSE
     ELSE UNCHANGED <<parserVars, eof, parser>>
  /\ sock' = Destroy(sock)
  /\ UNCHANGED <<exec, res, outgoing, late, thrown, closes>>

\* 'timeout' of a server's socket that nobody listens for.
OnTimeout ==
  /\ Server /\ sock.handle = "open" /\ Idle
  /\ sock' = Destroy(sock)
  /\ UNCHANGED <<parserVars, read, parser, exec, res, eof, outgoing, late, thrown, closes>>

\* Client: 'close' of the socket.  A response is given its end, once more
\* if it has it already; without a response the request fails.
ClientOnClose ==
  /\ closes' = closes + 1
  /\ IF parser THEN Finish ELSE UNCHANGED parserVars
  /\ eof' = (IF res # 0 THEN {res} ELSE {})
              \cup {k \in 1 .. Len(incoming') : incoming'[k].complete} \cup eof
  /\ parser' = FALSE

\* Server: the parser is forgotten; every response that was made listens to
\* 'close', and emits it for the one that owns the socket.
ServerOnClose ==
  /\ parser' = FALSE
  /\ closes' = IF res # 0 THEN Len(outgoing) ELSE 0
  /\ UNCHANGED <<parserVars, eof>>

\* The handle is closed, after the writes that this has cancelled.
OnClosed ==
  /\ Idle /\ sock.handle = "closing" /\ sock.pending = 0
  /\ sock' = [sock EXCEPT !.handle = "closed"]
  /\ IF Client THEN ClientOnClose ELSE ServerOnClose
  /\ UNCHANGED <<read, exec, res, outgoing, late, thrown>>
----------------------------------------------------------------------------
(* The program, at any time, from within a callback too.                   *)

\* Client: the program has read the response: destroySoon().
ResponseOnEnd ==
  /\ Client /\ res \in eof /\ ~sock.ending
  /\ sock' = DestroySoon(sock)
  /\ UNCHANGED <<parserVars, read, parser, exec, res, eof, outgoing, late, thrown, closes>>

\* _send(): a message is written to.  Only after 'finish' is that refused.
Send ==
  /\ ~sock.ended
  /\ late' = (late \/ sock.tick)
Sent == [sock EXCEPT !.pending = @ + 1]

\* write() of message k; bound: while the socket has no other write, and is not ending.
Write(k) ==
  /\ k \in DOMAIN outgoing /\ outgoing[k] = "open" /\ Send
  /\ sock.pending = 0 /\ ~sock.ending
  /\ sock' = Sent
  /\ UNCHANGED <<parserVars, read, parser, exec, res, eof, outgoing, thrown, closes>>

\* resOnFinish(): the socket loses its _httpMessage, whoever that is, and is closed soon.
ResOnFinish(s) == sock' = DestroySoon(s) /\ res' = 0

\* end() of message k.
End(k) ==
  /\ k \in DOMAIN outgoing /\ outgoing[k] = "open" /\ Send
  /\ outgoing' = [outgoing EXCEPT ![k] = "ended"]
  /\ IF Server THEN ResOnFinish(Sent) ELSE sock' = Sent /\ UNCHANGED res
  /\ UNCHANGED <<parserVars, read, parser, exec, eof, thrown, closes>>

\* A write after 'finish' is an 'error' of the socket: the client finishes the parser.  At
\* the server socketOnError() finds no _server, and the exception leaves all as it was.
WriteAfterEnd ==
  /\ Client /\ sock.ended /\ parser
  /\ FinishParser /\ parser' = FALSE
  /\ UNCHANGED <<sock, read, exec, res, outgoing, late, thrown, closes>>

Next ==
  \/ FinishTick \/ OnWritten
  \/ OnData \/ Parsing \/ Parsed \/ ParseFails \/ OnEnd \/ OnError \/ OnTimeout \/ OnClosed
  \/ ResponseOnEnd \/ WriteAfterEnd
  \/ \E k \in 1 .. MaxMessages : Write(k) \/ End(k)

\* Code that runs returns, ticks run, a handle that is closed says so, and the system answers
\* a write though data goes on arriving.
Spec ==
  /\ Init /\ [][Next]_vars
  /\ WF_vars(Parsed \/ ParseFails \/ FinishTick \/ OnClosed) /\ SF_vars(OnWritten)
----------------------------------------------------------------------------
\* The C arrays never overflow and the assertions of the callbacks hold: a
\* header has a value before the next one begins.
SlotsInBounds ==
  /\ n_fields < HEADER_MAX /\ n_values \in {n_fields, n_fields - 1}
  /\ gram # "dead" => (gram \in {"field", "tfield"} <=> n_fields # n_values)

Text(k, i, n) == [p \in 1 .. n |-> <<k, i, p>>]

\* The headers that the peer sent before the body of message k.
SentHeaders(k) ==
  LET n == IF sent[k].trail > Len(sent[k].heads) THEN Len(sent[k].heads) ELSE sent[k].trail - 1
  IN  [i \in 1 .. n |-> <<Text(k, i, sent[k].heads[i].field), Text(k, i, sent[k].heads[i].value)>>]

Trailers(k) == sent[k].trail <= Len(sent[k].heads)

\* The headers of message k.  Trailers of an earlier message stay in the C
\* arrays and open the headers of the next one: nothing is said of that.
HeadersExact(k) ==
  (\A j \in 1 .. k - 1 : ~Trailers(j)) => incoming[k].headers = SentHeaders(k)

\* Its url or status text.  A request that follows another one with headers
\* that were flushed has both urls: _url is never reset.
UrlExact(k) ==
  (Server /\ flushed => k = 1) => incoming[k].url = Text(k, 0, sent[k].url)

\* Its body, and nothing of another message's.
BodyExact(k) == incoming[k].body = [p \in 1 .. sent[k].body |-> <<k, p>>]

\* JavaScript gets of every message what the peer sent of it, in order,
\* wherever the input chunks cut it and whether the C arrays were flushed or
\* not: headers, url or status text, and body.
MessagesExact ==
  \A k \in 1 .. Len(incoming) : HeadersExact(k) /\ UrlExact(k) /\ BodyExact(k)

\* Nothing that the program wrote to the connection is cut off by its closing, whoever closes
\* it (the program, the peer, a timeout, an error, malformed input), unless it was written
\* between end() of an idle socket and the tick of 'finish' (net.js:203, stream_writable.js:94).
WritesFlushed == sock.handle # "open" => sock.pending = 0 \/ late

\* A server that has one request to answer is told by 'close', and once, if the connection is
\* gone before the response was ended, and only then (http_server.js:134, :141).
ToldOfClose ==
  Server /\ sock.handle = "closed" /\ Len(outgoing) = 1 =>
    closes = IF outgoing[1] = "ended" THEN 0 ELSE 1

\* A message that was ended is out when the connection closes, and a response that was not
\* ended is told so (http_outgoing.js:81, http_server.js:294).
OutOrTold == WritesFlushed /\ ToldOfClose

\* A connection that is being closed, by whichever side, in the middle of whatever message and
\* with writes in flight, is closed in the end (net.js:188-228).  Both are for good, so that
\* this says that the one leads to the other.
Closes == []<>(sock.ending => sock.handle = "closed")

\* The data of a connection always finds a parser, and a queued write a handle.
NothingThrown == ~thrown

\* message.url is the url of that request.
UrlIsOwn ==
  \A k \in 1 .. Len(incoming) : Server => incoming[k].url = Text(k, 0, sent[k].url)
============================================================================
