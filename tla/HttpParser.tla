----------------------------- MODULE HttpParser -----------------------------
(***************************************************************************)
(* The HTTP parser object: iotjs_module_httpparser.c around the library    *)
(* http_parser, and the callbacks of http_common.js that it makes.         *)
(*                                                                         *)
(* The library reports a message in pieces: a url, a header's field or its *)
(* value comes in as many calls as there are input chunks that hold a part *)
(* of it.  C keeps at most HEADER_MAX - 1 headers and flushes them to      *)
(* JavaScript when another one begins.                                     *)
(*                                                                         *)
(* A text is the sequence of its pieces <<m, h, k>>: message m, header h   *)
(* (0 is the url or the status text), piece k.  What the peer sent is kept *)
(* as a history and compared with what JavaScript got.                     *)
(***************************************************************************)
EXTENDS Naturals, Sequences

CONSTANTS HEADER_MAX,   \* size of the C arrays of fields and of values
          MaxMessages,  \* bound: messages of one connection
          MaxHeaders,   \* bound: headers, trailers included, of one message
          MaxCuts       \* bound: texts and bodies cut by the end of an input chunk

ASSUME HeaderMaxAssumption == HEADER_MAX \in Nat /\ HEADER_MAX >= 2
ASSUME BoundsAssumption == {MaxMessages, MaxHeaders, MaxCuts} \subseteq Nat \ {0}

VARIABLES type,      \* "request" | "response": what is parsed
          gram,      \* state of the library, see OnMessageBegin
          url,       \* text: the url; of a response, its status text
          fields, values, n_fields, n_values,   \* the C arrays
          flushed,   \* some headers went to JavaScript before
          _headers, _url,  \* parser._headers and parser._url of JavaScript
          sent,      \* history: the messages as the peer sent them
          cuts,      \* history: how many texts were cut
          incoming   \* the messages that JavaScript was given

wrapVars == <<url, fields, values, n_fields, n_values, flushed>>
jsVars == <<_headers, _url>>
parserVars == <<type, gram, wrapVars, jsVars, sent, cuts, incoming>>

m == Len(sent)        \* number of the message being parsed
h == Len(sent[m].heads)   \* number of the header being parsed
Slots == 1 .. HEADER_MAX

\* iotjs_httpparserwrap_create() and _initialize().
HttpParserInit ==
  /\ gram = "idle"
  /\ url = <<>> /\ n_fields = 0 /\ n_values = 0 /\ flushed = FALSE
  /\ fields = [s \in Slots |-> <<>>] /\ values = [s \in Slots |-> <<>>]
  /\ _headers = <<>> /\ _url = <<>>
  /\ sent = <<>> /\ cuts = 0 /\ incoming = <<>>

\* The headers in the C arrays, as pairs of a field and a value.
make_header == [s \in 1 .. n_values |-> <<fields[s], values[s]>>]

\* iotjs_httpparserwrap_flush() and parserOnHeaders(): the headers are
\* appended to _headers; a url that is not empty to _url, and forgotten.
Flush ==
  /\ _headers' = _headers \o make_header
  /\ IF type = "request"
     THEN _url' = _url \o url /\ url' = <<>>
     ELSE UNCHANGED <<_url, url>>
  /\ flushed' = TRUE

\* A piece more of what the peer sends, in the history: the first one of a
\* text, or one that follows a cut.
Cut(pieces) ==
  /\ pieces > 0 => cuts < MaxCuts
  /\ cuts' = IF pieces > 0 THEN cuts + 1 ELSE cuts
SendPiece(f) == Cut(sent[m][f]) /\ sent' = [sent EXCEPT ![m][f] = @ + 1]
SendHead(f) ==
  Cut(sent[m].heads[h][f]) /\ sent' = [sent EXCEPT ![m].heads[h][f] = @ + 1]

\* A message of no headers and no body yet; trailers from header `trail' on.
Message == [url |-> 0, heads |-> <<>>, trail |-> MaxHeaders + 1, body |-> 0]

\* Mutant of on_message_begin: the text of the message before is kept.
on_message_begin_keeps ==
  /\ gram = "idle" /\ Len(sent) < MaxMessages
  /\ gram' = "line"
  /\ sent' = Append(sent, Message)
  /\ UNCHANGED <<type, wrapVars, jsVars, cuts, incoming>>

\* gram: idle, line, field, value, body (its length is known), eof (it ends
\* with the connection), done, tfield and tvalue (trailers), dead (error).
on_message_begin ==
  /\ gram = "idle" /\ Len(sent) < MaxMessages
  /\ gram' = "line" /\ url' = <<>>
  /\ sent' = Append(sent, Message)
  /\ UNCHANGED <<type, fields, values, n_fields, n_values, flushed, jsVars, cuts, incoming>>

\* on_url() of a request, on_status() of a response.
on_url ==
  /\ gram = "line"
  /\ url' = Append(url, <<m, 0, sent[m].url + 1>>)
  /\ SendPiece("url")
  /\ UNCHANGED <<type, gram, fields, values, n_fields, n_values, flushed, jsVars, incoming>>

\* Mutant of NewSlot: the array is flushed one header too late.
NewSlotLate(piece) ==
  IF n_fields = HEADER_MAX
  THEN /\ Flush
       /\ n_fields' = 1 /\ n_values' = 0
       /\ fields' = [fields EXCEPT ![1] = <<piece>>]
  ELSE /\ n_fields' = n_fields + 1
       /\ fields' = [fields EXCEPT ![n_fields + 1] = <<piece>>]
       /\ UNCHANGED <<url, n_values, flushed, jsVars>>

\* The first piece of a field takes a new slot, a full array is flushed.
NewSlot(piece) ==
  IF n_fields + 1 = HEADER_MAX
  THEN /\ Flush
       /\ n_fields' = 1 /\ n_values' = 0
       /\ fields' = [fields EXCEPT ![1] = <<piece>>]
  ELSE /\ n_fields' = n_fields + 1
       /\ fields' = [fields EXCEPT ![n_fields + 1] = <<piece>>]
       /\ UNCHANGED <<url, n_values, flushed, jsVars>>

\* The library begins a field in state `to', or goes on with one that the
\* end of an input chunk has cut.
BeginField(to, trail) ==
  /\ Len(sent[m].heads) < MaxHeaders
  /\ gram' = to
  /\ sent' = [sent EXCEPT ![m].heads = Append(@, [field |-> 1, value |-> 0]),
                          ![m].trail = trail]
  /\ UNCHANGED cuts
FieldPiece ==
  \/ gram \in {"line", "value"} /\ sent[m].url > 0 /\ BeginField("field", sent[m].trail)
  \/ gram = "body" /\ BeginField("tfield", h + 1)
  \/ gram = "tvalue" /\ BeginField("tfield", sent[m].trail)
  \/ /\ gram \in {"field", "tfield"}
     /\ SendHead("field") /\ UNCHANGED gram

\* A field begins when every slot taken has its value.
on_header_field ==
  LET piece == IF gram \in {"field", "tfield"}
               THEN <<m, h, sent[m].heads[h].field + 1>>
               ELSE <<m, h + 1, 1>>
  IN  /\ FieldPiece
      /\ IF n_fields = n_values
         THEN NewSlot(piece)
         ELSE /\ fields' = [fields EXCEPT ![n_fields] = Append(@, piece)]
              /\ UNCHANGED <<url, n_fields, n_values, flushed, jsVars>>
      /\ UNCHANGED <<type, values, incoming>>

on_header_value ==
  LET piece == <<m, h, sent[m].heads[h].value + 1>>
  IN  /\ gram \in {"field", "value", "tfield", "tvalue"}
      /\ gram' = IF gram \in {"field", "value"} THEN "value" ELSE "tvalue"
      /\ SendHead("value")
      /\ IF n_fields # n_values
         THEN /\ n_values' = n_values + 1
              /\ values' = [values EXCEPT ![n_values + 1] = <<piece>>]
         ELSE /\ n_values' = n_values
              /\ values' = [values EXCEPT ![n_values] = Append(@, piece)]
      /\ UNCHANGED <<type, url, fields, n_fields, flushed, jsVars, incoming>>

\* parserOnHeadersComplete(): `this.url' is reset, `this._url' is not.
Incoming(u, hs) == [url |-> u, headers |-> hs, body |-> <<>>, complete |-> FALSE]

\* With headers flushed before, the rest follows them the same way.
on_headers_complete ==
  /\ gram \in {"line", "value"} /\ sent[m].url > 0
  /\ gram' \in IF type = "request" THEN {"body", "done"} ELSE {"body", "done", "eof"}
  /\ n_fields' = 0 /\ n_values' = 0
  /\ IF flushed
     THEN /\ incoming' = Append(incoming,
                           Incoming(IF type = "request" THEN _url \o url ELSE url,
                                    _headers \o make_header))
          /\ _headers' = <<>>
          /\ IF type = "request"
             THEN _url' = _url \o url /\ url' = <<>>
             ELSE UNCHANGED <<_url, url>>
     ELSE /\ incoming' = Append(incoming, Incoming(url, make_header))
          /\ UNCHANGED <<_headers, _url, url>>
  /\ UNCHANGED <<type, fields, values, flushed, sent, cuts>>

\* The slice of the current buffer is pushed to the stream.
on_body ==
  /\ gram \in {"body", "eof"}
  /\ SendPiece("body")
  /\ incoming' = [incoming EXCEPT ![Len(incoming)].body = Append(@, <<m, sent[m].body + 1>>)]
  /\ UNCHANGED <<type, gram, wrapVars, jsVars>>

\* parserOnMessageComplete(): end of the stream, nothing is flushed.
MessageComplete ==
  /\ gram' = "idle"
  /\ incoming' = [incoming EXCEPT ![Len(incoming)].complete = TRUE]
  /\ UNCHANGED <<type, wrapVars, jsVars, sent, cuts>>

on_message_complete == gram \in {"body", "done", "tvalue"} /\ MessageComplete

\* The callbacks that http_parser_execute() makes for an input chunk.
Callback ==
  \/ on_message_begin \/ on_url \/ on_header_field \/ on_header_value
  \/ on_headers_complete \/ on_body \/ on_message_complete

\* Execute() returns an error object: the input is not HTTP.
ParseError ==
  /\ gram # "dead" /\ gram' = "dead"
  /\ UNCHANGED <<type, wrapVars, jsVars, sent, cuts, incoming>>

\* Finish(): the connection has ended.  A body that lasts until then is
\* complete; between messages nothing happens; else it is an error.
Finish ==
  \/ gram = "eof" /\ MessageComplete
  \/ gram \in {"idle", "dead"} /\ UNCHANGED parserVars
  \/ gram \notin {"eof", "idle", "dead"} /\ ParseError
FinishFails == gram \notin {"eof", "idle", "dead"}
============================================================================
