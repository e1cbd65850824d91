---------------------------- MODULE HttpProofs -----------------------------
(***************************************************************************)
(* Proofs about an HTTP connection and its parser, for every size of the   *)
(* parser's arrays and every number of messages, headers and chunks.       *)
(*                                                                         *)
(* What JavaScript gets is exact because at every moment the headers that  *)
(* were flushed to JavaScript, followed by those in the C arrays, are the  *)
(* headers the peer has sent of the message so far (SlotsHold), and the    *)
(* same holds of the url.  Trailers break it for the next message: they    *)
(* stay in the arrays, so the claim is about messages with plain           *)
(* predecessors (Plain).                                                   *)
(*                                                                         *)
(* The body of a message reaches its reader through a readable stream (an  *)
(* IncomingMessage is one).  ReadableStream is proved about here as well,  *)
(* for every set of chunks and every depth of nesting.                     *)
(***************************************************************************)
EXTENDS Http, ReadableStream, SequenceTheorems, TLAPS

-----------------------------------------------------------------------------
(* The inductive invariant of the connection.                              *)

Piece == Nat \X Nat \X Nat
Header == Seq(Piece) \X Seq(Piece)
Head1 == [field : Nat, value : Nat]
SentMessage == [url : Nat, heads : Seq(Head1), trail : Nat \ {0}, body : Nat]
GotMessage ==
  [url : Seq(Piece), headers : Seq(Header), body : Seq(Nat \X Nat), complete : BOOLEAN]

\* The states of the library before the headers of a message are complete, and after.
Opening == {"line", "field", "value"}
Trailing == {"tfield", "tvalue"}
Contents == {"body", "eof", "done"}

TypePart ==
  /\ type \in {"request", "response"}
  /\ gram \in Opening \cup Trailing \cup Contents \cup {"idle", "dead"}
  /\ sent \in Seq(SentMessage) /\ incoming \in Seq(GotMessage)
  /\ \A k \in 1 .. Len(sent) : Len(sent[k].heads) <= MaxHeaders
  /\ fields \in [Slots -> Seq(Piece)] /\ values \in [Slots -> Seq(Piece)]
  /\ n_fields \in Nat /\ n_values \in Nat /\ flushed \in BOOLEAN
  /\ url \in Seq(Piece) /\ _url \in Seq(Piece) /\ _headers \in Seq(Header)

\* Which message is being parsed: it is given to JavaScript when its headers are complete.
CountPart ==
  /\ gram \notin {"idle", "dead"} => Len(sent) > 0
  /\ gram \in Opening => Len(incoming) = Len(sent) - 1
  /\ gram \in Trailing \cup Contents \cup {"idle"} => Len(incoming) = Len(sent)
  /\ gram = "dead" => Len(incoming) <= Len(sent)

SlotPart == SlotsInBounds /\ (gram \in {"value", "tvalue"} => n_fields > 0)

\* No trailers in the messages up to k.
Plain(k) == \A j \in 1 .. k : ~Trailers(j)

\* Header i of message k, as the peer has sent it so far.
SentHeader(k, i) ==
  <<Text(k, i, sent[k].heads[i].field), Text(k, i, sent[k].heads[i].value)>>

\* The headers of message k so far: those that were flushed, then those in the C arrays.
SlotsHold(k) ==
  LET f == Len(_headers)
  IN  /\ f + n_fields = Len(sent[k].heads)
      /\ \A i \in 1 .. f : _headers[i] = SentHeader(k, i)
      /\ \A i \in 1 .. n_fields : fields[i] = Text(k, f + i, sent[k].heads[f + i].field)
      /\ \A i \in 1 .. n_values : values[i] = Text(k, f + i, sent[k].heads[f + i].value)

\* Of a message that is opening: no trailer, no body, the headers in the slots.
OpenPart ==
  gram \in Opening =>
    LET k == Len(sent)
    IN  /\ sent[k].trail = MaxHeaders + 1 /\ sent[k].body = 0
        /\ gram = "line" <=> sent[k].heads = <<>>
        /\ gram = "field" => sent[k].heads[Len(sent[k].heads)].value = 0
        /\ Plain(k - 1) => SlotsHold(k)

\* What the message leaves in the slots for the next one: nothing, without trailers.
RestPart ==
  /\ gram \in Contents => sent[Len(sent)].trail = MaxHeaders + 1
  /\ gram \in Trailing => Trailers(Len(sent))
  /\ gram \in Contents \cup {"idle"} /\ Plain(Len(sent)) => n_fields = 0 /\ _headers = <<>>
  /\ ~flushed => _headers = <<>> /\ _url = <<>>

\* Where the url or status text of the message is.
UrlPart ==
  /\ flushed => Len(sent) > 0 /\ ~(gram = "line" /\ Len(sent) = 1)
  /\ gram \in Opening =>
       LET k == Len(sent)
       IN  /\ type = "response" \/ ~flushed => url = Text(k, 0, sent[k].url)
           /\ k = 1 /\ type = "request" => _url \o url = Text(k, 0, sent[k].url)

ParserInv == TypePart /\ CountPart /\ SlotPart /\ OpenPart /\ RestPart /\ UrlPart /\ MessagesExact

SocketType == [handle : {"open", "closing", "closed"}, ending : BOOLEAN, ended : BOOLEAN,
               waits : BOOLEAN, tick : BOOLEAN, pending : Nat]

\* A socket that was ended is waited for by a destroy(), 'finish' closes the handle, and what
\* is pending by then was written in the tick before (lt).
SocketInv(s, lt) ==
  /\ s \in SocketType
  /\ s.ended <=> s.handle # "open"
  /\ s.ending => s.waits
  /\ s.tick => s.ending /\ ~s.ended
  /\ s.ended => s.ending
  /\ s.tick \/ s.ended => s.pending = 0 \/ lt

\* The owner of a server's socket, while there was one request, and what 'close' counted.
OwnerInv ==
  Server =>
    /\ Len(outgoing) = 1 => res = (IF outgoing[1] = "ended" THEN 0 ELSE 1)
    /\ sock.handle = "closed" => closes = (IF res # 0 THEN Len(outgoing) ELSE 0)

ConnInv ==
  /\ SocketInv(sock, late) /\ late \in BOOLEAN
  /\ outgoing \in Seq({"open", "ended"})
  /\ sock.handle = "closed" => ~exec
  /\ OwnerInv

-----------------------------------------------------------------------------
(* Texts.                                                                  *)

\* The record of a message that the peer sends.
LEMMA SentFields ==
    \A g \in SentMessage : /\ g.heads \in Seq(Head1) /\ Len(g.heads) \in Nat /\ g.body \in Nat
                           /\ g.trail \in Nat \ {0} /\ g.trail \in Nat /\ g.trail - 1 \in Nat
  BY DEF SentMessage

\* A text of n pieces is a sequence of them.
LEMMA TextFacts ==
    ASSUME NEW k \in Nat, NEW i \in Nat, NEW n \in Nat
    PROVE  /\ Text(k, i, n) \in Seq(Piece) /\ Len(Text(k, i, n)) = n
           /\ \A p \in 1 .. n : Text(k, i, n)[p] = <<k, i, p>>
<1>1. \A p \in 1 .. n : <<k, i, p>> \in Piece
  BY DEF Piece
<1> QED
  BY <1>1, IsASeq DEF Text

\* A text of which nothing was sent.
LEMMA TextZero ==
    ASSUME NEW k \in Nat, NEW i \in Nat
    PROVE  Text(k, i, 0) = <<>>
<1>1. Text(k, i, 0) \in Seq(Piece) /\ Len(Text(k, i, 0)) = 0
  BY TextFacts
<1> QED
  BY <1>1, EmptySeq

\* One piece more.
LEMMA TextNext ==
    ASSUME NEW k \in Nat, NEW i \in Nat, NEW n \in Nat
    PROVE  Append(Text(k, i, n), <<k, i, n + 1>>) = Text(k, i, n + 1)
<1> DEFINE t == Text(k, i, n)
           u == Text(k, i, n + 1)
           x == <<k, i, n + 1>>
<1>1. t \in Seq(Piece) /\ Len(t) = n /\ \A p \in 1 .. n : t[p] = <<k, i, p>>
  BY TextFacts
<1>2. u \in Seq(Piece) /\ Len(u) = n + 1 /\ \A p \in 1 .. n + 1 : u[p] = <<k, i, p>>
  <2> DEFINE z == n + 1
  <2>1. z \in Nat
    OBVIOUS
  <2> HIDE DEF z
  <2>2. /\ Text(k, i, z) \in Seq(Piece) /\ Len(Text(k, i, z)) = z
        /\ \A p \in 1 .. z : Text(k, i, z)[p] = <<k, i, p>>
    BY <2>1, TextFacts
  <2> QED
    BY <2>2 DEF z
<1>3. x \in Piece
  BY DEF Piece
<1> HIDE DEF t, u
<1>4. u[n + 1] = x /\ \A p \in 1 .. n : u[p] = t[p]
  <2>1. n + 1 \in 1 .. n + 1 /\ \A p \in 1 .. n : p \in 1 .. n + 1
    OBVIOUS
  <2> QED
    BY <1>1, <1>2, <2>1
<1> HIDE DEF x
<1>5. /\ Append(t, x) \in Seq(Piece) /\ Len(Append(t, x)) = n + 1
      /\ Append(t, x)[n + 1] = x /\ \A p \in 1 .. n : Append(t, x)[p] = t[p]
  BY <1>1, <1>3, AppendProperties
<1>6. \A p \in 1 .. n + 1 : Append(t, x)[p] = u[p]
  BY <1>4, <1>5
<1>7. Append(t, x) = u
  BY <1>2, <1>5, <1>6, SeqEqual
<1> QED
  BY <1>7 DEF t, u, x

\* The first piece of a text.
LEMMA TextOne ==
    ASSUME NEW k \in Nat, NEW i \in Nat
    PROVE  Text(k, i, 1) = <<<<k, i, 1>>>>
<1>1. Append(<<>>, <<k, i, 0 + 1>>) = Text(k, i, 0 + 1)
  BY TextZero, TextNext, Zenon
<1> QED
  BY <1>1

-----------------------------------------------------------------------------
(* What the steps leave alone.                                             *)

\* The messages that JavaScript has, when it gets no other and the peer adds nothing to them
\* but trailers.
LEMMA MessagesStay ==
    ASSUME MessagesExact, type' = type, flushed => flushed',
           Len(incoming') = Len(incoming),
           \A k \in 1 .. Len(incoming) :
             /\ incoming'[k].headers = incoming[k].headers /\ incoming'[k].url = incoming[k].url
             /\ incoming'[k].body = incoming[k].body
             /\ sent'[k].url = sent[k].url /\ sent'[k].body = sent[k].body
             /\ SentHeaders(k)' = SentHeaders(k)
             /\ Trailers(k) => Trailers(k)'
    PROVE  MessagesExact'
<1> SUFFICES ASSUME NEW k \in 1 .. Len(incoming)
             PROVE  HeadersExact(k)' /\ UrlExact(k)' /\ BodyExact(k)'
  BY DEF MessagesExact
<1>1. HeadersExact(k) /\ UrlExact(k) /\ BodyExact(k)
  BY DEF MessagesExact
<1>2. HeadersExact(k)'
  <2>1. (\A j \in 1 .. k - 1 : ~Trailers(j)') => \A j \in 1 .. k - 1 : ~Trailers(j)
    OBVIOUS
  <2> QED
    BY <1>1, <2>1 DEF HeadersExact
<1>3. UrlExact(k)'
  BY <1>1 DEF UrlExact, Server
<1>4. BodyExact(k)'
  BY <1>1 DEF BodyExact
<1> QED
  BY <1>2, <1>3, <1>4

\* A message that is not changed keeps its headers and trailers.
LEMMA SameMessage ==
    ASSUME NEW k, sent'[k] = sent[k]
    PROVE  /\ SentHeaders(k)' = SentHeaders(k) /\ Trailers(k)' = Trailers(k)
           /\ \A i : SentHeader(k, i)' = SentHeader(k, i)
  BY DEF SentHeaders, Trailers, SentHeader

-----------------------------------------------------------------------------
(* The callbacks of the library.                                           *)

\* A new parser.
LEMMA HttpParserInitInv ==
    ASSUME type \in {"request", "response"}, HttpParserInit
    PROVE  ParserInv
<1>1. <<>> \in Seq(SentMessage) /\ <<>> \in Seq(GotMessage) /\ <<>> \in Seq(Piece)
      /\ <<>> \in Seq(Header) /\ Len(<<>>) = 0
  OBVIOUS
<1>2. TypePart
  <2>1. [s \in Slots |-> <<>>] \in [Slots -> Seq(Piece)]
    BY <1>1
  <2>2. gram \in {"idle", "dead"} /\ n_fields \in Nat /\ n_values \in Nat
    BY DEF HttpParserInit
  <2>3. fields \in [Slots -> Seq(Piece)] /\ values \in [Slots -> Seq(Piece)]
    BY <2>1 DEF HttpParserInit
  <2> QED
    <3>1. sent = <<>> /\ \A k \in 1 .. Len(sent) : Len(sent[k].heads) <= MaxHeaders
      BY <1>1 DEF HttpParserInit
    <3>2. /\ url = <<>> /\ _url = <<>> /\ _headers = <<>> /\ incoming = <<>>
          /\ flushed \in BOOLEAN
      BY DEF HttpParserInit
    <3> QED
      BY <1>1, <2>2, <2>3, <3>1, <3>2, Zenon DEF TypePart
<1>3. CountPart /\ OpenPart /\ RestPart /\ UrlPart /\ MessagesExact
  BY <1>1 DEF HttpParserInit, CountPart, OpenPart, RestPart, UrlPart, MessagesExact,
              Opening, Trailing, Contents
<1>4. SlotPart
  BY HeaderMaxAssumption DEF HttpParserInit, SlotPart, SlotsInBounds
<1> QED
  BY <1>2, <1>3, <1>4 DEF ParserInv

\* on_message_begin(): a message that is empty so far.
LEMMA BeginKeeps ==
    ASSUME ParserInv, on_message_begin
    PROVE  ParserInv'
<1> PICK k : k = Len(sent)
  OBVIOUS
<1>1. /\ gram = "idle" /\ gram' = "line" /\ url' = <<>> /\ sent' = Append(sent, Message)
      /\ UNCHANGED <<type, fields, values, n_fields, n_values, flushed, _headers, _url, incoming>>
  BY DEF on_message_begin, jsVars
<1>2. Message \in SentMessage /\ Len(Message.heads) = 0 /\ Message.heads = <<>>
      /\ Message.trail = MaxHeaders + 1 /\ Message.body = 0 /\ Message.url = 0
      /\ MaxHeaders \in Nat
  BY BoundsAssumption DEF Message, SentMessage
<1>3. /\ sent' \in Seq(SentMessage) /\ Len(sent') = k + 1 /\ k \in Nat
      /\ sent'[k + 1] = Message /\ \A j \in 1 .. k : sent'[j] = sent[j]
  BY <1>1, <1>2 DEF ParserInv, TypePart
<1>4. TypePart'
  <2>1. \A j \in 1 .. k + 1 : Len(sent'[j].heads) <= MaxHeaders
    <3>1. \A j \in 1 .. k + 1 : j = k + 1 \/ j \in 1 .. k
      BY <1>3
    <3>2. Len(sent'[k + 1].heads) <= MaxHeaders
      BY <1>2, <1>3
    <3>3. \A j \in 1 .. k : Len(sent'[j].heads) <= MaxHeaders
      BY <1>3 DEF ParserInv, TypePart
    <3> QED
      BY <3>1, <3>2, <3>3
  <2>2. gram' \in Opening
    BY <1>1 DEF Opening
  <2> QED
    BY <1>1, <1>3, <2>1, <2>2 DEF ParserInv, TypePart
<1>5. CountPart' /\ SlotPart'
  BY <1>1, <1>3 DEF ParserInv, CountPart, SlotPart, SlotsInBounds, Opening, Trailing, Contents
<1>6. Plain(k)' <=> Plain(k)
  BY <1>3, SameMessage DEF Plain
<1>7. OpenPart'
  <2>1. Plain(k)' => SlotsHold(k + 1)'
    <3> HAVE Plain(k)'
    <3>1. n_fields = 0 /\ _headers = <<>> /\ n_values = 0
      BY <1>1, <1>6 DEF ParserInv, TypePart, RestPart, Contents, SlotPart, SlotsInBounds
    <3> QED
      BY <1>1, <1>2, <1>3, <3>1 DEF SlotsHold
  <2>2. (k + 1) - 1 = k
    BY <1>3
  <2> QED
    BY <1>1, <1>2, <1>3, <2>1, <2>2 DEF OpenPart
<1>8. RestPart'
  BY <1>1 DEF ParserInv, RestPart, Contents, Trailing
<1>9. UrlPart'
  <2>1. Text(k + 1, 0, 0) = <<>>
    BY <1>3, TextZero
  <2>2. k + 1 = 1 => ~flushed
    BY <1>3 DEF ParserInv, UrlPart
  <2>3. ~flushed => _url \o <<>> = <<>>
    BY DEF ParserInv, RestPart
  <2> QED
    BY <1>1, <1>2, <1>3, <2>1, <2>2, <2>3 DEF UrlPart
<1>10. MessagesExact'
  <2>1. Len(incoming) = k
    BY <1>1 DEF ParserInv, CountPart
  <2> QED
    BY <1>1, <1>3, <2>1, MessagesStay, SameMessage DEF ParserInv
<1> QED
  BY <1>4, <1>5, <1>7, <1>8, <1>9, <1>10 DEF ParserInv

\* The peer adds to the message that is being parsed.
LEMMA SentStep ==
    ASSUME ParserInv, gram \notin {"idle", "dead"}, NEW r \in SentMessage,
           sent' = [sent EXCEPT ![Len(sent)] = r], Len(r.heads) <= MaxHeaders
    PROVE  /\ sent' \in Seq(SentMessage) /\ Len(sent') = Len(sent)
           /\ Len(sent) \in Nat \ {0} /\ sent'[Len(sent)] = r
           /\ \A j \in 1 .. Len(sent) - 1 : sent'[j] = sent[j]
           /\ \A j \in 1 .. Len(sent) : Len(sent'[j].heads) <= MaxHeaders
           /\ Plain(Len(sent) - 1)' <=> Plain(Len(sent) - 1)
<1> PICK k : k = Len(sent)
  OBVIOUS
<1>1. sent \in Seq(SentMessage) /\ k \in Nat /\ k > 0
  BY DEF ParserInv, TypePart, CountPart
<1>2. k \in 1 .. k /\ \A j \in 1 .. k - 1 : j \in 1 .. k /\ j # k
  BY <1>1
<1>3. /\ sent' \in Seq(SentMessage) /\ Len(sent') = k
      /\ sent'[k] = r /\ \A j \in 1 .. k : j # k => sent'[j] = sent[j]
  BY <1>1, <1>2, ExceptSeq
<1>4. \A j \in 1 .. k : Len(sent'[j].heads) <= MaxHeaders
  BY <1>3 DEF ParserInv, TypePart
<1>5. Plain(k - 1)' <=> Plain(k - 1)
  BY <1>2, <1>3, SameMessage DEF Plain
<1> QED
  BY <1>1, <1>2, <1>3, <1>4, <1>5

\* The record of a message whose url grows.
LEMMA SentUrl ==
    ASSUME NEW g \in SentMessage
    PROVE  LET r == [g EXCEPT !.url = g.url + 1]
           IN  /\ r \in SentMessage /\ r.url = g.url + 1 /\ g.url \in Nat /\ r.heads = g.heads
               /\ r.trail = g.trail /\ r.body = g.body
  BY DEF SentMessage

\* on_url() and on_status().
LEMMA UrlKeeps ==
    ASSUME ParserInv, on_url
    PROVE  ParserInv'
<1> PICK k : k = Len(sent)
  OBVIOUS
<1> DEFINE n == sent[k].url
           r == [sent[k] EXCEPT !.url = n + 1]
           x == <<k, 0, n + 1>>
<1>1. /\ gram = "line" /\ url' = Append(url, x) /\ sent' = [sent EXCEPT ![k].url = @ + 1]
      /\ UNCHANGED <<type, gram, fields, values, n_fields, n_values, flushed, _headers, _url,
                     incoming>>
  BY DEF on_url, jsVars, SendPiece, m
<1>2. sent \in Seq(SentMessage) /\ k \in Nat /\ k > 0 /\ sent[k] \in SentMessage
      /\ Len(sent[k].heads) <= MaxHeaders
  BY <1>1 DEF ParserInv, TypePart, CountPart
<1>3. /\ r \in SentMessage /\ r.url = n + 1 /\ n \in Nat /\ r.heads = sent[k].heads
      /\ r.trail = sent[k].trail /\ r.body = sent[k].body
  BY <1>2, SentUrl
<1>4. sent' = [sent EXCEPT ![k] = r]
  BY <1>1
<1> HIDE DEF r
<1>5. /\ sent' \in Seq(SentMessage) /\ Len(sent') = k /\ sent'[k] = r
      /\ \A j \in 1 .. k - 1 : sent'[j] = sent[j]
      /\ \A j \in 1 .. k : Len(sent'[j].heads) <= MaxHeaders
      /\ Plain(k - 1)' <=> Plain(k - 1)
  BY <1>1, <1>2, <1>3, <1>4, SentStep
<1>6. x \in Piece
  BY <1>2, <1>3 DEF Piece
<1>7. TypePart'
  BY <1>1, <1>5, <1>6, AppendProperties DEF ParserInv, TypePart
<1>8. CountPart' /\ SlotPart'
  BY <1>1, <1>5 DEF ParserInv, CountPart, SlotPart, SlotsInBounds
<1>9. OpenPart'
  <2>1. SlotsHold(k)' <=> SlotsHold(k)
    BY <1>1, <1>3, <1>5 DEF SlotsHold, SentHeader
  <2> QED
    BY <1>1, <1>3, <1>5, <2>1 DEF ParserInv, OpenPart, Opening
<1>10. RestPart'
  BY <1>1 DEF ParserInv, RestPart, Contents, Trailing
<1>11. UrlPart'
  <2>1. (type = "response" \/ ~flushed) => url' = Text(k, 0, n + 1)
    <3> HAVE type = "response" \/ ~flushed
    <3>1. url = Text(k, 0, n)
      BY <1>1 DEF ParserInv, UrlPart, Opening
    <3> QED
      BY <1>1, <1>2, <1>3, <3>1, TextNext, Zenon
  <2>2. k = 1 /\ type = "request" => _url \o url' = Text(k, 0, n + 1)
    <3> HAVE k = 1 /\ type = "request"
    <3>1. ~flushed /\ _url = <<>>
      BY <1>1 DEF ParserInv, UrlPart, RestPart
    <3>2. url' \in Seq(Piece)
      BY <1>7 DEF TypePart
    <3>3. <<>> \o url' = url'
      BY <3>2, ConcatEmptySeq
    <3> QED
      BY <2>1, <3>1, <3>3
  <2> QED
    BY <1>1, <1>2, <1>3, <1>5, <2>1, <2>2 DEF ParserInv, UrlPart
<1>12. MessagesExact'
  <2>1. Len(incoming) = k - 1
    BY <1>1 DEF ParserInv, CountPart, Opening
  <2> QED
    BY <1>1, <1>5, <2>1, MessagesStay, SameMessage DEF ParserInv
<1> QED
  BY <1>7, <1>8, <1>9, <1>10, <1>11, <1>12 DEF ParserInv

\* A field or a value is continued, or a value begun.
LEMMA SentHeadGrows ==
    ASSUME NEW g \in SentMessage, NEW f \in {"field", "value"},
           NEW n, n = Len(g.heads), n > 0, NEW r, r = [g EXCEPT !.heads[n][f] = @ + 1]
    PROVE  /\ r \in SentMessage /\ r.url = g.url /\ r.trail = g.trail /\ r.body = g.body
           /\ n \in Nat /\ Len(r.heads) = n /\ \A i \in 1 .. n - 1 : r.heads[i] = g.heads[i]
           /\ r.heads[n][f] = g.heads[n][f] + 1 /\ g.heads[n][f] \in Nat
           /\ f = "field" => r.heads[n].value = g.heads[n].value
           /\ f = "value" => r.heads[n].field = g.heads[n].field
<1> DEFINE e == [g.heads[n] EXCEPT ![f] = @ + 1]
           hs == [g.heads EXCEPT ![n] = e]
<1>0. r = [g EXCEPT !.heads = hs]
  OBVIOUS
<1>1. g.heads \in Seq(Head1) /\ n \in Nat /\ n \in 1 .. n /\ g.heads[n] \in Head1
  BY DEF SentMessage
<1>2. /\ e \in Head1 /\ e[f] = g.heads[n][f] + 1 /\ g.heads[n][f] \in Nat
      /\ f = "field" => e.value = g.heads[n].value
      /\ f = "value" => e.field = g.heads[n].field
  BY <1>1 DEF Head1
<1> HIDE DEF e
<1>3. /\ hs \in Seq(Head1) /\ Len(hs) = n /\ hs[n] = e
      /\ \A i \in 1 .. n : i # n => hs[i] = g.heads[i]
  BY <1>1, <1>2, ExceptSeq
<1>4. \A i \in 1 .. n - 1 : i \in 1 .. n /\ i # n
  BY <1>1
<1> HIDE DEF hs
<1>5. r \in SentMessage /\ r.url = g.url /\ r.trail = g.trail /\ r.body = g.body /\ r.heads = hs
  BY <1>0, <1>3 DEF SentMessage
<1> QED
  BY <1>1, <1>2, <1>3, <1>4, <1>5

\* The headers in the C arrays.
LEMMA MakeHeader ==
    ASSUME TypePart, SlotsInBounds
    PROVE  /\ make_header \in Seq(Header) /\ Len(make_header) = n_values
           /\ \A i \in 1 .. n_values : make_header[i] = <<fields[i], values[i]>>
<1>1. \A i \in 1 .. n_values : i \in Slots
  BY HeaderMaxAssumption DEF TypePart, SlotsInBounds, Slots
<1>2. \A i \in 1 .. n_values : <<fields[i], values[i]>> \in Header
  BY <1>1 DEF TypePart, Header
<1> QED
  BY <1>2, IsASeq DEF make_header, TypePart

\* A new slot is taken; the array is flushed if it is full.
LEMMA SlotTaken ==
    ASSUME TypePart, SlotsInBounds, n_fields = n_values, NEW piece \in Piece, NewSlot(piece)
    PROVE  /\ fields' \in [Slots -> Seq(Piece)] /\ url' \in Seq(Piece) /\ _url' \in Seq(Piece)
           /\ _headers' \in Seq(Header) /\ flushed' \in BOOLEAN /\ (flushed => flushed')
           /\ n_fields' \in Nat /\ n_values' \in Nat /\ n_fields' < HEADER_MAX /\ n_fields' > 0
           /\ n_values' = n_fields' - 1 /\ fields'[n_fields'] = <<piece>>
           /\ \/ /\ n_values' = 0 /\ flushed' /\ _headers' = _headers \o make_header
                 /\ type = "request" => _url' = _url \o url /\ url' = <<>>
                 /\ type # "request" => _url' = _url /\ url' = url
              \/ /\ n_values' = n_values /\ UNCHANGED <<url, _url, flushed, _headers>>
                 /\ \A i \in 1 .. n_values : fields'[i] = fields[i]
<1>1. <<piece>> \in Seq(Piece) /\ <<>> \in Seq(Piece)
  OBVIOUS
<1>2. \A i \in 1 .. n_fields + 1 : i \in Slots
  BY HeaderMaxAssumption DEF TypePart, SlotsInBounds, Slots
<1>3. CASE n_fields + 1 = HEADER_MAX
  <2>1. /\ n_fields' = 1 /\ n_values' = 0 /\ fields' = [fields EXCEPT ![1] = <<piece>>]
        /\ _headers' = _headers \o make_header /\ flushed' = TRUE
        /\ type = "request" => _url' = _url \o url /\ url' = <<>>
        /\ type # "request" => _url' = _url /\ url' = url
    BY <1>3 DEF NewSlot, Flush
  <2>2. _headers' \in Seq(Header) /\ _url \o url \in Seq(Piece)
    BY <2>1, MakeHeader, ConcatProperties DEF TypePart
  <2>3. 1 \in Slots
    BY HeaderMaxAssumption DEF Slots
  <2>4. fields' \in [Slots -> Seq(Piece)] /\ fields'[1] = <<piece>>
    BY <1>1, <2>1, <2>3 DEF TypePart
  <2>5. url' \in Seq(Piece) /\ _url' \in Seq(Piece)
    BY <1>1, <2>1, <2>2 DEF TypePart
  <2>6. n_fields' \in Nat /\ n_values' \in Nat /\ n_fields' < HEADER_MAX /\ n_fields' > 0
        /\ n_values' = n_fields' - 1
    BY <2>1, HeaderMaxAssumption
  <2> QED
    BY <2>1, <2>2, <2>4, <2>5, <2>6
<1>4. CASE n_fields + 1 # HEADER_MAX
  <2>1. /\ n_fields' = n_fields + 1 /\ fields' = [fields EXCEPT ![n_fields + 1] = <<piece>>]
        /\ UNCHANGED <<url, n_values, flushed, _headers, _url>>
    BY <1>4 DEF NewSlot, jsVars
  <2>2. /\ fields' \in [Slots -> Seq(Piece)] /\ fields'[n_fields + 1] = <<piece>>
        /\ \A i \in 1 .. n_values : fields'[i] = fields[i]
    BY <1>1, <1>2, <2>1 DEF TypePart
  <2> QED
    BY <1>4, <2>1, <2>2, HeaderMaxAssumption DEF TypePart, SlotsInBounds
<1> QED
  BY <1>3, <1>4

\* Trailers do not change what was sent before the body.
LEMMA TrailersAfterHeaders ==
    ASSUME NEW k, Trailers(k)', sent[k] \in SentMessage, sent'[k] \in SentMessage,
           sent'[k].trail = IF Trailers(k) THEN sent[k].trail ELSE Len(sent[k].heads) + 1,
           \A i \in 1 .. sent'[k].trail - 1 : sent'[k].heads[i] = sent[k].heads[i]
    PROVE  SentHeaders(k)' = SentHeaders(k)
<1> DEFINE n == sent'[k].trail - 1
<1>1. /\ n \in Nat /\ Len(sent[k].heads) \in Nat /\ Len(sent'[k].heads) \in Nat
      /\ sent[k].trail \in Nat /\ sent'[k].trail \in Nat
  BY SentFields
<1>2. n = IF sent'[k].trail > Len(sent'[k].heads) THEN Len(sent'[k].heads)
          ELSE sent'[k].trail - 1
  BY <1>1 DEF Trailers
<1>3. n = IF sent[k].trail > Len(sent[k].heads) THEN Len(sent[k].heads) ELSE sent[k].trail - 1
  BY <1>1 DEF Trailers
<1> DEFINE F(s) == [i \in 1 .. n |-> <<Text(k, i, s[k].heads[i].field),
                                     Text(k, i, s[k].heads[i].value)>>]
<1>4. SentHeaders(k)' = F(sent') /\ SentHeaders(k) = F(sent)
  BY <1>2, <1>3 DEF SentHeaders
<1> HIDE DEF n
<1>5. F(sent') = F(sent)
  BY DEF n
<1> QED
  BY <1>4, <1>5

\* The first piece of a field.
LEMMA FieldBegins ==
    ASSUME ParserInv, on_header_field, gram \notin {"field", "tfield"}
    PROVE  ParserInv'
<1> PICK k : k = Len(sent)
  OBVIOUS
<1> PICK n : n = Len(sent[k].heads)
  OBVIOUS
<1> DEFINE piece == <<k, n + 1, 1>>
           start == gram \in {"line", "value"}
<1>1. /\ FieldPiece /\ gram \in {"line", "value", "body", "tvalue"}
      /\ UNCHANGED <<type, values, incoming>>
  BY DEF on_header_field, FieldPiece
<1>2. n_fields = n_values /\ NewSlot(piece)
  BY <1>1 DEF on_header_field, ParserInv, SlotPart, SlotsInBounds, m, h
<1>3. PICK t : /\ t = IF gram = "body" THEN n + 1 ELSE sent[k].trail
               /\ n < MaxHeaders /\ gram' = IF start THEN "field" ELSE "tfield"
               /\ sent' = [sent EXCEPT ![k].heads = Append(@, [field |-> 1, value |-> 0]),
                                       ![k].trail = t]
  BY <1>1 DEF FieldPiece, BeginField, m, h
<1>4. /\ sent \in Seq(SentMessage) /\ k \in Nat /\ k > 0 /\ sent[k] \in SentMessage
      /\ n \in Nat /\ sent[k].trail \in Nat \ {0} /\ t \in Nat \ {0} /\ n <= MaxHeaders
      /\ MaxHeaders \in Nat
  <2>1. sent \in Seq(SentMessage) /\ k \in Nat /\ k > 0 /\ sent[k] \in SentMessage
        /\ n <= MaxHeaders
    BY <1>1 DEF ParserInv, TypePart, CountPart
  <2>2. n \in Nat /\ sent[k].trail \in Nat \ {0}
    BY <2>1, SentFields
  <2> QED
    BY <1>3, <2>1, <2>2, BoundsAssumption
<1>49. PICK new : new = [field |-> 1, value |-> 0]
  OBVIOUS
<1>50. PICK r : r = [sent[k] EXCEPT !.heads = Append(@, new), !.trail = t]
  OBVIOUS
<1>5. /\ r \in SentMessage /\ r.url = sent[k].url /\ r.trail = t /\ r.body = sent[k].body
      /\ Len(r.heads) = n + 1
      /\ r.heads[n + 1].field = 1 /\ r.heads[n + 1].value = 0
      /\ \A i \in 1 .. n : r.heads[i] = sent[k].heads[i]
  <2> PICK g : g = sent[k]
    OBVIOUS
  <2> PICK hs : hs = Append(g.heads, new)
    OBVIOUS
  <2>1. g \in SentMessage /\ n = Len(g.heads) /\ g.heads \in Seq(Head1)
    BY <1>4, SentFields
  <2>2. r = [g EXCEPT !.heads = hs, !.trail = t]
    BY <1>50
  <2>3. new \in Head1 /\ new.field = 1 /\ new.value = 0
    BY <1>49 DEF Head1
  <2>4. /\ hs \in Seq(Head1) /\ Len(hs) = n + 1 /\ hs[n + 1] = new
        /\ \A i \in 1 .. n : hs[i] = g.heads[i]
    BY <2>1, <2>3, AppendProperties
  <2>5. r \in SentMessage /\ r.url = g.url /\ r.trail = t /\ r.body = g.body /\ r.heads = hs
    BY <1>4, <2>1, <2>2, <2>4 DEF SentMessage
  <2> QED
    BY <2>3, <2>4, <2>5
<1>51. Len(r.heads) <= MaxHeaders
  BY <1>3, <1>4, <1>5
<1>6. sent' = [sent EXCEPT ![k] = r]
  BY <1>3, <1>4, <1>49, <1>50
<1>7. /\ sent' \in Seq(SentMessage) /\ Len(sent') = k /\ sent'[k] = r
      /\ \A j \in 1 .. k - 1 : sent'[j] = sent[j]
      /\ \A j \in 1 .. k : Len(sent'[j].heads) <= MaxHeaders
      /\ Plain(k - 1)' <=> Plain(k - 1)
  BY <1>1, <1>5, <1>51, <1>6, SentStep
<1>8. piece \in Piece
  BY <1>4 DEF Piece
<1> HIDE DEF piece
<1>9. TypePart /\ SlotsInBounds
  BY DEF ParserInv, SlotPart
<1>10. /\ fields' \in [Slots -> Seq(Piece)] /\ url' \in Seq(Piece) /\ _url' \in Seq(Piece)
       /\ _headers' \in Seq(Header) /\ flushed' \in BOOLEAN /\ (flushed => flushed')
       /\ n_fields' \in Nat /\ n_values' \in Nat /\ n_fields' < HEADER_MAX /\ n_fields' > 0
       /\ n_values' = n_fields' - 1 /\ fields'[n_fields'] = <<piece>>
       /\ \/ /\ n_values' = 0 /\ flushed' /\ _headers' = _headers \o make_header
             /\ type = "request" => _url' = _url \o url /\ url' = <<>>
             /\ type # "request" => _url' = _url /\ url' = url
          \/ /\ n_values' = n_values /\ UNCHANGED <<url, _url, flushed, _headers>>
             /\ \A i \in 1 .. n_values : fields'[i] = fields[i]
  BY <1>2, <1>8, <1>9, SlotTaken
<1>101. /\ n_fields' \in Nat /\ n_values' \in Nat /\ n_fields' < HEADER_MAX /\ n_fields' > 0
        /\ n_values' = n_fields' - 1 /\ n_fields' # n_values'
  <2>1. /\ n_fields' \in Nat /\ n_values' \in Nat /\ n_fields' < HEADER_MAX /\ n_fields' > 0
        /\ n_values' = n_fields' - 1
    BY <1>10, Zenon
  <2>2. \A a \in Nat : a # a - 1
    OBVIOUS
  <2> QED
    BY <2>1, <2>2, Zenon
<1>11. TypePart'
  <2>1. gram' \in Opening \cup Trailing
    BY <1>3 DEF Opening, Trailing
  <2> QED
    BY <1>1, <1>7, <1>9, <1>10, <2>1 DEF TypePart
<1>12. CountPart'
  BY <1>1, <1>3, <1>4, <1>7 DEF ParserInv, CountPart, Opening, Trailing, Contents
<1>13. SlotPart'
  <2>1. gram' \in {"field", "tfield"}
    BY <1>3
  <2> QED
    BY <1>101, <2>1 DEF SlotPart, SlotsInBounds
<1>14. start => t = MaxHeaders + 1 /\ sent[k].body = 0 /\ (Plain(k - 1) => SlotsHold(k))
  BY <1>3 DEF ParserInv, OpenPart, Opening
<1>15. start /\ Plain(k - 1) => SlotsHold(k)'
  <2> SUFFICES ASSUME start, Plain(k - 1)
               PROVE  SlotsHold(k)'
    OBVIOUS
  <2> PICK f : f = Len(_headers)
    OBVIOUS
  <2> PICK g : g = Len(_headers)'
    OBVIOUS
  <2> DEFINE T(i) == Text(k, i, r.heads[i].field)
             U(i) == Text(k, i, r.heads[i].value)
  <2>1. /\ f \in Nat /\ f + n_fields = n
        /\ \A i \in 1 .. f : _headers[i] = SentHeader(k, i)
        /\ \A i \in 1 .. n_fields : fields[i] = Text(k, f + i, sent[k].heads[f + i].field)
        /\ \A i \in 1 .. n_values : values[i] = Text(k, f + i, sent[k].heads[f + i].value)
    <3>1. f \in Nat
      BY <1>9 DEF TypePart
    <3>2. SlotsHold(k)
      BY <1>14
    <3> QED
      BY <3>1, <3>2 DEF SlotsHold
  <2>2. /\ \A i \in 1 .. f : i \in 1 .. n
        /\ \A i \in 1 .. n_fields : f + i \in 1 .. n
    BY <1>9, <2>1 DEF TypePart
  <2>3. /\ \A i \in 1 .. f : _headers[i] = <<T(i), U(i)>>
        /\ \A i \in 1 .. n_fields : fields[i] = T(f + i) /\ values[i] = U(f + i)
    BY <1>2, <1>5, <2>1, <2>2, Zenon DEF SentHeader
  <2>4. <<piece>> = T(n + 1)
    BY <1>4, <1>5, TextOne, SMTT(20) DEF piece
  <2> HIDE DEF T, U
  <2>5. /\ g + n_fields' = n + 1
        /\ \A i \in 1 .. g : _headers'[i] = <<T(i), U(i)>>
        /\ \A i \in 1 .. n_fields' : fields'[i] = T(g + i)
        /\ \A i \in 1 .. n_values' : values[i] = U(g + i)
    <3>1. CASE n_values' = 0 /\ _headers' = _headers \o make_header
      <4>1. /\ make_header \in Seq(Header) /\ Len(make_header) = n_values
            /\ \A i \in 1 .. n_values : make_header[i] = <<fields[i], values[i]>>
        BY <1>9, MakeHeader
      <4>2. _headers \in Seq(Header) /\ n_fields \in Nat
        BY <1>9 DEF TypePart
      <4>3. /\ g = f + n_fields
            /\ \A i \in 1 .. g : _headers'[i] = IF i <= f THEN _headers[i] ELSE make_header[i - f]
        <5> DEFINE a == _headers
                   b == make_header
        <5>1. a \in Seq(Header) /\ b \in Seq(Header) /\ Len(a) = f /\ Len(b) = n_fields
          BY <1>2, <4>1, <4>2
        <5> HIDE DEF a, b
        <5>2. /\ Len(a \o b) = f + n_fields
              /\ \A i \in 1 .. f + n_fields : (a \o b)[i] = IF i <= f THEN a[i] ELSE b[i - f]
          <6>1. /\ Len(a \o b) = Len(a) + Len(b)
                /\ \A i \in 1 .. Len(a) + Len(b) :
                     (a \o b)[i] = IF i <= Len(a) THEN a[i] ELSE b[i - Len(a)]
            BY <5>1, ConcatProperties
          <6> QED
            BY <5>1, <6>1
        <5> QED
          BY <3>1, <5>2 DEF a, b
      <4>4. \A i \in 1 .. g : i <= f \/ (i - f \in 1 .. n_fields /\ f + (i - f) = i)
        BY <2>1, <4>2, <4>3
      <4>5. \A i \in 1 .. g : _headers'[i] = <<T(i), U(i)>>
        <5> TAKE i \in 1 .. g
        <5>1. CASE i <= f
          BY <2>1, <2>3, <4>3, <5>1
        <5>2. CASE ~(i <= f)
          <6> DEFINE x == i - f
          <6>1. x \in 1 .. n_fields /\ f + x = i
            BY <4>4, <5>2
          <6>2. _headers'[i] = make_header[x]
            BY <4>3, <5>2
          <6> HIDE DEF x
          <6>3. make_header[x] = <<T(f + x), U(f + x)>>
            BY <1>2, <2>3, <4>1, <6>1
          <6> QED
            BY <6>1, <6>2, <6>3
        <5> QED
          BY <5>1, <5>2
      <4>6. n_fields' = 1 /\ g + 1 = n + 1
        <5>1. \A a \in Nat : 0 = a - 1 => a = 1
          OBVIOUS
        <5>2. n_fields' = 1
          BY <1>101, <3>1, <5>1
        <5> QED
          BY <2>1, <4>3, <5>2
      <4> QED
        <5>1. \A i \in 1 .. 1 : i = 1
          OBVIOUS
        <5>2. fields'[1] = <<piece>>
          BY <1>10, <4>6
        <5>3. \A i \in 1 .. n_values' : FALSE
          BY <3>1
        <5>4. g + n_fields' = n + 1
          BY <4>6
        <5> QED
          BY <2>4, <4>5, <4>6, <5>1, <5>2, <5>3, <5>4
    <3>2. CASE /\ n_values' = n_values /\ _headers' = _headers
               /\ \A i \in 1 .. n_values : fields'[i] = fields[i]
      <4>1. g = f /\ n_fields' = n_fields + 1 /\ n_fields \in Nat
        <5>1. \A a, b \in Nat : b = a - 1 => a = b + 1
          OBVIOUS
        <5>2. n_fields \in Nat /\ n_values' = n_fields
          BY <1>2, <1>9, <3>2 DEF TypePart
        <5>3. n_fields' = n_fields + 1
          BY <1>101, <5>1, <5>2
        <5> QED
          BY <3>2, <5>2, <5>3
      <4>2. \A i \in 1 .. n_fields + 1 : i = n_fields + 1 \/ i \in 1 .. n_fields
        BY <4>1
      <4>3. g + (n_fields + 1) = n + 1
        BY <1>4, <2>1, <4>1
      <4>4. fields'[n_fields + 1] = T(g + (n_fields + 1))
        <5>1. fields'[n_fields'] = <<piece>>
          BY <1>10
        <5> QED
          BY <2>4, <4>1, <4>3, <5>1
      <4> QED
        BY <1>2, <2>3, <3>2, <4>1, <4>2, <4>3, <4>4
    <3> QED
      BY <1>10, <3>1, <3>2
  <2> QED
    BY <1>1, <1>5, <1>7, <2>5 DEF SlotsHold, SentHeader, T, U
<1>16. OpenPart'
  <2>1. r.heads # <<>>
    BY <1>4, <1>5
  <2>2. gram' # "line" /\ (gram' \in Opening => start)
    BY <1>3 DEF Opening
  <2>3. r.heads[Len(r.heads)].value = 0
    BY <1>5
  <2> QED
    BY <1>5, <1>7, <1>14, <1>15, <2>1, <2>2, <2>3 DEF OpenPart
<1>17. ~start => Trailers(k)'
  <2> HAVE ~start
  <2>1. gram = "body" \/ Trailers(k)
    BY <1>1 DEF ParserInv, RestPart, Trailing
  <2> QED
    BY <1>3, <1>4, <1>5, <1>7, <2>1 DEF Trailers
<1>18. RestPart'
  <2>1. gram' \notin Contents \cup {"idle"} /\ (gram' \in Trailing => ~start)
    BY <1>3 DEF Contents, Trailing
  <2> QED
    BY <1>7, <1>10, <1>17, <2>1 DEF ParserInv, RestPart
<1>19. UrlPart'
  <2>1. gram' # "line" /\ (gram' \in Opening => start)
    BY <1>3 DEF Opening
  <2>2. start => /\ type = "response" \/ ~flushed => url = Text(k, 0, sent[k].url)
                 /\ k = 1 /\ type = "request" => _url \o url = Text(k, 0, sent[k].url)
    BY DEF ParserInv, UrlPart, Opening
  <2>3. (_url \o url) \o <<>> = _url \o url
    BY <1>9, ConcatProperties, ConcatEmptySeq DEF TypePart
  <2>4. start => /\ type = "response" \/ ~flushed' => url' = Text(k, 0, r.url)
                 /\ k = 1 /\ type = "request" => _url' \o url' = Text(k, 0, r.url)
    BY <1>5, <1>10, <2>2, <2>3
  <2> QED
    BY <1>1, <1>4, <1>7, <2>1, <2>4 DEF UrlPart
<1>20. MessagesExact'
  <2>1. CASE start
    <3>1. Len(incoming) = k - 1
      BY <2>1 DEF ParserInv, CountPart, Opening
    <3> QED
      BY <1>1, <1>7, <1>10, <3>1, MessagesStay, SameMessage DEF ParserInv
  <2>2. CASE ~start
    <3>1. Len(incoming) = k
      BY <1>1, <2>2 DEF ParserInv, CountPart, Trailing, Contents
    <3>2. t = IF Trailers(k) THEN sent[k].trail ELSE n + 1
      BY <1>1, <1>3, <1>4, <2>2 DEF ParserInv, RestPart, Trailers, Trailing, Contents
    <3>3. \A i \in 1 .. t - 1 : i \in 1 .. n
      BY <1>4, <3>2 DEF Trailers
    <3>4. SentHeaders(k)' = SentHeaders(k)
      BY <1>4, <1>5, <1>7, <1>17, <2>2, <3>2, <3>3, TrailersAfterHeaders
    <3>5. \A j \in 1 .. k : j = k \/ j \in 1 .. k - 1
      BY <1>4
    <3>6. \A j \in 1 .. k : /\ sent'[j].url = sent[j].url /\ sent'[j].body = sent[j].body
                            /\ SentHeaders(j)' = SentHeaders(j) /\ (Trailers(j) => Trailers(j)')
      BY <1>5, <1>7, <1>17, <2>2, <3>4, <3>5, SameMessage
    <3> QED
      BY <1>1, <1>10, <3>1, <3>6, MessagesStay DEF ParserInv
  <2> QED
    BY <2>1, <2>2
<1> QED
  BY <1>11, <1>12, <1>13, <1>16, <1>18, <1>19, <1>20 DEF ParserInv

\* Another piece of a field, or any piece of a value: the current header grows.
LEMMA HeadGrows ==
    ASSUME ParserInv, gram \in {"field", "value", "tfield", "tvalue"}, NEW f \in {"field", "value"},
           SendHead(f)
    PROVE  LET k == Len(sent)
               n == Len(sent[k].heads)
           IN  /\ k \in Nat /\ k > 0 /\ n \in Nat /\ n > 0
               /\ sent' \in Seq(SentMessage) /\ Len(sent') = k
               /\ \A j \in 1 .. k - 1 : sent'[j] = sent[j]
               /\ \A j \in 1 .. k : Len(sent'[j].heads) <= MaxHeaders
               /\ sent'[k].url = sent[k].url /\ sent'[k].trail = sent[k].trail
               /\ sent'[k].body = sent[k].body /\ Len(sent'[k].heads) = n
               /\ \A i \in 1 .. n - 1 : sent'[k].heads[i] = sent[k].heads[i]
               /\ sent'[k].heads[n][f] = sent[k].heads[n][f] + 1 /\ sent[k].heads[n][f] \in Nat
               /\ f = "field" => sent'[k].heads[n].value = sent[k].heads[n].value
               /\ f = "value" => sent'[k].heads[n].field = sent[k].heads[n].field
               /\ \A j \in 1 .. k : sent'[j].url = sent[j].url /\ sent'[j].body = sent[j].body
               /\ \A j \in 1 .. k : Trailers(j)' = Trailers(j)
               /\ gram \in Trailing => \A j \in 1 .. k : SentHeaders(j)' = SentHeaders(j)
               /\ \A j \in 1 .. k - 1 : SentHeaders(j)' = SentHeaders(j)
<1> PICK k : k = Len(sent)
  OBVIOUS
<1> PICK n : n = Len(sent[k].heads)
  OBVIOUS
<1>1. /\ sent \in Seq(SentMessage) /\ k \in Nat /\ k > 0 /\ sent[k] \in SentMessage
      /\ n <= MaxHeaders
  BY DEF ParserInv, TypePart, CountPart
<1>2. n \in Nat /\ sent[k].heads \in Seq(Head1) /\ sent[k].trail \in Nat \ {0}
  BY <1>1, SentFields
<1>3. n > 0
  <2>1. CASE gram \in {"field", "value"}
    <3>1. sent[k].heads # <<>>
      BY <2>1 DEF ParserInv, OpenPart, Opening
    <3> QED
      BY <1>2, <3>1, EmptySeq
  <2>2. CASE gram \in {"tfield", "tvalue"}
    <3>1. sent[k].trail <= n
      BY <2>2 DEF ParserInv, RestPart, Trailing, Trailers
    <3> QED
      BY <1>2, <3>1
  <2> QED
    BY <2>1, <2>2
<1>4. PICK r : r = [sent[k] EXCEPT !.heads[n][f] = @ + 1]
  OBVIOUS
<1>5. /\ r \in SentMessage /\ r.url = sent[k].url /\ r.trail = sent[k].trail
      /\ r.body = sent[k].body
      /\ Len(r.heads) = n /\ \A i \in 1 .. n - 1 : r.heads[i] = sent[k].heads[i]
      /\ r.heads[n][f] = sent[k].heads[n][f] + 1 /\ sent[k].heads[n][f] \in Nat
      /\ f = "field" => r.heads[n].value = sent[k].heads[n].value
      /\ f = "value" => r.heads[n].field = sent[k].heads[n].field
  <2>0. PICK g : g = sent[k]
    OBVIOUS
  <2>1. g \in SentMessage /\ n = Len(g.heads) /\ n > 0 /\ r = [g EXCEPT !.heads[n][f] = @ + 1]
    BY <1>1, <1>3, <1>4, <2>0
  <2>2. /\ r \in SentMessage /\ r.url = g.url /\ r.trail = g.trail /\ r.body = g.body
        /\ Len(r.heads) = n /\ \A i \in 1 .. n - 1 : r.heads[i] = g.heads[i]
        /\ r.heads[n][f] = g.heads[n][f] + 1 /\ g.heads[n][f] \in Nat
        /\ f = "field" => r.heads[n].value = g.heads[n].value
        /\ f = "value" => r.heads[n].field = g.heads[n].field
    BY <2>1, SentHeadGrows, SMTT(30)
  <2> QED
    BY <2>0, <2>2
<1>6. sent' = [sent EXCEPT ![k] = r]
  BY <1>4 DEF SendHead, m, h
<1>7. /\ sent' \in Seq(SentMessage) /\ Len(sent') = k /\ sent'[k] = r
      /\ \A j \in 1 .. k - 1 : sent'[j] = sent[j]
      /\ \A j \in 1 .. k : Len(sent'[j].heads) <= MaxHeaders
  BY <1>1, <1>5, <1>6, SentStep
<1>8. \A j \in 1 .. k : j = k \/ j \in 1 .. k - 1
  BY <1>1
<1>9. Trailers(k)' = Trailers(k)
  BY <1>5, <1>7 DEF Trailers
<1>10. gram \in Trailing => SentHeaders(k)' = SentHeaders(k)
  <2> HAVE gram \in Trailing
  <2>1. Trailers(k)
    BY DEF ParserInv, RestPart
  <2>2. \A i \in 1 .. r.trail - 1 : i \in 1 .. n - 1
    BY <1>2, <1>5, <2>1 DEF Trailers
  <2> QED
    BY <1>1, <1>5, <1>7, <1>9, <2>1, <2>2, TrailersAfterHeaders
<1>11. /\ \A j \in 1 .. k - 1 : SentHeaders(j)' = SentHeaders(j)
       /\ \A j \in 1 .. k : Trailers(j)' = Trailers(j)
       /\ gram \in Trailing => \A j \in 1 .. k : SentHeaders(j)' = SentHeaders(j)
       /\ \A j \in 1 .. k : sent'[j].url = sent[j].url /\ sent'[j].body = sent[j].body
  BY <1>5, <1>7, <1>8, <1>9, <1>10, SameMessage
<1> QED
  BY <1>1, <1>2, <1>3, <1>5, <1>7, <1>11

\* What a growing header leaves as it is.
LEMMA GrowthKeeps ==
    ASSUME ParserInv, gram \in {"field", "value", "tfield", "tvalue"}, NEW f \in {"field", "value"},
           SendHead(f), UNCHANGED <<type, url, flushed, _headers, _url, incoming>>,
           gram' = IF gram \in {"field", "value"} THEN f ELSE gram',
           gram \in {"tfield", "tvalue"} => gram' \in {"tfield", "tvalue"}
    PROVE  CountPart' /\ RestPart' /\ UrlPart' /\ MessagesExact'
<1> PICK k : k = Len(sent)
  OBVIOUS
<1>1. /\ k \in Nat /\ k > 0 /\ Len(sent') = k
      /\ \A j \in 1 .. k : sent'[j].url = sent[j].url /\ sent'[j].body = sent[j].body
      /\ \A j \in 1 .. k : Trailers(j)' = Trailers(j)
      /\ gram \in Trailing => \A j \in 1 .. k : SentHeaders(j)' = SentHeaders(j)
      /\ \A j \in 1 .. k - 1 : SentHeaders(j)' = SentHeaders(j)
  BY HeadGrows
<1>2. k \in 1 .. k
  BY <1>1
<1>3. \/ gram \in Opening /\ gram' \in Opening /\ gram' # "line" /\ gram # "line"
      \/ gram \in Trailing /\ gram' \in Trailing
  BY DEF Opening, Trailing
<1>4. gram' \notin Contents \cup {"idle", "dead"} /\ ~(gram' \in Opening /\ gram' \in Trailing)
  BY <1>3 DEF Opening, Trailing, Contents
<1>5. ~(gram \in Opening /\ gram \in Trailing)
  BY DEF Opening, Trailing
<1>6. CountPart'
  BY <1>1, <1>3, <1>4 DEF ParserInv, CountPart
<1>7. RestPart'
  BY <1>1, <1>2, <1>3, <1>4, <1>5 DEF ParserInv, RestPart
<1>8. UrlPart'
  BY <1>1, <1>2, <1>3, <1>4, <1>5 DEF ParserInv, UrlPart, Trailing
<1>9. MessagesExact'
  <2>1. CASE gram \in Trailing
    <3>1. Len(incoming) = k
      BY <2>1 DEF ParserInv, CountPart
    <3> QED
      BY <1>1, <2>1, <3>1, MessagesStay DEF ParserInv
  <2>2. CASE gram \in Opening
    <3>1. Len(incoming) = k - 1 /\ \A j \in 1 .. k - 1 : j \in 1 .. k
      BY <1>1, <2>2 DEF ParserInv, CountPart
    <3> QED
      BY <1>1, <3>1, MessagesStay DEF ParserInv
  <2> QED
    BY <1>3, <2>1, <2>2
<1> QED
  BY <1>6, <1>7, <1>8, <1>9

\* Another piece of a field.
LEMMA FieldGrows ==
    ASSUME ParserInv, on_header_field, gram \in {"field", "tfield"}
    PROVE  ParserInv'
<1> PICK k : k = Len(sent)
  OBVIOUS
<1> PICK n : n = Len(sent[k].heads)
  OBVIOUS
<1> DEFINE piece == <<k, n, sent[k].heads[n].field + 1>>
<1>1. /\ SendHead("field") /\ n_fields # n_values
      /\ UNCHANGED <<type, gram, values, incoming, url, n_fields, n_values, flushed,
                     _headers, _url>>
      /\ fields' = [fields EXCEPT ![n_fields] = Append(@, piece)]
  BY DEF on_header_field, FieldPiece, ParserInv, SlotPart, SlotsInBounds, m, h, jsVars
<1>2. CountPart' /\ RestPart' /\ UrlPart' /\ MessagesExact'
  BY <1>1, GrowthKeeps
<1>3. /\ k \in Nat /\ k > 0 /\ n \in Nat /\ n > 0
      /\ sent' \in Seq(SentMessage) /\ Len(sent') = k
      /\ \A j \in 1 .. k - 1 : sent'[j] = sent[j]
      /\ \A j \in 1 .. k : Len(sent'[j].heads) <= MaxHeaders
      /\ sent'[k].trail = sent[k].trail
      /\ sent'[k].body = sent[k].body /\ Len(sent'[k].heads) = n
      /\ \A i \in 1 .. n - 1 : sent'[k].heads[i] = sent[k].heads[i]
      /\ sent'[k].heads[n].field = sent[k].heads[n].field + 1 /\ sent[k].heads[n].field \in Nat
      /\ sent'[k].heads[n].value = sent[k].heads[n].value
      /\ \A j \in 1 .. k : Trailers(j)' = Trailers(j)
  BY <1>1, HeadGrows
<1>4. /\ n_fields \in Nat /\ n_values = n_fields - 1 /\ n_fields > 0 /\ n_fields \in Slots
      /\ \A i \in 1 .. n_fields - 1 : i \in Slots /\ i # n_fields
  BY <1>1, HeaderMaxAssumption DEF ParserInv, TypePart, SlotPart, SlotsInBounds, Slots
<1>5. piece \in Piece
  BY <1>3 DEF Piece
<1> HIDE DEF piece
<1>6. /\ fields' \in [Slots -> Seq(Piece)] /\ fields'[n_fields] = Append(fields[n_fields], piece)
      /\ \A i \in Slots : i # n_fields => fields'[i] = fields[i]
  BY <1>1, <1>4, <1>5 DEF ParserInv, TypePart
<1>7. TypePart'
  BY <1>1, <1>3, <1>6 DEF ParserInv, TypePart
<1>8. SlotPart'
  BY <1>1 DEF ParserInv, SlotPart, SlotsInBounds
<1>9. OpenPart'
  <2> SUFFICES ASSUME gram = "field"
               PROVE  OpenPart'
    BY <1>1 DEF OpenPart, Opening
  <2>1. /\ sent[k].trail = MaxHeaders + 1 /\ sent[k].body = 0 /\ sent[k].heads[n].value = 0
        /\ Plain(k - 1) => SlotsHold(k)
    BY DEF ParserInv, OpenPart, Opening
  <2>2. Plain(k - 1)' => Plain(k - 1)
    BY <1>3 DEF Plain
  <2>3. Plain(k - 1) => SlotsHold(k)'
    <3> HAVE Plain(k - 1)
    <3> PICK f : f = Len(_headers)
      OBVIOUS
    <3> DEFINE T(i) == Text(k, i, sent'[k].heads[i].field)
               U(i) == Text(k, i, sent'[k].heads[i].value)
    <3>1. f \in Nat
      BY DEF ParserInv, TypePart
    <3>2. /\ f + n_fields = n
          /\ \A i \in 1 .. f : _headers[i] = SentHeader(k, i)
          /\ \A i \in 1 .. n_fields : fields[i] = Text(k, f + i, sent[k].heads[f + i].field)
          /\ \A i \in 1 .. n_values : values[i] = Text(k, f + i, sent[k].heads[f + i].value)
      BY <2>1 DEF SlotsHold
    <3>3. /\ \A i \in 1 .. f : i \in 1 .. n - 1
          /\ \A i \in 1 .. n_fields - 1 : f + i \in 1 .. n - 1 /\ i \in 1 .. n_fields
          /\ n_fields \in 1 .. n_fields
      <4>1. f + n_fields = n /\ n \in Nat /\ n_fields \in Nat /\ n_fields > 0
        BY <1>3, <1>4, <3>2
      <4> QED
        BY <1>4, <3>1, <4>1
    <3>4. \A i \in 1 .. f : _headers[i] = <<T(i), U(i)>>
      BY <1>3, <3>2, <3>3 DEF SentHeader
    <3>5. \A i \in 1 .. n_fields - 1 : fields[i] = T(f + i) /\ values[i] = U(f + i)
      BY <1>3, <1>4, <3>2, <3>3
    <3>6. fields'[n_fields] = T(f + n_fields)
      <4>1. fields[n_fields] = Text(k, n, sent[k].heads[n].field)
        BY <3>2, <3>3
      <4>2. Append(Text(k, n, sent[k].heads[n].field), piece)
              = Text(k, n, sent[k].heads[n].field + 1)
        BY <1>3, TextNext DEF piece
      <4> QED
        BY <1>3, <1>6, <3>2, <4>1, <4>2
    <3> HIDE DEF T, U
    <3>7. \A i \in 1 .. n_fields : i = n_fields \/ i \in 1 .. n_fields - 1
      BY <1>4
    <3>8. \A i \in 1 .. n_fields : fields'[i] = T(f + i)
      BY <1>4, <1>6, <3>5, <3>6, <3>7
    <3>9. \A i \in 1 .. n_values : values[i] = U(f + i)
      BY <1>4, <3>5
    <3> QED
      BY <1>1, <1>3, <3>2, <3>4, <3>8, <3>9 DEF SlotsHold, SentHeader, T, U
  <2>4. sent'[k].heads # <<>>
    BY <1>3
  <2> QED
    BY <1>1, <1>3, <2>1, <2>2, <2>3, <2>4 DEF OpenPart
<1> QED
  BY <1>2, <1>7, <1>8, <1>9 DEF ParserInv

\* A piece of a value, the first one or another one.
LEMMA ValueKeeps ==
    ASSUME ParserInv, on_header_value
    PROVE  ParserInv'
<1> PICK k : k = Len(sent)
  OBVIOUS
<1> PICK n : n = Len(sent[k].heads)
  OBVIOUS
<1> DEFINE old == sent[k].heads[n].value
           piece == <<k, n, old + 1>>
           first == gram \in {"field", "tfield"}
<1>1. /\ SendHead("value") /\ gram \in {"field", "value", "tfield", "tvalue"}
      /\ gram' = IF gram \in {"field", "value"} THEN "value" ELSE "tvalue"
      /\ UNCHANGED <<type, url, fields, n_fields, flushed, _headers, _url, incoming>>
  BY DEF on_header_value, jsVars
<1>2. CountPart' /\ RestPart' /\ UrlPart' /\ MessagesExact'
  <2>1. gram' = IF gram \in {"field", "value"} THEN "value" ELSE gram'
    BY <1>1
  <2> QED
    BY <1>1, <2>1, GrowthKeeps
<1>3. /\ k \in Nat /\ k > 0 /\ n \in Nat /\ n > 0
      /\ sent' \in Seq(SentMessage) /\ Len(sent') = k
      /\ \A j \in 1 .. k - 1 : sent'[j] = sent[j]
      /\ \A j \in 1 .. k : Len(sent'[j].heads) <= MaxHeaders
      /\ sent'[k].trail = sent[k].trail
      /\ sent'[k].body = sent[k].body /\ Len(sent'[k].heads) = n
      /\ \A i \in 1 .. n - 1 : sent'[k].heads[i] = sent[k].heads[i]
      /\ sent'[k].heads[n].value = old + 1 /\ old \in Nat
      /\ sent'[k].heads[n].field = sent[k].heads[n].field
      /\ \A j \in 1 .. k : Trailers(j)' = Trailers(j)
  BY <1>1, HeadGrows
<1>4. /\ n_fields \in Nat /\ n_values = (IF first THEN n_fields - 1 ELSE n_fields) /\ n_fields > 0
      /\ n_fields \in Slots /\ \A i \in 1 .. n_fields - 1 : i \in Slots /\ i # n_fields
  <2>1. n_fields \in Nat /\ n_values \in Nat /\ n_fields < HEADER_MAX
    BY DEF ParserInv, TypePart, SlotPart, SlotsInBounds
  <2>2. CASE first
    <3>1. n_fields # n_values /\ n_values \in {n_fields, n_fields - 1}
      BY <2>2 DEF ParserInv, SlotPart, SlotsInBounds
    <3> QED
      BY <2>1, <2>2, <3>1, HeaderMaxAssumption DEF Slots
  <2>3. CASE ~first
    <3>1. n_fields = n_values /\ n_fields > 0
      BY <1>1, <2>3 DEF ParserInv, SlotPart, SlotsInBounds
    <3> QED
      BY <2>1, <2>3, <3>1, HeaderMaxAssumption DEF Slots
  <2> QED
    BY <2>2, <2>3
<1>5. piece \in Piece
  BY <1>3 DEF Piece
<1> HIDE DEF piece
<1>6. /\ n_values' = n_fields
      /\ values' = [values EXCEPT ![n_fields] = IF first THEN <<piece>> ELSE Append(@, piece)]
  <2>1. first <=> n_fields # n_values
    BY <1>4
  <2>2. first => n_values + 1 = n_fields
    BY <1>4
  <2>3. /\ first => /\ n_values' = n_values + 1
                    /\ values' = [values EXCEPT ![n_values + 1] = <<piece>>]
        /\ ~first => /\ n_values' = n_values
                     /\ values' = [values EXCEPT ![n_values] = Append(@, piece)]
    BY <2>1 DEF on_header_value, piece, m, h
  <2> QED
    BY <1>4, <2>2, <2>3
<1>7. /\ values' \in [Slots -> Seq(Piece)]
      /\ values'[n_fields] = IF first THEN <<piece>> ELSE Append(values[n_fields], piece)
      /\ \A i \in Slots : i # n_fields => values'[i] = values[i]
  BY <1>4, <1>5, <1>6 DEF ParserInv, TypePart
<1>8. TypePart'
  <2>1. gram' \in Opening \cup Trailing /\ n_values' \in Nat
    BY <1>1, <1>4, <1>6 DEF Opening, Trailing
  <2> QED
    BY <1>1, <1>3, <1>7, <2>1 DEF ParserInv, TypePart
<1>9. SlotPart'
  <2>1. gram' \notin {"field", "tfield", "dead"}
    BY <1>1
  <2> QED
    BY <1>1, <1>4, <1>6, <2>1 DEF ParserInv, SlotPart, SlotsInBounds
<1>10. OpenPart'
  <2> SUFFICES ASSUME gram \in {"field", "value"}
               PROVE  OpenPart'
    BY <1>1 DEF OpenPart, Opening
  <2>1. /\ sent[k].trail = MaxHeaders + 1 /\ sent[k].body = 0
        /\ gram = "field" => old = 0
        /\ Plain(k - 1) => SlotsHold(k)
    BY DEF ParserInv, OpenPart, Opening
  <2>2. Plain(k - 1)' => Plain(k - 1)
    BY <1>3 DEF Plain
  <2>3. Plain(k - 1) => SlotsHold(k)'
    <3> HAVE Plain(k - 1)
    <3> PICK f : f = Len(_headers)
      OBVIOUS
    <3> DEFINE T(i) == Text(k, i, sent'[k].heads[i].field)
               U(i) == Text(k, i, sent'[k].heads[i].value)
    <3>1. f \in Nat
      BY DEF ParserInv, TypePart
    <3>2. /\ f + n_fields = n
          /\ \A i \in 1 .. f : _headers[i] = SentHeader(k, i)
          /\ \A i \in 1 .. n_fields : fields[i] = Text(k, f + i, sent[k].heads[f + i].field)
          /\ \A i \in 1 .. n_values : values[i] = Text(k, f + i, sent[k].heads[f + i].value)
      BY <2>1 DEF SlotsHold
    <3>3. /\ \A i \in 1 .. f : i \in 1 .. n - 1
          /\ \A i \in 1 .. n_fields - 1 : /\ f + i \in 1 .. n - 1 /\ i \in 1 .. n_fields
                                          /\ i \in 1 .. n_values
          /\ n_fields \in 1 .. n_fields
      <4>1. n_values = n_fields \/ n_values = n_fields - 1
        BY <1>4
      <4>2. f + n_fields = n /\ n \in Nat /\ n_fields \in Nat /\ n_fields > 0
        BY <1>3, <1>4, <3>2
      <4> HIDE DEF first
      <4> QED
        BY <3>1, <4>1, <4>2
    <3>4. \A i \in 1 .. f : _headers[i] = <<T(i), U(i)>>
      BY <1>3, <3>2, <3>3 DEF SentHeader
    <3>5. \A i \in 1 .. n_fields - 1 : fields[i] = T(f + i) /\ values[i] = U(f + i)
      BY <1>3, <3>2, <3>3
    <3>6. fields[n_fields] = T(f + n_fields)
      BY <1>3, <3>2, <3>3
    <3>7. values'[n_fields] = U(f + n_fields)
      <4>1. CASE first
        <5>1. old = 0
          BY <2>1, <4>1
        <5>2. <<piece>> = Text(k, n, old + 1)
          BY <1>3, <5>1, TextOne DEF piece
        <5> QED
          BY <1>3, <1>7, <3>2, <4>1, <5>2
      <4>2. CASE ~first
        <5>1. values[n_fields] = Text(k, n, old)
          BY <1>4, <3>2, <3>3, <4>2
        <5>2. Append(Text(k, n, old), piece) = Text(k, n, old + 1)
          BY <1>3, TextNext DEF piece
        <5> QED
          BY <1>3, <1>7, <3>2, <4>2, <5>1, <5>2
      <4> QED
        BY <4>1, <4>2
    <3> HIDE DEF T, U
    <3>8. \A i \in 1 .. n_fields : i = n_fields \/ i \in 1 .. n_fields - 1
      BY <1>4
    <3>9. \A i \in 1 .. n_fields : fields[i] = T(f + i) /\ values'[i] = U(f + i)
      BY <1>4, <1>7, <3>5, <3>6, <3>7, <3>8
    <3> QED
      BY <1>1, <1>3, <1>6, <3>2, <3>4, <3>9 DEF SlotsHold, SentHeader, T, U
  <2>4. sent'[k].heads # <<>> /\ gram' = "value"
    BY <1>1, <1>3
  <2> QED
    BY <1>3, <2>1, <2>2, <2>3, <2>4 DEF OpenPart
<1> QED
  BY <1>2, <1>8, <1>9, <1>10 DEF ParserInv

\* on_headers_complete(): the headers that were flushed and those in the arrays make the
\* headers of the message, in the order in which they were sent.
LEMMA HeadersCompleteKeeps ==
    ASSUME ParserInv, on_headers_complete
    PROVE  ParserInv'
<1> PICK k : k = Len(sent)
  OBVIOUS
<1> PICK n : n = Len(sent[k].heads)
  OBVIOUS
<1> PICK hs : hs = _headers \o make_header
  OBVIOUS
<1> PICK u : u = IF flushed /\ type = "request" THEN _url \o url ELSE url
  OBVIOUS
<1>1. /\ gram \in {"line", "value"} /\ gram' \in Contents
      /\ n_fields' = 0 /\ n_values' = 0
      /\ UNCHANGED <<type, fields, values, flushed, sent>>
  BY DEF on_headers_complete, Contents
<1>2. /\ sent \in Seq(SentMessage) /\ k \in Nat /\ k > 0 /\ sent[k] \in SentMessage
      /\ n \in Nat /\ n <= MaxHeaders /\ MaxHeaders \in Nat /\ sent[k].heads \in Seq(Head1)
      /\ Len(incoming) = k - 1 /\ incoming \in Seq(GotMessage)
  <2>1. sent \in Seq(SentMessage) /\ k \in Nat /\ k > 0 /\ sent[k] \in SentMessage
        /\ n <= MaxHeaders /\ Len(incoming) = k - 1 /\ incoming \in Seq(GotMessage)
    BY <1>1 DEF ParserInv, TypePart, CountPart, Opening
  <2>2. sent[k].heads \in Seq(Head1)
    BY <2>1, SentFields
  <2> QED
    BY <2>1, <2>2, BoundsAssumption
<1>3. /\ make_header \in Seq(Header) /\ Len(make_header) = n_values
      /\ \A i \in 1 .. n_values : make_header[i] = <<fields[i], values[i]>>
  BY MakeHeader DEF ParserInv, SlotPart
<1>4. /\ n_fields \in Nat /\ n_fields = n_values /\ _headers \in Seq(Header)
      /\ url \in Seq(Piece) /\ _url \in Seq(Piece)
      /\ ~flushed => _headers = <<>> /\ _url = <<>>
  BY <1>1 DEF ParserInv, TypePart, SlotPart, SlotsInBounds, RestPart
<1>5. hs \in Seq(Header) /\ u \in Seq(Piece) /\ (~flushed => hs = make_header)
  <2>1. hs \in Seq(Header) /\ _url \o url \in Seq(Piece)
    BY <1>3, <1>4, ConcatProperties
  <2>2. <<>> \o make_header = make_header
    BY <1>3, ConcatEmptySeq
  <2> QED
    BY <1>4, <2>1, <2>2
<1>6. /\ incoming' = Append(incoming, Incoming(u, hs)) /\ _headers' = <<>>
      /\ url' \in Seq(Piece) /\ _url' \in Seq(Piece) /\ (~flushed' => _url' = <<>>)
  <2>1. CASE flushed
    <3>1. _url \o url \in Seq(Piece) /\ <<>> \in Seq(Piece)
      BY <1>4, ConcatProperties
    <3> QED
      BY <1>1, <1>4, <2>1, <3>1 DEF on_headers_complete
  <2>2. CASE ~flushed
    BY <1>1, <1>4, <1>5, <2>2 DEF on_headers_complete
  <2> QED
    BY <2>1, <2>2
<1> PICK g : g = Incoming(u, hs)
  OBVIOUS
<1>7. g \in GotMessage /\ g.url = u /\ g.headers = hs /\ g.body = <<>>
  BY <1>5 DEF Incoming, GotMessage
<1>8. /\ incoming' \in Seq(GotMessage) /\ Len(incoming') = k /\ incoming'[k] = g
      /\ \A j \in 1 .. k - 1 : incoming'[j] = incoming[j]
  <2>1. incoming' = Append(incoming, g)
    BY <1>6
  <2> QED
    BY <1>2, <1>7, <2>1, AppendProperties
<1>9. TypePart'
  <2>1. <<>> \in Seq(Header)
    OBVIOUS
  <2> QED
    BY <1>1, <1>6, <1>8, <2>1 DEF ParserInv, TypePart
<1>10. gram' \notin Opening \cup Trailing \cup {"idle", "dead"} /\ gram' \notin {"line", "tvalue"}
  BY <1>1 DEF Opening, Trailing, Contents
<1>11. CountPart'
  BY <1>1, <1>2, <1>8, <1>10 DEF CountPart
<1>12. SlotPart'
  BY <1>1, <1>10, HeaderMaxAssumption DEF SlotPart, SlotsInBounds, Opening, Trailing
<1>13. sent[k].trail = MaxHeaders + 1 /\ sent[k].body = 0 /\ (Plain(k - 1) => SlotsHold(k))
  BY <1>1 DEF ParserInv, OpenPart, Opening
<1>14. OpenPart' /\ RestPart' /\ UrlPart'
  BY <1>1, <1>2, <1>6, <1>10, <1>13 DEF OpenPart, RestPart, UrlPart
<1>15. HeadersExact(k)'
  <2> SUFFICES ASSUME Plain(k - 1)
               PROVE  hs = SentHeaders(k)
    BY <1>1, <1>7, <1>8 DEF HeadersExact, Plain, SentHeaders, Trailers
  <2> PICK f : f = Len(_headers)
    OBVIOUS
  <2>1. f \in Nat
    BY <1>4
  <2>2. /\ f + n_fields = n
        /\ \A i \in 1 .. f : _headers[i] = SentHeader(k, i)
        /\ \A i \in 1 .. n_fields : fields[i] = Text(k, f + i, sent[k].heads[f + i].field)
        /\ \A i \in 1 .. n_values : values[i] = Text(k, f + i, sent[k].heads[f + i].value)
    BY <1>13 DEF SlotsHold
  <2>3. Len(hs) = n /\ \A i \in 1 .. n : hs[i] = IF i <= f THEN _headers[i] ELSE make_header[i - f]
    <3> DEFINE a == _headers
               b == make_header
    <3>1. a \in Seq(Header) /\ b \in Seq(Header) /\ Len(a) = f /\ Len(b) = n_fields /\ hs = a \o b
      BY <1>3, <1>4
    <3> HIDE DEF a, b
    <3>2. /\ Len(a \o b) = Len(a) + Len(b)
          /\ \A i \in 1 .. Len(a) + Len(b) :
               (a \o b)[i] = IF i <= Len(a) THEN a[i] ELSE b[i - Len(a)]
      BY <3>1, ConcatProperties
    <3>3. /\ Len(hs) = n /\ \A i \in 1 .. n : hs[i] = IF i <= f THEN a[i] ELSE b[i - f]
      BY <2>2, <3>1, <3>2
    <3> QED
      BY <3>3 DEF a, b
  <2>4. \A i \in 1 .. n : hs[i] = SentHeader(k, i)
    <3> TAKE i \in 1 .. n
    <3>1. CASE i <= f
      BY <2>1, <2>2, <2>3, <3>1
    <3>2. CASE ~(i <= f)
      <4> PICK x : x = i - f
        OBVIOUS
      <4>1. x \in 1 .. n_fields /\ f + x = i
        BY <1>2, <1>4, <2>1, <2>2, <3>2
      <4>2. hs[i] = <<fields[x], values[x]>>
        BY <1>3, <1>4, <2>3, <3>2, <4>1
      <4> QED
        BY <1>4, <2>2, <4>1, <4>2 DEF SentHeader
    <3> QED
      BY <3>1, <3>2
  <2>5. SentHeaders(k) = [i \in 1 .. n |-> SentHeader(k, i)]
    BY <1>2, <1>13 DEF SentHeaders, SentHeader
  <2>6. PICK sh : sh = SentHeaders(k)
    OBVIOUS
  <2>7. sh \in Seq(Header) /\ Len(sh) = n /\ \A i \in 1 .. n : sh[i] = SentHeader(k, i)
    <3> DEFINE e(i) == SentHeader(k, i)
    <3>1. \A i \in 1 .. n : e(i) \in Header
      BY <1>5, <2>3, <2>4, ElementOfSeq
    <3>2. sh = [i \in 1 .. n |-> e(i)]
      BY <2>5, <2>6
    <3> HIDE DEF e
    <3>3. sh \in Seq(Header) /\ Len(sh) = n /\ \A i \in 1 .. n : sh[i] = e(i)
      BY <1>2, <3>1, <3>2, IsASeq
    <3> QED
      BY <3>3 DEF e
  <2>8. hs = sh
    <3>1. Len(hs) = Len(sh) /\ \A i \in 1 .. Len(hs) : hs[i] = sh[i]
      BY <2>3, <2>4, <2>7
    <3> QED
      BY <1>5, <2>7, <3>1, SeqEqual
  <2> QED
    BY <2>6, <2>8
<1>16. UrlExact(k)'
  <2> SUFFICES ASSUME type = "request" /\ flushed => k = 1
               PROVE  u = Text(k, 0, sent[k].url)
    BY <1>1, <1>7, <1>8 DEF UrlExact, Server
  <2>1. type = "response" \/ ~flushed => url = Text(k, 0, sent[k].url)
    BY <1>1 DEF ParserInv, UrlPart, Opening
  <2>2. k = 1 /\ type = "request" => _url \o url = Text(k, 0, sent[k].url)
    BY <1>1 DEF ParserInv, UrlPart, Opening
  <2>3. type = "request" \/ type = "response"
    BY DEF ParserInv, TypePart
  <2> QED
    BY <2>1, <2>2, <2>3
<1>17. BodyExact(k)'
  <2>1. [p \in 1 .. 0 |-> <<k, p>>] = <<>>
    OBVIOUS
  <2> QED
    BY <1>1, <1>7, <1>8, <1>13, <2>1 DEF BodyExact
<1>18. MessagesExact'
  <2> SUFFICES ASSUME NEW j \in 1 .. k
               PROVE  HeadersExact(j)' /\ UrlExact(j)' /\ BodyExact(j)'
    BY <1>8 DEF MessagesExact
  <2>1. CASE j = k
    BY <1>15, <1>16, <1>17, <2>1
  <2>2. CASE j # k
    <3>1. j \in 1 .. k - 1
      BY <1>2, <2>2
    <3>2. HeadersExact(j) /\ UrlExact(j) /\ BodyExact(j)
      BY <1>2, <3>1 DEF ParserInv, MessagesExact
    <3>3. incoming'[j] = incoming[j]
      BY <1>8, <3>1
    <3> QED
      BY <1>1, <3>2, <3>3
      DEF HeadersExact, UrlExact, BodyExact, Server, SentHeaders, Trailers
  <2> QED
    BY <2>1, <2>2
<1> QED
  BY <1>9, <1>11, <1>12, <1>14, <1>18 DEF ParserInv

\* A slice of the body.
LEMMA BodyNext ==
    ASSUME NEW k \in Nat, NEW n \in Nat
    PROVE  Append([p \in 1 .. n |-> <<k, p>>], <<k, n + 1>>) = [p \in 1 .. n + 1 |-> <<k, p>>]
<1> DEFINE t == [p \in 1 .. n |-> <<k, p>>]
           u == [p \in 1 .. n + 1 |-> <<k, p>>]
<1> PICK x : x = <<k, n + 1>>
  OBVIOUS
<1>1. x \in Nat \X Nat /\ n + 1 \in Nat
  OBVIOUS
<1>2. \A p \in Nat : <<k, p>> \in Nat \X Nat
  OBVIOUS
<1>3. t \in Seq(Nat \X Nat) /\ Len(t) = n /\ \A p \in 1 .. n : t[p] = <<k, p>>
  BY <1>2, IsASeq
<1>4. u \in Seq(Nat \X Nat) /\ Len(u) = n + 1 /\ \A p \in 1 .. n + 1 : u[p] = <<k, p>>
  BY <1>1, <1>2, IsASeq
<1> HIDE DEF t, u
<1>5. /\ Append(t, x) \in Seq(Nat \X Nat) /\ Len(Append(t, x)) = n + 1
      /\ Append(t, x)[n + 1] = x /\ \A p \in 1 .. n : Append(t, x)[p] = t[p]
  BY <1>1, <1>3, AppendProperties
<1>6. \A p \in 1 .. n + 1 : p = n + 1 \/ p \in 1 .. n
  OBVIOUS
<1>7. \A p \in 1 .. n + 1 : Append(t, x)[p] = u[p]
  BY <1>3, <1>4, <1>5, <1>6
<1>8. Append(t, x) = u
  BY <1>4, <1>5, <1>7, SeqEqual
<1> QED
  BY <1>8 DEF t, u

\* on_body(): JavaScript gets the next slice.
LEMMA BodyKeeps ==
    ASSUME ParserInv, on_body
    PROVE  ParserInv'
<1> PICK k : k = Len(sent)
  OBVIOUS
<1> PICK x : x = <<k, sent[k].body + 1>>
  OBVIOUS
<1> PICK g : g = [incoming[k] EXCEPT !.body = Append(@, x)]
  OBVIOUS
<1> PICK r : r = [sent[k] EXCEPT !.body = @ + 1]
  OBVIOUS
<1>1. /\ gram \in {"body", "eof"} /\ sent' = [sent EXCEPT ![k] = r]
      /\ UNCHANGED <<type, gram, url, fields, values, n_fields, n_values, flushed, _headers, _url>>
  BY DEF on_body, SendPiece, m, wrapVars, jsVars
<1>2. /\ sent \in Seq(SentMessage) /\ k \in Nat /\ k > 0 /\ sent[k] \in SentMessage
      /\ Len(incoming) = k /\ incoming \in Seq(GotMessage) /\ incoming[k] \in GotMessage
      /\ k \in 1 .. k /\ Len(sent[k].heads) <= MaxHeaders
  BY <1>1 DEF ParserInv, TypePart, CountPart, Contents
<1>3. /\ r \in SentMessage /\ r.url = sent[k].url /\ r.heads = sent[k].heads
      /\ r.trail = sent[k].trail /\ r.body = sent[k].body + 1 /\ sent[k].body \in Nat
  <2> PICK s0 : s0 = sent[k]
    OBVIOUS
  <2>1. s0 \in SentMessage /\ r = [s0 EXCEPT !.body = s0.body + 1]
    BY <1>2
  <2>2. /\ r \in SentMessage /\ r.url = s0.url /\ r.heads = s0.heads
        /\ r.trail = s0.trail /\ r.body = s0.body + 1 /\ s0.body \in Nat
    BY <2>1 DEF SentMessage
  <2> QED
    BY <2>2
<1>4. /\ sent' \in Seq(SentMessage) /\ Len(sent') = k /\ sent'[k] = r
      /\ \A j \in 1 .. k - 1 : sent'[j] = sent[j]
      /\ \A j \in 1 .. k : Len(sent'[j].heads) <= MaxHeaders
  BY <1>1, <1>2, <1>3, SentStep
<1>5. x \in Nat \X Nat /\ incoming[k].body \in Seq(Nat \X Nat)
  BY <1>2, <1>3, SMTT(20) DEF GotMessage
<1>6. /\ g \in GotMessage /\ g.body = Append(incoming[k].body, x)
      /\ g.url = incoming[k].url /\ g.headers = incoming[k].headers
  <2>1. Append(incoming[k].body, x) \in Seq(Nat \X Nat)
    BY <1>5
  <2> QED
    BY <1>2, <2>1 DEF GotMessage
<1>7. incoming' = [incoming EXCEPT ![k] = g]
  BY <1>2 DEF on_body, m
<1>8. /\ incoming' \in Seq(GotMessage) /\ Len(incoming') = k /\ incoming'[k] = g
      /\ \A j \in 1 .. k : j # k => incoming'[j] = incoming[j]
  <2>1. PICK w : w = incoming'
    OBVIOUS
  <2>2. PICK q : q = incoming
    OBVIOUS
  <2>3. PICK S : S = GotMessage
    OBVIOUS
  <2>4. q \in Seq(S) /\ k \in 1 .. Len(q) /\ g \in S /\ Len(q) = k
    BY <1>2, <1>6, <2>2, <2>3
  <2>5. w = [q EXCEPT ![k] = g]
    BY <1>7, <2>1, <2>2
  <2>6. w \in Seq(S) /\ Len(w) = Len(q) /\ w[k] = g /\ \A j \in 1 .. Len(q) : j # k => w[j] = q[j]
    BY ONLY <2>4, <2>5, ExceptSeq
  <2> QED
    BY <2>1, <2>2, <2>3, <2>4, <2>6, Zenon
<1>9. \A j \in 1 .. k : j = k \/ (j # k /\ j \in 1 .. k - 1)
  BY <1>2
<1>10. TypePart'
  BY <1>1, <1>4, <1>8 DEF ParserInv, TypePart
<1>11. CountPart' /\ SlotPart'
  BY <1>1, <1>2, <1>4, <1>8 DEF ParserInv, CountPart, SlotPart, SlotsInBounds, Opening
<1>12. \A j \in 1 .. k : /\ Trailers(j)' = Trailers(j) /\ SentHeaders(j)' = SentHeaders(j)
                         /\ sent'[j].url = sent[j].url
  BY <1>3, <1>4, <1>9 DEF Trailers, SentHeaders
<1>13. OpenPart' /\ RestPart' /\ UrlPart'
  <2>1. Plain(k)' <=> Plain(k)
    BY <1>12 DEF Plain
  <2> QED
    BY <1>1, <1>2, <1>3, <1>4, <2>1
    DEF ParserInv, OpenPart, RestPart, UrlPart, Opening, Contents, Trailing
<1>14. MessagesExact'
  <2> SUFFICES ASSUME NEW j \in 1 .. k
               PROVE  HeadersExact(j)' /\ UrlExact(j)' /\ BodyExact(j)'
    BY <1>8 DEF MessagesExact
  <2>1. HeadersExact(j) /\ UrlExact(j) /\ BodyExact(j)
    BY <1>2 DEF ParserInv, MessagesExact
  <2>2. incoming'[j].headers = incoming[j].headers /\ incoming'[j].url = incoming[j].url
    BY <1>6, <1>8
  <2>3. HeadersExact(j)'
    BY <1>2, <1>12, <2>1, <2>2 DEF HeadersExact
  <2>4. UrlExact(j)'
    BY <1>1, <1>12, <2>1, <2>2 DEF UrlExact, Server
  <2>5. BodyExact(j)'
    <3>1. CASE j = k
      <4>1. incoming[k].body = [p \in 1 .. sent[k].body |-> <<k, p>>]
        BY <2>1, <3>1 DEF BodyExact
      <4>2. Append([p \in 1 .. sent[k].body |-> <<k, p>>], x)
              = [p \in 1 .. sent[k].body + 1 |-> <<k, p>>]
        BY <1>2, <1>3, BodyNext
      <4> QED
        <5>1. incoming'[k].body = [p \in 1 .. sent[k].body + 1 |-> <<k, p>>]
          BY <1>6, <1>8, <4>1, <4>2
        <5>2. sent'[k].body = sent[k].body + 1
          BY <1>3, <1>4
        <5>3. incoming'[k].body = [p \in 1 .. sent'[k].body |-> <<k, p>>]
          BY <5>1, <5>2
        <5> QED
          BY <3>1, <5>3 DEF BodyExact
    <3>2. CASE j # k
      BY <1>4, <1>8, <1>9, <2>1, <3>2 DEF BodyExact
    <3> QED
      BY <3>1, <3>2
  <2> QED
    BY <2>3, <2>4, <2>5
<1> QED
  BY <1>10, <1>11, <1>13, <1>14 DEF ParserInv

\* on_message_complete(), or the end of the connection that completes the message.
LEMMA CompleteKeeps ==
    ASSUME ParserInv, MessageComplete, gram \in {"body", "eof", "done", "tvalue"}
    PROVE  ParserInv'
<1> PICK k : k = Len(sent)
  OBVIOUS
<1> PICK g : g = [incoming[k] EXCEPT !.complete = TRUE]
  OBVIOUS
<1>1. /\ gram' = "idle" /\ incoming' = [incoming EXCEPT ![Len(incoming)].complete = TRUE]
      /\ UNCHANGED <<type, url, fields, values, n_fields, n_values, flushed, _headers, _url, sent>>
  BY DEF MessageComplete, wrapVars, jsVars
<1>2. /\ k \in Nat /\ k > 0 /\ k \in 1 .. k
      /\ Len(incoming) = k /\ incoming \in Seq(GotMessage) /\ incoming[k] \in GotMessage
  BY DEF ParserInv, TypePart, CountPart, Contents, Trailing
<1>3. /\ g \in GotMessage /\ g.body = incoming[k].body
      /\ g.url = incoming[k].url /\ g.headers = incoming[k].headers
  BY <1>2 DEF GotMessage
<1>4. incoming' = [incoming EXCEPT ![k] = g]
  BY <1>1, <1>2
<1>5. /\ incoming' \in Seq(GotMessage) /\ Len(incoming') = k /\ incoming'[k] = g
      /\ \A j \in 1 .. k : j # k => incoming'[j] = incoming[j]
  <2>1. PICK w : w = incoming'
    OBVIOUS
  <2>2. PICK q : q = incoming
    OBVIOUS
  <2>3. PICK S : S = GotMessage
    OBVIOUS
  <2>4. q \in Seq(S) /\ k \in 1 .. Len(q) /\ g \in S /\ Len(q) = k
    BY <1>2, <1>3, <2>2, <2>3
  <2>5. w = [q EXCEPT ![k] = g]
    BY <1>4, <2>1, <2>2
  <2>6. w \in Seq(S) /\ Len(w) = Len(q) /\ w[k] = g /\ \A j \in 1 .. Len(q) : j # k => w[j] = q[j]
    BY ONLY <2>4, <2>5, ExceptSeq
  <2> QED
    BY <2>1, <2>2, <2>3, <2>4, <2>6, Zenon
<1>6. TypePart'
  BY <1>1, <1>5 DEF ParserInv, TypePart
<1>7. CountPart' /\ SlotPart'
  BY <1>1, <1>2, <1>5 DEF ParserInv, CountPart, SlotPart, SlotsInBounds, Opening
<1>8. OpenPart' /\ RestPart' /\ UrlPart'
  <2>1. gram = "tvalue" => ~Plain(k)
    BY <1>2 DEF ParserInv, RestPart, Trailing, Plain
  <2>2. Plain(k)' <=> Plain(k)
    BY <1>1 DEF Plain, Trailers
  <2>3. (n_fields = 0 /\ _headers = <<>>) \/ ~Plain(k)
    BY <2>1 DEF ParserInv, RestPart, Contents
  <2> QED
    BY <1>1, <2>2, <2>3 DEF ParserInv, OpenPart, RestPart, UrlPart, Opening, Contents, Trailing
<1>9. MessagesExact'
  <2>1. \A j \in 1 .. k : /\ incoming'[j].headers = incoming[j].headers
                          /\ incoming'[j].url = incoming[j].url
                          /\ incoming'[j].body = incoming[j].body
    BY <1>3, <1>5
  <2>2. \A j \in 1 .. k : SentHeaders(j)' = SentHeaders(j) /\ Trailers(j)' = Trailers(j)
    BY <1>1, SameMessage
  <2> QED
    BY <1>1, <1>2, <1>5, <2>1, <2>2, MessagesStay DEF ParserInv
<1> QED
  BY <1>6, <1>7, <1>8, <1>9 DEF ParserInv

\* A syntax error: JavaScript keeps what it has.
LEMMA ParseErrorKeeps ==
    ASSUME ParserInv, ParseError
    PROVE  ParserInv'
<1>1. /\ gram' = "dead"
      /\ UNCHANGED <<type, url, fields, values, n_fields, n_values, flushed, _headers, _url, sent,
                     incoming>>
  BY DEF ParseError, wrapVars, jsVars
<1>2. TypePart' /\ SlotPart'
  BY <1>1 DEF ParserInv, TypePart, SlotPart, SlotsInBounds
<1>3. CountPart'
  <2>1. Len(sent) \in Nat /\ Len(incoming) \in Nat
    BY DEF ParserInv, TypePart
  <2>2. Len(incoming) <= Len(sent)
    BY <2>1 DEF ParserInv, TypePart, CountPart
  <2> QED
    BY <1>1, <2>2 DEF CountPart, Opening, Trailing, Contents
<1>4. OpenPart' /\ RestPart' /\ UrlPart'
  BY <1>1 DEF ParserInv, OpenPart, RestPart, UrlPart, Opening, Contents, Trailing
<1>5. MessagesExact'
  BY <1>1, MessagesStay, SameMessage DEF ParserInv
<1> QED
  BY <1>2, <1>3, <1>4, <1>5 DEF ParserInv

\* Every callback of the library.
LEMMA CallbackKeeps ==
    ASSUME ParserInv, Callback
    PROVE  ParserInv'
  BY BeginKeeps, UrlKeeps, FieldBegins, FieldGrows, ValueKeeps, HeadersCompleteKeeps, BodyKeeps,
     CompleteKeeps DEF Callback, on_message_complete

\* A step of the connection only.
LEMMA ParserStutters ==
    ASSUME ParserInv, UNCHANGED parserVars
    PROVE  ParserInv'
<1>1. UNCHANGED <<type, gram, url, fields, values, n_fields, n_values, flushed, _headers, _url,
                  sent, incoming>>
  BY DEF parserVars, wrapVars, jsVars
<1>2. TypePart' /\ SlotPart' /\ CountPart'
  BY <1>1 DEF ParserInv, TypePart, SlotPart, SlotsInBounds, CountPart
<1>3. OpenPart' /\ RestPart' /\ UrlPart'
  BY <1>1 DEF ParserInv, OpenPart, RestPart, UrlPart, Plain, Trailers, SlotsHold, SentHeader
<1>4. MessagesExact'
  BY <1>1, MessagesStay, SameMessage DEF ParserInv
<1> QED
  BY <1>2, <1>3, <1>4 DEF ParserInv

\* http_parser_execute() at the end of the data.
LEMMA FinishKeeps ==
    ASSUME ParserInv, Finish
    PROVE  ParserInv'
  BY CompleteKeeps, ParserStutters, ParseErrorKeeps DEF Finish

-----------------------------------------------------------------------------
(* The connection.                                                         *)

\* destroy() of a socket, in whatever state.
LEMMA DestroyInv ==
    ASSUME NEW s, NEW lt \in BOOLEAN, SocketInv(s, lt)
    PROVE  /\ SocketInv(Destroy(s), lt)
           /\ Destroy(s).handle = s.handle
<1>1. CASE s.handle # "open"
  BY <1>1 DEF Destroy, SocketInv
<1>2. CASE s.handle = "open" /\ s.ending
  <2>1. SocketEnd(s) = s /\ ~s.ended
    BY <1>2 DEF SocketEnd, SocketInv
  <2>2. Destroy(s) = [s EXCEPT !.waits = TRUE]
    BY <1>2, <2>1 DEF Destroy
  <2> QED
    BY <1>2, <2>1, <2>2 DEF SocketInv, SocketType
<1>3. CASE s.handle = "open" /\ ~s.ending
  <2>1. PICK e : e = SocketEnd(s)
    OBVIOUS
  <2>2. /\ e = [s EXCEPT !.ending = TRUE, !.tick = (s.pending = 0)] /\ ~s.ended
        /\ s \in SocketType
    BY <1>3, <2>1 DEF SocketEnd, SocketInv
  <2>3. e \in SocketType /\ ~e.ended
    BY <2>2 DEF SocketType
  <2>4. Destroy(s) = [e EXCEPT !.waits = TRUE]
    BY <1>3, <2>1, <2>3 DEF Destroy
  <2> QED
    BY <1>3, <2>2, <2>3, <2>4 DEF SocketInv, SocketType
<1> QED
  BY <1>1, <1>2, <1>3

\* destroySoon() of a socket that is not closed.
LEMMA DestroySoonInv ==
    ASSUME NEW s, NEW lt \in BOOLEAN, SocketInv(s, lt), ~s.ended
    PROVE  SocketInv(DestroySoon(s), lt) /\ DestroySoon(s).handle = "open"
<1>1. s \in SocketType /\ s.handle = "open"
  BY DEF SocketInv
<1>2. CASE s.ending
  <2>1. DestroySoon(s) = [s EXCEPT !.waits = TRUE]
    BY <1>2 DEF DestroySoon, SocketEnd
  <2> QED
    BY <1>1, <2>1 DEF SocketInv, SocketType
<1>3. CASE ~s.ending
  <2>1. DestroySoon(s) = [[s EXCEPT !.ending = TRUE, !.tick = (s.pending = 0)] EXCEPT !.waits = TRUE]
    BY <1>3 DEF DestroySoon, SocketEnd
  <2> QED
    BY <1>1, <1>3, <2>1 DEF SocketInv, SocketType
<1> QED
  BY <1>2, <1>3

\* 'finish' closes the handle: in the tick of end() or after the last write.
LEMMA EmitFinishInv ==
    ASSUME NEW s \in SocketType, NEW lt \in BOOLEAN,
           s.handle = "open", ~s.ended, s.ending, s.waits, s.pending = 0 \/ lt
    PROVE  SocketInv(EmitFinish(s), lt) /\ EmitFinish(s).handle = "closing"
<1>1. PICK e : e = [s EXCEPT !.ended = TRUE, !.tick = FALSE]
  OBVIOUS
<1>2. /\ e \in SocketType /\ e.handle = "open" /\ e.ending /\ e.ended /\ ~e.tick /\ e.waits
      /\ e.pending = s.pending
  BY <1>1 DEF SocketType
<1>3. EmitFinish(s) = Destroy(e)
  BY <1>1 DEF EmitFinish
<1>4. Destroy(e) = [e EXCEPT !.handle = "closing"]
  BY <1>2 DEF Destroy, SocketEnd
<1> QED
  BY <1>2, <1>3, <1>4 DEF SocketInv, SocketType

\* A write that is queued on a socket before its 'finish'.
LEMMA SentInv ==
    ASSUME ConnInv, Send
    PROVE  /\ late' \in BOOLEAN /\ SocketInv(Sent, late')
           /\ ~Sent.ended /\ Sent.handle = "open" /\ sock.handle = "open"
<1>1. /\ late' = (late \/ sock.tick) /\ ~sock.ended /\ sock \in SocketType /\ SocketInv(sock, late)
      /\ late \in BOOLEAN
  BY DEF ConnInv, Send, SocketInv
<1>2. late' \in BOOLEAN /\ (sock.tick => late') /\ (late => late')
  BY <1>1 DEF SocketType
<1>3. Sent = [sock EXCEPT !.pending = sock.pending + 1]
  BY DEF Sent
<1> QED
  BY <1>1, <1>2, <1>3 DEF SocketInv, SocketType

\* A step that leaves the messages and their owner alone, of a connection that is not closed.
LEMMA ConnStep ==
    ASSUME ConnInv, type' = type, SocketInv(sock', late'), late' \in BOOLEAN,
           sock.handle # "closed", sock'.handle # "closed", UNCHANGED outgoing,
           Server => UNCHANGED res
    PROVE  ConnInv'
  BY DEF ConnInv, OwnerInv, Server

LEMMA TypeStays ==
    ASSUME ParserInv, Callback \/ ParseError \/ Finish \/ UNCHANGED parserVars
    PROVE  type' = type
  BY DEF Callback, on_message_begin, on_url, on_header_field, on_header_value,
         on_headers_complete, on_body, on_message_complete, MessageComplete, ParseError, Finish,
         parserVars

LEMMA ParsingKeeps ==
    ASSUME ParserInv, ConnInv, Parsing
    PROVE  ConnInv'
<1>1. /\ exec /\ Callback /\ UNCHANGED <<exec, late, closes>>
      /\ UNCHANGED <<sock, res, outgoing>> \/ OnIncoming
  BY DEF Parsing
<1>2. type' = type /\ sock.handle # "closed" /\ SocketInv(sock, late) /\ late \in BOOLEAN
  BY <1>1, TypeStays DEF ConnInv
<1>3. CASE UNCHANGED <<sock, res, outgoing>>
  BY <1>1, <1>2, <1>3, ConnStep
<1>4. CASE OnIncoming /\ Client
  <2>1. sock' \in {sock, Destroy(sock)} /\ UNCHANGED outgoing /\ ~Server
    BY <1>4 DEF OnIncoming, Client, Server
  <2>2. SocketInv(sock', late') /\ sock'.handle # "closed" /\ late' \in BOOLEAN
    BY <1>1, <1>2, <2>1, DestroyInv
  <2> QED
    BY <1>2, <2>1, <2>2, ConnStep
<1>5. CASE OnIncoming /\ ~Client
  <2>1. /\ outgoing' = Append(outgoing, "open") /\ UNCHANGED sock
        /\ res' = Len(outgoing) + 1
    BY <1>2, <1>5 DEF OnIncoming
  <2>2. /\ outgoing \in Seq({"open", "ended"}) /\ outgoing' \in Seq({"open", "ended"})
        /\ Len(outgoing) \in Nat /\ Len(outgoing') = Len(outgoing) + 1
        /\ outgoing'[Len(outgoing) + 1] = "open"
    BY <2>1 DEF ConnInv
  <2>3. Len(outgoing') = 1 => outgoing'[1] # "ended" /\ res' = 1
    BY <2>1, <2>2
  <2> QED
    BY <1>1, <1>2, <2>1, <2>2, <2>3 DEF ConnInv, OwnerInv
<1> QED
  BY <1>1, <1>3, <1>4, <1>5

\* The system has answered a write.
LEMMA OnWrittenKeeps ==
    ASSUME ConnInv, OnWritten
    PROVE  ConnInv'
<1>1. /\ sock \in SocketType /\ SocketInv(sock, late) /\ late \in BOOLEAN
      /\ sock.pending > 0 /\ UNCHANGED <<type, late, outgoing, res, closes, exec>>
  BY DEF ConnInv, SocketInv, OnWritten, parserVars
<1>2. CASE sock.handle # "open"
  <2>1. sock' = [sock EXCEPT !.pending = 0]
    BY <1>2 DEF OnWritten
  <2>2. SocketInv(sock', late') /\ sock'.handle = sock.handle
    BY <1>1, <2>1 DEF SocketInv, SocketType
  <2> QED
    BY <1>1, <2>2 DEF ConnInv, OwnerInv, Server
<1>3. CASE sock.handle = "open"
  <2>1. PICK a : a = [sock EXCEPT !.pending = sock.pending - 1]
    OBVIOUS
  <2>2. sock' = IF a.pending = 0 /\ sock.ending THEN EmitFinish(a) ELSE a
    BY <1>3, <2>1 DEF OnWritten
  <2>3. /\ a \in SocketType /\ a.handle = "open" /\ ~a.ended /\ (a.ending <=> sock.ending)
        /\ (a.waits <=> sock.waits) /\ (a.tick <=> sock.tick) /\ a.pending = sock.pending - 1
    BY <1>1, <1>3, <2>1 DEF SocketInv, SocketType
  <2>4. SocketInv(a, late)
    BY <1>1, <2>3 DEF SocketInv
  <2>5. SocketInv(sock', late) /\ sock'.handle # "closed"
    BY <1>1, <2>2, <2>3, <2>4, EmitFinishInv DEF SocketInv
  <2> QED
    BY <1>1, <1>3, <2>5, ConnStep
<1> QED
  BY <1>2, <1>3

\* 'close' of the socket, at both ends.
LEMMA OnClosedKeeps ==
    ASSUME ParserInv, ConnInv, OnClosed
    PROVE  ConnInv'
<1>1. /\ ~exec /\ sock.handle = "closing" /\ UNCHANGED <<exec, res, outgoing, late>>
      /\ sock' = [sock EXCEPT !.handle = "closed"]
      /\ Server => closes' = IF res # 0 THEN Len(outgoing) ELSE 0
  BY DEF OnClosed, Idle, ServerOnClose, Server, Client
<1>2. type' = type
  BY TypeStays DEF OnClosed, ClientOnClose, ServerOnClose, Finish
<1>3. SocketInv(sock', late') /\ sock'.handle = "closed"
  BY <1>1 DEF ConnInv, SocketInv, SocketType
<1> QED
  BY <1>1, <1>2, <1>3 DEF ConnInv, OwnerInv, Server

\* The program writes to a message, or ends it.
LEMMA WriteKeeps ==
    ASSUME ConnInv, NEW k, Write(k)
    PROVE  ConnInv'
<1>1. Send /\ sock' = Sent /\ UNCHANGED <<type, outgoing, res>>
  BY DEF Write, parserVars
<1> QED
  BY <1>1, SentInv, ConnStep

LEMMA EndKeeps ==
    ASSUME ConnInv, NEW k, End(k)
    PROVE  ConnInv'
<1>1. /\ Send /\ k \in DOMAIN outgoing /\ outgoing[k] = "open"
      /\ outgoing' = [outgoing EXCEPT ![k] = "ended"]
      /\ UNCHANGED <<type, exec, closes>>
  BY DEF End, parserVars
<1>2. /\ late' \in BOOLEAN /\ SocketInv(Sent, late') /\ ~Sent.ended
      /\ Sent.handle = "open" /\ sock.handle = "open"
  BY <1>1, SentInv
<1>3. /\ outgoing \in Seq({"open", "ended"}) /\ k \in 1 .. Len(outgoing)
      /\ outgoing' \in Seq({"open", "ended"}) /\ Len(outgoing') = Len(outgoing)
      /\ outgoing'[k] = "ended"
  BY <1>1 DEF ConnInv
<1>4. CASE Server
  <2>1. sock' = DestroySoon(Sent) /\ res' = 0
    BY <1>4 DEF End, ResOnFinish
  <2>2. SocketInv(sock', late') /\ sock'.handle = "open"
    BY <1>2, <2>1, DestroySoonInv
  <2>3. Len(outgoing') = 1 => outgoing'[1] = "ended"
    BY <1>3
  <2> QED
    BY <1>1, <1>2, <1>3, <2>1, <2>2, <2>3 DEF ConnInv, OwnerInv
<1>5. CASE ~Server
  <2>1. sock' = Sent /\ ~Server'
    BY <1>1, <1>5 DEF End, Server
  <2> QED
    BY <1>1, <1>2, <1>3, <2>1 DEF ConnInv, OwnerInv
<1> QED
  BY <1>4, <1>5

HttpInv == ParserInv /\ ConnInv

\* A connection that was opened, of either side.
LEMMA HttpInit == Init => HttpInv
<1> SUFFICES ASSUME Init
             PROVE  HttpInv
  OBVIOUS
<1>1. ParserInv
  BY HttpParserInitInv DEF Init
<1>2. ConnInv
  <2>1. /\ sock = Connected /\ late = FALSE /\ exec = FALSE
        /\ outgoing = (IF Client THEN <<"open">> ELSE <<>>)
        /\ Server => ~Client
    BY DEF Init, Server, Client
  <2>2. SocketInv(sock, late) /\ sock.handle = "open"
    BY <2>1 DEF SocketInv, SocketType, Connected
  <2>3. <<"open">> \in Seq({"open", "ended"}) /\ <<>> \in Seq({"open", "ended"}) /\ Len(<<>>) = 0
    OBVIOUS
  <2>4. outgoing \in Seq({"open", "ended"}) /\ (Server => outgoing = <<>>)
    <3>1. CASE Client
      BY <2>1, <2>3, <3>1
    <3>2. CASE ~Client
      BY <2>1, <2>3, <3>2
    <3> QED
      BY <3>1, <3>2
  <2>5. OwnerInv
    BY <2>2, <2>3, <2>4 DEF OwnerInv
  <2> QED
    BY <2>1, <2>2, <2>4, <2>5 DEF ConnInv
<1> QED
  BY <1>1, <1>2 DEF HttpInv

\* Every step of the connection, the parser running or not.
LEMMA HttpNext == HttpInv /\ [Next]_vars => HttpInv'
<1> SUFFICES ASSUME ParserInv, ConnInv, [Next]_vars
             PROVE  ParserInv' /\ ConnInv'
  BY DEF HttpInv
<1>s. SocketInv(sock, late) /\ late \in BOOLEAN /\ (sock.handle = "closed" => ~exec)
  BY DEF ConnInv
<1>1. CASE OnData \/ Parsed
  <2>1. UNCHANGED parserVars /\ UNCHANGED <<sock, outgoing, late, res>> /\ sock.handle # "closed"
    BY <1>1, <1>s DEF OnData, Parsed, Reading
  <2> QED
    BY <1>s, <2>1, ParserStutters, TypeStays, ConnStep
<1>2. CASE Parsing
  BY <1>2, CallbackKeeps, ParsingKeeps DEF Parsing
<1>3. CASE FinishTick
  <2>1. /\ UNCHANGED parserVars /\ UNCHANGED <<outgoing, late, res>>
        /\ sock.tick /\ sock' = EmitFinish(sock)
    BY <1>3 DEF FinishTick
  <2>2. /\ sock \in SocketType /\ sock.handle = "open" /\ ~sock.ended /\ sock.ending
        /\ sock.waits /\ (sock.pending = 0 \/ late)
    BY <1>s, <2>1 DEF SocketInv
  <2>3. SocketInv(sock', late') /\ sock'.handle # "closed"
    BY <1>s, <2>1, <2>2, EmitFinishInv
  <2> QED
    BY <1>s, <2>1, <2>2, <2>3, ParserStutters, TypeStays, ConnStep
<1>4. CASE ParseFails
  <2>1. /\ ParseError \/ UNCHANGED parserVars
        /\ sock' = Destroy(sock) /\ UNCHANGED <<outgoing, late, res>> /\ exec
    BY <1>4 DEF ParseFails
  <2>2. SocketInv(sock', late') /\ sock'.handle # "closed" /\ sock.handle # "closed"
    BY <1>s, <2>1, DestroyInv
  <2> QED
    BY <1>s, <2>1, <2>2, ParserStutters, ParseErrorKeeps, TypeStays, ConnStep
<1>5. CASE OnEnd \/ OnError \/ OnTimeout
  <2>1. /\ Finish \/ UNCHANGED parserVars
        /\ sock' = Destroy(sock) /\ sock.handle = "open" /\ UNCHANGED <<outgoing, late, res>>
    BY <1>5 DEF OnEnd, OnError, OnTimeout, FinishParser, Reading
  <2>2. SocketInv(sock', late') /\ sock'.handle # "closed"
    BY <1>s, <2>1, DestroyInv
  <2> QED
    BY <1>s, <2>1, <2>2, FinishKeeps, ParserStutters, TypeStays, ConnStep
<1>6. CASE OnWritten
  <2>1. UNCHANGED parserVars
    BY <1>6 DEF OnWritten
  <2> QED
    BY <1>6, <2>1, ParserStutters, OnWrittenKeeps
<1>7. CASE ResponseOnEnd
  <2>1. /\ UNCHANGED parserVars /\ UNCHANGED <<outgoing, late, res>>
        /\ ~sock.ending /\ sock' = DestroySoon(sock)
    BY <1>7 DEF ResponseOnEnd
  <2>2. ~sock.ended /\ sock.handle = "open"
    BY <1>s, <2>1 DEF SocketInv, SocketType
  <2>3. SocketInv(sock', late') /\ sock'.handle # "closed"
    BY <1>s, <2>1, <2>2, DestroySoonInv
  <2> QED
    BY <1>s, <2>1, <2>2, <2>3, ParserStutters, TypeStays, ConnStep
<1>8. CASE OnClosed
  <2>1. Finish \/ UNCHANGED parserVars
    BY <1>8 DEF OnClosed, ClientOnClose, ServerOnClose
  <2> QED
    BY <1>8, <2>1, FinishKeeps, ParserStutters, OnClosedKeeps
<1>9. CASE WriteAfterEnd
  <2>1. /\ Finish /\ Client /\ UNCHANGED <<sock, late, outgoing, exec>>
    BY <1>9 DEF WriteAfterEnd, FinishParser
  <2>2. type' = type /\ ~Server'
    BY <2>1, TypeStays DEF Client, Server
  <2> QED
    BY <1>s, <2>1, <2>2, FinishKeeps DEF ConnInv, OwnerInv
<1>10. CASE \E k \in 1 .. MaxMessages : Write(k) \/ End(k)
  <2>1. UNCHANGED parserVars
    BY <1>10 DEF Write, End
  <2> QED
    BY <1>10, <2>1, ParserStutters, WriteKeeps, EndKeeps
<1>11. CASE UNCHANGED vars
  <2>1. UNCHANGED parserVars /\ UNCHANGED connVars
    BY <1>11 DEF vars
  <2>2. UNCHANGED <<type, sock, exec, res, outgoing, late, closes>>
    BY <2>1 DEF parserVars, connVars
  <2> QED
    BY <2>1, <2>2, ParserStutters DEF ConnInv, OwnerInv, Server
<1> QED
  BY <1>1, <1>2, <1>3, <1>4, <1>5, <1>6, <1>7, <1>8, <1>9, <1>10, <1>11 DEF Next

LEMMA HttpInvariance == Spec => []HttpInv
<1> QED
  BY HttpInit, HttpNext, PTL DEF Spec

-----------------------------------------------------------------------------
\* The arrays of the parser never overflow, for every size of them, and a header has a value
\* before the next one begins (iotjs_module_httpparser.c).
THEOREM ParserSlotsInBounds == Spec => []SlotsInBounds
<1>1. HttpInv => SlotsInBounds
  BY DEF HttpInv, ParserInv, SlotPart
<1> QED
  BY HttpInvariance, <1>1, PTL

\* JavaScript gets of every message the headers, the url or status text and the body that the
\* peer sent (parserOnHeadersComplete and parserOnBody of http_common.js), for every size of the
\* arrays, wherever the chunks cut the message and whether the arrays were flushed or not.
THEOREM MessagesArriveExactly == Spec => []MessagesExact
<1>1. HttpInv => MessagesExact
  BY DEF HttpInv, ParserInv
<1> QED
  BY HttpInvariance, <1>1, PTL

\* Nothing that was written is cut off when the connection closes, whoever closes it (destroy()
\* and destroySoon() of net.js wait for 'finish'), and the program is told by one 'close' of the
\* only response if it was not ended (onServerResponseClose and resOnFinish of http_server.js).
THEOREM EndedIsOutOrTold == Spec => []OutOrTold
<1>1. HttpInv => OutOrTold
  <2> SUFFICES ASSUME ConnInv
               PROVE  WritesFlushed /\ ToldOfClose
    BY DEF HttpInv, OutOrTold
  <2>1. WritesFlushed
    BY DEF ConnInv, SocketInv, WritesFlushed
  <2>2. ToldOfClose
    BY DEF ConnInv, OwnerInv, ToldOfClose
  <2> QED
    BY <2>1, <2>2
<1> QED
  BY HttpInvariance, <1>1, PTL

-----------------------------------------------------------------------------
(* The readable stream, which the body of a message is to its reader.      *)

\* The inductive invariant: each conjunct needs the others.  EndAfterData rests on
\* BytesInOrder, which rests on FlowingIsDrained.
ReadInv ==
    /\ TypeOK
    /\ BytesInOrder
    /\ FlowingIsDrained
    /\ EndAfterData
    /\ EndNotForgotten

LEMMA ReadInitInv == ReadInit => ReadInv
  <1> SUFFICES ASSUME ReadInit
               PROVE  ReadInv
    OBVIOUS
  <1>1. <<>> \in Seq(Byte) /\ Len(<<>>) = 0 /\ <<>> \o <<>> = <<>>
    BY ConcatEmptySeq
  <1>2. QED
    BY <1>1
    DEF ReadInit, ReadInv, TypeOK, BytesInOrder, FlowingIsDrained, EndAfterData, EndNotForgotten

\* What the buffer being empty means.
LEMMA Drained ==
    ASSUME ReadInv
    PROVE  /\ length = 0 <=> buffer = <<>>
           /\ buffer = <<>> => got = pushed
  <1>1. buffer \in Seq(Byte) /\ got \in Seq(Byte) /\ length = Len(buffer)
    BY DEF ReadInv, TypeOK
  <1>2. length = 0 <=> buffer = <<>>
    BY <1>1, EmptySeq
  <1>3. buffer = <<>> => got = pushed
    BY <1>1, ConcatEmptySeq DEF ReadInv, BytesInOrder
  <1>4. QED
    BY <1>2, <1>3

\* push(chunk): stored when paused, handed to the listeners when flowing.
LEMMA PushInv ==
    ASSUME ReadInv, NEW chunk \in Chunk, Push(chunk)
    PROVE  ReadInv'
  <1>1. /\ buffer \in Seq(Byte) /\ got \in Seq(Byte) /\ pushed \in Seq(Byte)
        /\ chunk \in Seq(Byte) /\ length = Len(buffer) /\ TypeOK
    BY ConstantsAssumption DEF ReadInv, TypeOK
  <1>2. /\ pushed' = pushed \o chunk /\ pushes' = pushes + 1 /\ ~ended
        /\ UNCHANGED <<flowing, ended, endEmitted, refused, unwound>>
    BY DEF Push
  <1>3. pushed' \in Seq(Byte) /\ ~endEmitted /\ pushed = got \o buffer
    BY <1>1, <1>2, ConcatProperties DEF ReadInv, EndAfterData, BytesInOrder
  <1>4. CASE ~flowing
    <2>1. /\ buffer' = buffer \o chunk /\ length' = length + Len(chunk)
          /\ UNCHANGED <<depth, got>>
      BY <1>1, <1>4 DEF Push, MustBuffer, TypeOK
    <2>2. buffer' \in Seq(Byte) /\ length' = Len(buffer') /\ length' \in Nat
      BY <1>1, <2>1, ConcatProperties, LenProperties
    <2>3. pushed' = got' \o buffer'
      <3>1. (got \o buffer) \o chunk = got \o (buffer \o chunk)
        BY <1>1, ConcatAssociative
      <3>2. QED
        BY <1>2, <1>3, <2>1, <3>1
    <2>4. TypeOK'
      BY <1>1, <1>2, <1>3, <2>1, <2>2 DEF TypeOK
    <2>5. QED
      BY <1>2, <1>3, <1>4, <2>3, <2>4
      DEF ReadInv, BytesInOrder, FlowingIsDrained, EndAfterData, EndNotForgotten
  <1>5. CASE flowing
    <2>1. length = 0 /\ got = pushed
      BY <1>5, Drained DEF ReadInv, FlowingIsDrained
    <2>2. /\ buffer' = <<>> /\ length' = 0 /\ depth' = depth + 1 /\ got' = got \o chunk
      BY <1>5, <2>1 DEF Push, MustBuffer, EmitData, ReadBuffer
    <2>3. <<>> \in Seq(Byte) /\ Len(<<>>) = 0 /\ got' \in Seq(Byte) /\ got' = got' \o <<>>
      BY <1>1, <2>2, ConcatProperties, ConcatEmptySeq
    <2>4. TypeOK'
      BY <1>1, <1>2, <1>3, <2>2, <2>3 DEF TypeOK
    <2>5. QED
      BY <1>2, <1>3, <2>1, <2>2, <2>3, <2>4
      DEF ReadInv, BytesInOrder, FlowingIsDrained, EndAfterData, EndNotForgotten
  <1>6. QED
    BY <1>1, <1>4, <1>5 DEF TypeOK

\* resume() and read(): the whole buffer goes to the user.
LEMMA TakeInv ==
    ASSUME ReadInv, Resume \/ ReadAll
    PROVE  ReadInv'
  <1>1. /\ buffer \in Seq(Byte) /\ got \in Seq(Byte) /\ pushed = got \o buffer
        /\ length = Len(buffer) /\ TypeOK /\ pushed \in Seq(Byte)
    BY DEF ReadInv, TypeOK, BytesInOrder
  <1>2. <<>> \in Seq(Byte) /\ Len(<<>>) = 0 /\ pushed \o <<>> = pushed
    BY <1>1, ConcatEmptySeq
  <1>3. length = 0 => buffer = <<>> /\ got = pushed
    BY Drained
  <1>4. CASE Resume /\ length > 0
    <2>1. /\ flowing' = TRUE /\ buffer' = <<>> /\ length' = 0 /\ depth' = depth + 1
          /\ got' = pushed
          /\ UNCHANGED <<ended, endEmitted, pushes, refused, pushed, unwound>>
      BY <1>1, <1>4 DEF Resume, EmitData, ReadBuffer, TypeOK
    <2>2. TypeOK'
      BY <1>1, <1>2, <2>1 DEF TypeOK
    <2>3. depth' > 0
      BY <1>1, <2>1 DEF TypeOK
    <2>4. QED
      BY <1>2, <2>1, <2>2, <2>3
      DEF ReadInv, BytesInOrder, FlowingIsDrained, EndAfterData, EndNotForgotten
  <1>5. CASE Resume /\ length = 0
    <2>1. /\ flowing' = TRUE
          /\ UNCHANGED <<buffer, length, depth, got, ended, endEmitted, pushes, refused,
                         pushed, unwound>>
      BY <1>5 DEF Resume
    <2>2. TypeOK'
      BY <1>1, <2>1 DEF TypeOK
    <2>3. QED
      BY <1>3, <1>5, <2>1, <2>2
      DEF ReadInv, BytesInOrder, FlowingIsDrained, EndAfterData, EndNotForgotten
  <1>6. CASE ReadAll
    <2>1. /\ buffer' = <<>> /\ length' = 0 /\ got' = pushed
          /\ endEmitted' = (endEmitted \/ ended)
          /\ UNCHANGED <<flowing, ended, depth, pushes, refused, pushed, unwound>>
      BY <1>1, <1>6 DEF ReadAll, ReadBuffer, EmitEndIf
    <2>2. TypeOK'
      BY <1>1, <1>2, <2>1 DEF TypeOK
    <2>3. QED
      BY <1>2, <2>1, <2>2
      DEF ReadInv, BytesInOrder, FlowingIsDrained, EndAfterData, EndNotForgotten
  <1>7. QED
    BY <1>1, <1>4, <1>5, <1>6 DEF Resume

\* The steps that move no byte.
LEMMA StayInv ==
    ASSUME ReadInv,
           PushEof \/ PushRefused \/ Pause \/ ReadPart \/ DataReturn \/ Unwind \/ UNCHANGED readVars
    PROVE  ReadInv'
  <1>1. UNCHANGED <<buffer, length, pushes, pushed, got>> /\ TypeOK
    BY DEF PushEof, PushRefused, Pause, ReadPart, DataReturn, Unwind, readVars, ReadInv
  <1>2. (length = 0 <=> buffer = <<>>) /\ (buffer = <<>> => got = pushed)
    BY Drained
  <1>3. BytesInOrder'
    BY <1>1 DEF ReadInv, BytesInOrder
  <1>4. CASE PushEof
    <2>1. /\ ended' = TRUE /\ endEmitted' = (endEmitted \/ length = 0)
          /\ UNCHANGED <<flowing, depth, refused, unwound>>
      BY <1>4 DEF PushEof, EmitEndIf
    <2>2. TypeOK'
      BY <1>1, <2>1 DEF TypeOK
    <2>3. QED
      BY <1>1, <1>2, <1>3, <2>1, <2>2
      DEF ReadInv, FlowingIsDrained, EndAfterData, EndNotForgotten
  <1>5. CASE DataReturn
    <2>1. /\ depth > 0 /\ depth' = depth - 1
          /\ endEmitted' = (endEmitted \/ (ended /\ length = 0))
          /\ UNCHANGED <<flowing, ended, refused, unwound>>
      BY <1>5 DEF DataReturn, EmitEndIf
    <2>2. TypeOK'
      BY <1>1, <2>1 DEF TypeOK
    <2>3. QED
      BY <1>1, <1>2, <1>3, <2>1, <2>2
      DEF ReadInv, FlowingIsDrained, EndAfterData, EndNotForgotten
  <1>6. CASE ReadPart \/ Unwind
    <2>1. /\ depth' = 0 /\ unwound' = TRUE
          /\ UNCHANGED <<flowing, ended, endEmitted, refused>>
      BY <1>6 DEF ReadPart, Unwind
    <2>2. TypeOK'
      BY <1>1, <2>1 DEF TypeOK
    <2>3. QED
      BY <1>1, <1>2, <1>3, <2>1, <2>2
      DEF ReadInv, FlowingIsDrained, EndAfterData, EndNotForgotten
  <1>7. CASE PushRefused \/ Pause \/ UNCHANGED readVars
    <2>1. /\ UNCHANGED <<ended, endEmitted, depth, unwound>>
          /\ flowing' = flowing \/ flowing' = FALSE
          /\ refused' = refused \/ refused' = refused + 1
      BY <1>7 DEF PushRefused, Pause, readVars
    <2>2. TypeOK'
      <3>1. flowing' \in BOOLEAN
        BY <1>1, <2>1 DEF TypeOK
      <3>2. refused' \in Nat
        BY <1>1, <2>1 DEF TypeOK
      <3>3. QED
        BY <1>1, <2>1, <3>1, <3>2 DEF TypeOK
    <2>3. QED
      BY <1>1, <1>2, <1>3, <2>1, <2>2
      DEF ReadInv, FlowingIsDrained, EndAfterData, EndNotForgotten
  <1>8. QED
    BY <1>4, <1>5, <1>6, <1>7

LEMMA ReadNextInv == ReadInv /\ [ReadNext]_readVars => ReadInv'
  <1> SUFFICES ASSUME ReadInv, [ReadNext]_readVars
               PROVE  ReadInv'
    OBVIOUS
  <1>1. CASE \E chunk \in Chunk : Push(chunk)
    BY <1>1, PushInv
  <1>2. CASE Resume \/ ReadAll
    BY <1>2, TakeInv
  <1>3. CASE PushEof \/ PushRefused \/ Pause \/ ReadPart \/ DataReturn \/ Unwind
             \/ UNCHANGED readVars
    BY <1>3, StayInv
  <1>4. QED
    BY <1>1, <1>2, <1>3 DEF ReadNext, Source, User

LEMMA ReadAlways == ReadSpec => []ReadInv
  BY ReadInitInv, ReadNextInv, PTL DEF ReadSpec

-----------------------------------------------------------------------------

\* The state keeps its types and state.length is the size of the buffer.
THEOREM ReadTypeCorrect == ReadSpec => []TypeOK
  BY ReadAlways, PTL DEF ReadInv

\* No byte is lost, duplicated or reordered by the changes between flowing and paused
\* mode, also when listeners of 'data' pause, resume, read and push.
THEOREM ReadLossless == ReadSpec => []BytesInOrder
  BY ReadAlways, PTL DEF ReadInv

\* 'end' comes after the last byte, and it comes unless a listener throws.
THEOREM ReadEndCorrect == ReadSpec => [](EndAfterData /\ EndNotForgotten)
  BY ReadAlways, PTL DEF ReadInv

============================================================================
