---------------------------- MODULE HttpTransfer ----------------------------
(***************************************************************************)
(* One connection of QxtAbstractHttpConnector and the bodies that          *)
(* QxtHttpSessionManager sends over it.                                    *)
(*                                                                         *)
(* What the browser sends is cut into requests by incomingData().  The     *)
(* page that answers a request has a data source; its data goes out in     *)
(* chunks or in blocks, driven by three signals whose handlers run later,  *)
(* from the event queue: bytesWritten() of the connection, readyRead() and *)
(* aboutToClose() of the source.  A later page of the same connection      *)
(* replaces the handlers.                                                  *)
(*                                                                         *)
(* Handlers are functions from a state of the connection to the next one,  *)
(* since they call each other.  HttpSessions has the page queue and the    *)
(* table of requests.                                                      *)
(***************************************************************************)
EXTENDS Naturals, Sequences, SequencesExt, FiniteSets

CONSTANTS
    MaxRequests,   \* bound: requests sent
    MaxUnits       \* bound: data of one page, in reads of 32768 bytes

ASSUME HttpTransferAssumption == MaxRequests \in Nat /\ MaxUnits \in Nat

VARIABLES
    conn,    \* the connection: connector, ConnectionState, handlers, wire
    source,  \* page -> its data source
    pages,   \* page events in the queue
    net      \* what the browser sent and the connection has not received

vars == <<conn, source, pages, net>>

Rids == 1 .. MaxRequests

\* A request head and its body: "post" has a body of one unit and a
\* content-length, "close" says "Connection: close", "old" is HTTP/1.0.
Heads == {"get", "post", "close", "old"}
IsHead(x) == x # "body"

\* QBuffer; a QProcess or another device whose data comes in time; the QProcess
\* of QxtWebCgiService.
SourceKinds == {"buffer", "stream", "cgi"}

NoSource == [kind |-> "none", chunked |-> FALSE, avail |-> 0, left |-> 0, ended |-> FALSE, early |-> FALSE, lost |-> FALSE]

NewConnection ==
    [device |-> "open",       \* or "closing" or "gone"
     buffer |-> <<>>,         \* buffers[device]
     content |-> 0,           \* the request whose body contents[device] collects
     needs |-> 0,             \* its bytesNeeded(); MaxRequests + 2: wantAll()
     parsed |-> 0,            \* request IDs given
     \* ConnectionState
     onBytesWritten |-> 0, onSource |-> 0,   \* the page that is bound, or 0
     finished |-> FALSE, keepAlive |-> FALSE, streaming |-> FALSE,
     chunked |-> FALSE, sourceClosed |-> FALSE, readyRead |-> FALSE, old |-> FALSE,
     calls |-> <<>>,          \* queued calls of handlers and of incomingData()
     toWrite |-> FALSE,       \* bytesToWrite() > 0
     wire |-> <<>>,           \* history: what was written
     sent |-> 0,              \* history: requests sent
     final |-> FALSE,         \* history: the browser said that no more will come
     pipelined |-> FALSE,     \* history: a request was sent before the last one was answered
     garbled |-> FALSE,       \* history: a body was taken for a request
     dropped |-> FALSE,       \* history: a content was given up before its body had come
     aborted |-> FALSE]       \* history: the browser closed the connection

All == MaxRequests + 2

Init ==
    /\ conn = NewConnection
    /\ source = [r \in Rids |-> NoSource]
    /\ pages = <<>>
    /\ net = <<>>

-----------------------------------------------------------------------------
(* Requests.                                                               *)

\* incomingData() once the head of a request is in the buffer, and what
\* incomingRequest() notes in the ConnectionState.  What stands before the
\* head becomes part of it.
NewRequest(c) ==
    LET i == SelectInSeq(c.buffer, IsHead)
        head == c.buffer[i]
        rest == SubSeq(c.buffer, i + 1, Len(c.buffer))
        rid == c.parsed + 1
        waits == head = "close" \/ (head = "post" /\ rest = <<>>)
    IN  [c EXCEPT !.parsed = rid,
                  !.garbled = @ \/ i > 1,
                  !.buffer = IF head = "close" \/ rest = <<>> THEN <<>>
                             ELSE IF head = "post" THEN Tail(rest) ELSE rest,
                  !.content = IF waits THEN rid ELSE 0,
                  !.needs = IF ~waits THEN 0 ELSE IF head = "close" THEN All ELSE 1,
                  !.calls = IF head = "post" /\ Len(rest) > 1
                            THEN Append(@, [op |-> "incoming", rid |-> 0]) ELSE @,
                  !.keepAlive = head \in {"get", "post"},
                  !.old = head = "old"]

\* Faulty: the rest of a body is not looked for.
IncomingHeads(c, block) ==
    LET d == [c EXCEPT !.content = 0, !.needs = 0, !.buffer = @ \o block]
    IN  IF \E i \in DOMAIN d.buffer : IsHead(d.buffer[i]) THEN NewRequest(d) ELSE d

\* incomingData(): the body that is still expected comes first, if the content
\* is still there and needs it.  One request is parsed; what follows stays in
\* the buffer.
IncomingData(c, block) ==
    LET expecting == c.content # 0 /\ c.needs > 0
        taken == IF ~expecting THEN 0
                 ELSE IF c.needs = All \/ Len(block) < c.needs THEN Len(block) ELSE c.needs
        rest == SubSeq(block, taken + 1, Len(block))
        d == [c EXCEPT !.content = 0, !.needs = 0, !.buffer = @ \o rest]
    IN  IF expecting /\ rest = <<>>
        THEN [c EXCEPT !.needs = IF @ = All THEN All ELSE @ - taken]
        ELSE IF \E i \in DOMAIN d.buffer : IsHead(d.buffer[i]) THEN NewRequest(d) ELSE d

\* contents[device] is a QPointer: null once the content is deleted.
DeleteContent(c) == [c EXCEPT !.content = 0, !.dropped = @ \/ c.needs = 1]

-----------------------------------------------------------------------------
(* Responses.                                                              *)

Write(c, tok, r) ==
    [c EXCEPT !.wire = Append(@, [tok |-> tok, rid |-> r]), !.toWrite = TRUE]

\* A deleted QxtBoundFunction takes its queued calls along.
Without(calls, ops) ==
    LET kept[n \in 0 .. Len(calls)] ==
            IF n = 0 THEN <<>>
            ELSE IF calls[n].op \in ops THEN kept[n - 1]
            ELSE Append(kept[n - 1], calls[n])
    IN  kept[Len(calls)]

DropCalls(c, ops) == [c EXCEPT !.calls = Without(@, ops)]

KeepHandlers(c) == c \* faulty

ClearHandlers(c) ==
    [DropCalls(c, {"written", "ready", "closed"}) EXCEPT !.onBytesWritten = 0, !.onSource = 0]

\* disconnected() of the connector and of the manager: buffers, content and the
\* ConnectionState are removed.
Disconnected(c) ==
    [NewConnection EXCEPT !.device = "gone", !.calls = ClearHandlers(c).calls,
                          !.parsed = c.parsed, !.sent = c.sent, !.final = c.final,
                          !.wire = c.wire, !.pipelined = c.pipelined,
                          !.garbled = c.garbled, !.dropped = c.dropped]

\* disconnectFromHost() waits for what is to be written.
CloseConnection(c) ==
    LET d == [c EXCEPT !.finished = TRUE, !.device = "closing"]
    IN  IF d.toWrite THEN d ELSE Disconnected(d)

\* Faulty: the buffer is not looked at.
EndsOnly(c, r) ==
    LET d == Write([c EXCEPT !.finished = TRUE], "last", r)
    IN  IF c.finished THEN c
        ELSE IF d.keepAlive
        THEN [DropCalls(d, {"written"}) EXCEPT !.onBytesWritten = 0]
        ELSE CloseConnection(d)

\* sendEmptyChunk(): the next request may be waiting in the buffer.
SendEmptyChunk(c, r) ==
    LET d == Write([c EXCEPT !.finished = TRUE], "last", r)
    IN  IF c.finished THEN c
        ELSE IF d.keepAlive
        THEN IncomingData([DropCalls(d, {"written"}) EXCEPT !.onBytesWritten = 0], <<>>)
        ELSE CloseConnection(d)

ForgetsClosing(c, s) == s.avail = 0 /\ ~c.streaming \* faulty

\* Nothing more is to come, s being the source after the read.
Exhausted(c, s) == s.avail = 0 /\ (~c.streaming \/ c.sourceClosed)

ReadFrom(s) == [s EXCEPT !.avail = @ - 1]

\* sendNextChunk() and sendNextBlock() of page r, whose source is s.
SendNext(c, r, s) ==
    IF c.finished THEN c
    ELSE IF s.avail = 0 THEN [c EXCEPT !.readyRead = FALSE]
    ELSE LET d == [Write(c, "data", r) EXCEPT !.readyRead = FALSE]
         IN  IF ~Exhausted(c, ReadFrom(s)) THEN d
             ELSE IF c.chunked THEN SendEmptyChunk(d, r)
             ELSE ClearHandlers(CloseConnection(d))

\* What they leave of the source.
SourceAfter(c, s) == IF c.finished \/ s.avail = 0 THEN s ELSE ReadFrom(s)

SendsAtOnce(c, s) == s.avail > 0 /\ (~c.toWrite \/ ~c.readyRead)

\* sourceClosed()
SourceClosed(c, r, s) ==
    LET d == [c EXCEPT !.sourceClosed = TRUE]
    IN  IF c.finished THEN c
        ELSE IF s.avail > 0 THEN d
        ELSE IF c.chunked THEN SendEmptyChunk(d, r)
        ELSE CloseConnection(d)

-----------------------------------------------------------------------------
(* The event loop.                                                         *)

\* The connection's readyRead(), for the first n things on their way.
ReadyRead(n) ==
    /\ conn.device \in {"open", "closing"}
    /\ conn' = IncomingData(conn, SubSeq(net, 1, n))
    /\ net' = SubSeq(net, n + 1, Len(net))
    /\ UNCHANGED <<source, pages>>

\* bytesWritten(), once for all that was written: a partial one would only run
\* sendNext...() earlier, which does not ask what is still to be written.  A
\* connection that is closing is closed now.
BytesWritten ==
    /\ conn.toWrite
    /\ conn' = IF conn.device = "closing" THEN Disconnected(conn)
               ELSE [conn EXCEPT !.toWrite = FALSE,
                                 !.calls = IF conn.onBytesWritten = 0 THEN @
                                           ELSE Append(@, [op |-> "written", rid |-> conn.onBytesWritten])]
    /\ UNCHANGED <<source, pages, net>>

\* A queued call.  chunkReadyRead() and blockReadyRead() set readyRead first.
RunCall ==
    /\ conn.calls # <<>>
    /\ LET call == Head(conn.calls)
           c == [conn EXCEPT !.calls = Tail(@)]
           r == call.rid
       IN  CASE call.op = "incoming" ->
                  conn' = IncomingData(c, <<>>) /\ UNCHANGED source
             [] call.op = "written" ->
                  /\ conn' = SendNext(c, r, source[r])
                  /\ source' = [source EXCEPT ![r] = SourceAfter(c, @)]
             [] call.op = "ready" ->
                  IF SendsAtOnce(c, source[r])
                  THEN /\ conn' = SendNext([c EXCEPT !.readyRead = TRUE], r, source[r])
                       /\ source' = [source EXCEPT ![r] = SourceAfter(c, @)]
                  ELSE conn' = c /\ UNCHANGED source
             [] call.op = "closed" ->
                  conn' = SourceClosed(c, r, source[r]) /\ UNCHANGED source
    /\ UNCHANGED <<pages, net>>

\* The part of processEvents() that starts a response.  The request event goes
\* with its content.  Without a connection the page is dropped.
ProcessPage ==
    /\ pages # <<>>
    /\ LET r == Head(pages)
           s == source[r]
           answered == IF conn.content = r THEN DeleteContent(conn) ELSE conn
           c == [answered EXCEPT !.finished = FALSE, !.sourceClosed = FALSE,
                                 !.chunked = s.chunked /\ ~conn.old,
                                 !.readyRead = s.avail > 0,
                                 !.streaming = s.kind # "buffer"]
           d == Write([ClearHandlers(c) EXCEPT !.keepAlive = @ /\ c.chunked,
                                               !.onBytesWritten = r, !.onSource = r],
                      "header", r)
       IN  /\ pages' = Tail(pages)
           /\ IF conn.device = "gone"
              THEN conn' = answered /\ UNCHANGED source
              ELSE IF s.avail = 0 /\ ~c.streaming
              THEN conn' = CloseConnection(Write(c, "header", r)) /\ UNCHANGED source
              ELSE IF s.avail = 0
              THEN conn' = d /\ UNCHANGED source
              ELSE conn' = SendNext(d, r, s) /\ source' = [source EXCEPT ![r] = SourceAfter(d, s)]
    /\ UNCHANGED net

-----------------------------------------------------------------------------
(* The services and their sources.                                         *)

Started(r) == \E i \in DOMAIN conn.wire : conn.wire[i] = [tok |-> "header", rid |-> r]

\* A service answers a request.  (What becomes of a page whose connection is gone
\* already is in HttpSessions; the sources are deleted with the connection.)
PostPage(r, kind, chunked, avail, left) ==
    /\ conn.device # "gone" /\ r <= conn.parsed /\ source[r] = NoSource
    /\ kind = "buffer" => left = 0
    /\ kind = "cgi" => chunked
    /\ source' = [source EXCEPT ![r] = [kind |-> kind, chunked |-> chunked, avail |-> avail,
                                        left |-> left, ended |-> FALSE, early |-> FALSE,
                                        lost |-> FALSE]]
    /\ pages' = Append(pages, r)
    /\ UNCHANGED <<conn, net>>

\* The source emits a signal.
Emit(r, ops) ==
    conn' = IF conn.onSource = r
            THEN [conn EXCEPT !.calls = @ \o [i \in DOMAIN ops |-> [op |-> ops[i], rid |-> r]]]
            ELSE conn

Produce(r) ==
    /\ conn.device # "gone" /\ source[r].left > 0
    /\ source' = [source EXCEPT ![r].left = @ - 1, ![r].avail = @ + 1]
    /\ Emit(r, <<"ready">>)
    /\ UNCHANGED <<pages, net>>

\* A streaming source ends: a process with finished(), which may come before its
\* data was read, another device with aboutToClose(), which must not.  On
\* finished() QxtWebCgiService closes its process, which discards what was not
\* read, and both signals are emitted.
EndSource(r) ==
    /\ conn.device # "gone"
    /\ source[r].kind \in {"stream", "cgi"}
    /\ source[r].left = 0 /\ ~source[r].ended
    /\ source' = [source EXCEPT ![r].ended = TRUE,
                                ![r].early = ~Started(r),
                                ![r].lost = source[r].kind = "cgi" /\ source[r].avail > 0,
                                ![r].avail = IF source[r].kind = "cgi" THEN 0 ELSE @]
    /\ Emit(r, IF source[r].kind = "cgi" THEN <<"closed", "closed">> ELSE <<"closed">>)
    /\ UNCHANGED <<pages, net>>

\* ignoreRemainingContent(): nothing is needed any more.
IgnoreRemainingContent ==
    /\ conn.content # 0 /\ conn.needs # 0
    /\ conn' = [conn EXCEPT !.needs = 0, !.dropped = @ \/ conn.needs = 1]
    /\ UNCHANGED <<source, pages, net>>

\* The service that got the request is destroyed, with its session for example:
\* it is the parent of the content.
DestroyService ==
    /\ conn.content # 0
    /\ conn' = DeleteContent(conn)
    /\ UNCHANGED <<source, pages, net>>

-----------------------------------------------------------------------------
(* The browser.                                                            *)

\* Everything that was sent has been answered in full.
Answered == conn.sent = 0 \/ (conn.wire # <<>> /\ Last(conn.wire) = [tok |-> "last", rid |-> conn.sent])

SendRequest(head) ==
    /\ conn.device = "open" /\ conn.sent < MaxRequests
    /\ ~conn.final
    /\ net' = net \o (IF head = "post" THEN <<head, "body">> ELSE <<head>>)
    /\ conn' = [conn EXCEPT !.sent = @ + 1, !.final = head \in {"close", "old"},
                            !.pipelined = @ \/ ~Answered]
    /\ UNCHANGED <<source, pages>>

\* disconnected(): buffers, content, state, handlers and sources go; the pages
\* that are queued find no connection.
Abort ==
    /\ conn.device \in {"open", "closing"}
    /\ conn' = [NewConnection EXCEPT !.device = "gone", !.aborted = TRUE]
    /\ source' = [r \in Rids |-> NoSource]
    /\ pages' = <<>> /\ net' = <<>>

-----------------------------------------------------------------------------
EventLoop ==
    \/ \E n \in 1 .. Len(net) : ReadyRead(n)
    \/ BytesWritten
    \/ RunCall
    \/ ProcessPage

Services ==
    \/ IgnoreRemainingContent
    \/ DestroyService
    \/ \E r \in Rids :
          \/ \E kind \in SourceKinds, chunked \in BOOLEAN, avail, left \in 0 .. MaxUnits :
                avail + left <= MaxUnits /\ PostPage(r, kind, chunked, avail, left)
          \/ Produce(r)
          \/ EndSource(r)

Browser == Abort \/ \E head \in Heads : SendRequest(head)

Next == EventLoop \/ Services \/ Browser

Spec == Init /\ [][Next]_vars

-----------------------------------------------------------------------------
Tokens == [tok : {"header", "data", "last"}, rid : Rids]
Calls == [op : {"written", "ready", "closed"}, rid : Rids] \cup [op : {"incoming"}, rid : {0}]

TypeOK ==
    /\ conn.device \in {"open", "closing", "gone"}
    /\ conn.buffer \in Seq(Heads \cup {"body"})
    /\ conn.content \in 0 .. conn.parsed
    /\ conn.needs \in {0, 1, All}
    /\ conn.parsed \in 0 .. conn.sent
    /\ {conn.onBytesWritten, conn.onSource} \subseteq 0 .. conn.parsed
    /\ conn.calls \in Seq(Calls)
    /\ conn.wire \in Seq(Tokens)
    /\ \A r \in Rids : source[r] # NoSource => source[r].avail + source[r].left <= MaxUnits

Overtaken(r) ==
    \E i, j \in DOMAIN conn.wire : i < j /\ conn.wire[i].rid = r /\ conn.wire[j].rid # r

\* Every byte of the source went out.
SentInFull(r) == source[r].avail = 0 /\ source[r].left = 0 /\ ~source[r].lost

\* The responses never mix on the wire, whatever the browser and the services
\* do: each is a header and its data, what ends a chunked one comes after all
\* of its data, and once another header follows not a byte of it is written.
\* Without pipelining the server does not close the connection in the middle of
\* a response.  Excepted is the output of a CGI process, of which finished() may
\* have discarded the end.
WireIsWellFormed ==
    LET w == conn.wire IN
    /\ \A i \in DOMAIN w :
          /\ w[i].tok = "header" <=> i = 1 \/ w[i].rid # w[i - 1].rid
          /\ w[i].tok = "header" => \A j \in 1 .. i - 1 : w[j].rid # w[i].rid
          /\ w[i].tok = "last" =>
                /\ SentInFull(w[i].rid) \/ source[w[i].rid].kind = "cgi"
                /\ i < Len(w) => w[i + 1].tok = "header"
    /\ conn.device # "open" /\ ~conn.aborted /\ ~conn.pipelined /\ w # <<>> =>
          SentInFull(Last(w).rid) \/ source[Last(w).rid].kind = "cgi"

\* However the bytes are cut, a body is not taken for a request as long as no
\* content of the connection was given up before its body had arrived.  There are
\* three ways to give one up, and each lets the rest of the body be read as a
\* request: the request is answered (the content is deleted with its event), its
\* service is destroyed (the content is its child), or its service calls
\* ignoreRemainingContent().
BodyIsNoRequest == conn.garbled => conn.dropped

\* QxtWebContent insulates the requests of a connection from each other: a body
\* is never taken for a request.
RequestsAreInsulated == ~conn.garbled

Over(r) ==
    \/ conn.device = "gone"
    \/ Overtaken(r)
    \/ source[r].early
    \/ \E i \in DOMAIN conn.wire : conn.wire[i] = [tok |-> "last", rid |-> r]

\* No handler is to run, the network has taken everything and brought
\* everything, every request read was answered and every source has ended.
Quiet ==
    /\ conn.calls = <<>> /\ ~conn.toWrite
    /\ pages = <<>> /\ net = <<>>
    /\ \A r \in Rids :
          /\ r <= conn.parsed => source[r] # NoSource
          /\ source[r].left = 0
          /\ source[r].kind \in {"stream", "cgi"} => source[r].ended

\* No response hangs: once nothing moves any more, each one that was begun has
\* ended, by its last chunk or with the connection.  Excepted are those that a
\* later one overtook, and those whose source ended before the page was processed.
NoResponseHangs == Quiet => \A r \in Rids : Started(r) => Over(r)

\* No request waits in the buffer for ever: once nothing moves any more, each one
\* that was sent has been read, or the connection is closed or hangs.
NoRequestIsForgotten ==
    Quiet => \/ conn.device = "gone"
             \/ conn.parsed = conn.sent
             \/ \E r \in Rids : source[r].early
=============================================================================
