----------------------------- MODULE RpcService -----------------------------
(***************************************************************************)
(* QxtRPCService: one service that accepts connections through a           *)
(* connection manager, and services that act as its clients.               *)
(*                                                                         *)
(* A call is written as a length and a body.  Bytes arrive in pieces, are  *)
(* collected in a buffer per connection, and every whole call is given to  *)
(* the attached slots, which are called directly and may do anything: call *)
(* back, disconnect clients, destroy receivers, or run an event loop that  *)
(* handles further events before the slot returns.                         *)
(***************************************************************************)
EXTENDS Naturals, Sequences

CONSTANTS
    MaxConns,   \* bound: connections made
    Clients,    \* services that act as clients
    Objects,    \* receivers that may be attached at the server
    Fallbacks,  \* those that may be set as the fallback
    Kinds,      \* what a client's message decodes to: "call", "noop" or, corrupt, "bad"
    MaxUp,      \* bound: messages of the clients
    MaxDown,    \* bound: calls of the server
    MaxDepth    \* bound: invocations of clientData() inside one another

Conns == 1 .. MaxConns
None == "none"   \* fallbackSlot without a receiver

ASSUME RpcServiceAssumption ==
    /\ MaxConns \in Nat /\ MaxUp \in Nat /\ MaxDown \in Nat /\ MaxDepth \in Nat
    /\ Kinds \subseteq {"call", "noop", "bad"}
    /\ Fallbacks \subseteq Objects /\ None \notin Objects

VARIABLES
    \* the server
    clients,        \* the table of the connection manager
    handlers,       \* clientsDataArgument: connections with a bound clientData()
    buffers,        \* the input buffer of each connection that has one
    slots,          \* connectedSlots of the one function called
    fallback,       \* fallbackSlot
    destroyed,      \* receivers that were deleted
    frames,         \* invocations of clientData(): [conn, signalled, todo, inside]
    up,             \* FALSE once it used a deleted object
    \* the connections
    link,           \* the client's end: "new", "open" or "closed"
    unread,         \* what the server's device has received and nobody read
    toServer, toClient,   \* bytes in flight
    sentUp, sentDown,     \* messages sent so far by all clients and by the server
    \* the clients
    device,         \* the connection a client was given by setDevice(), or 0
    serverBuffer,   \* its input buffer
    reading,        \* clients inside serverData()
    \* history
    signals,        \* what the server announced of each connection
    rejected,       \* connections ended by a slot of clientConnected()
    taken, heard,   \* how many calls the server took, and the clients
    misframed,      \* connections whose client began with a stale serverBuffer
    overlooked,     \* connections with bytes that no readyRead() announced
    cutOff,         \* connections that a slot disconnected while they were being read
    overrun,        \* connections that ended while a slot called for them waited for events
    orphaned        \* receivers that a slot deleted while they were still to be called

causeVars == <<cutOff, overrun, orphaned>>
dispatchVars == <<slots, fallback, destroyed, frames, up, taken, causeVars>>
tableVars == <<clients, handlers, buffers, signals, rejected>>
streamVars == <<unread, overlooked, toServer, sentUp>>
replyVars == <<toClient, sentDown>>
clientVars == <<link, device, serverBuffer, reading, heard, misframed>>
vars == <<dispatchVars, tableVars, streamVars, replyVars, clientVars>>

Init ==
    /\ clients = {} /\ handlers = {} /\ buffers = [k \in {} |-> <<>>]
    /\ slots = <<>> /\ fallback = None /\ destroyed = {}
    /\ frames = <<>> /\ up = TRUE
    /\ link = [k \in Conns |-> "new"]
    /\ unread = [k \in Conns |-> <<>>]
    /\ toServer = [k \in Conns |-> <<>>] /\ toClient = [k \in Conns |-> <<>>]
    /\ sentUp = 0 /\ sentDown = 0
    /\ device = [c \in Clients |-> 0]
    /\ serverBuffer = [c \in Clients |-> <<>>]
    /\ reading = {}
    /\ signals = [k \in Conns |-> <<>>]
    /\ rejected = {} /\ misframed = {} /\ overlooked = {}
    /\ cutOff = {} /\ overrun = {} /\ orphaned = {}
    /\ taken = 0 /\ heard = 0

-----------------------------------------------------------------------------
(* The serializer.                                                         *)

Message(n) == <<[n |-> n, part |-> "length"], [n |-> n, part |-> "body"]>>

CanDeserialize(buf) == Len(buf) >= 2
Rest(buf) == SubSeq(buf, 3, Len(buf))

\* A buffer that begins in the middle of a message yields anything.
Deserialized(buf, kinds) == IF buf[1].part = "length" THEN kinds ELSE {"call", "noop", "bad"}

Prefixes(s) == {SubSeq(s, 1, n) : n \in 0 .. Len(s)}
Without(s, prefix) == SubSeq(s, Len(prefix) + 1, Len(s))

-----------------------------------------------------------------------------
(* The connection manager and the server's table.                          *)

HasLeft(k) == signals[k] # <<>> /\ k \notin clients

FramesOf(k) == {i \in DOMAIN frames : frames[i].conn = k}
\* clientData(k) was called and has not returned.
InUse(k) == FramesOf(k) # {}
\* ... a slot it called runs an event loop.
Interrupted(k) == \E i \in FramesOf(k) : frames[i].inside
\* ... it was called by the signal, which is being emitted as long.
Emitting(k) == \E i \in FramesOf(k) : frames[i].signalled

\* Faulty: the buffer stays.
DisconnectOnly(k) ==
    /\ clients' = clients \ {k} /\ handlers' = handlers \ {k}
    /\ signals' = [signals EXCEPT ![k] = Append(@, "disconnected")]
    /\ unread' = [unread EXCEPT ![k] = <<>>] /\ toServer' = [toServer EXCEPT ![k] = <<>>]
    /\ overlooked' = overlooked \ {k}
    /\ UNCHANGED <<buffers, rejected, sentUp>>

\* manager->disconnect(): disconnected() runs clientDisconnected(), then
\* removeConnection() closes and deletes the device.
Disconnect(k) ==
    /\ clients' = clients \ {k}
    /\ handlers' = handlers \ {k}
    /\ buffers' = [j \in DOMAIN buffers \ {k} |-> buffers[j]]
    /\ signals' = [signals EXCEPT ![k] = Append(@, "disconnected")]
    /\ unread' = [unread EXCEPT ![k] = <<>>] /\ overlooked' = overlooked \ {k}
    /\ toServer' = [toServer EXCEPT ![k] = <<>>]
    /\ UNCHANGED <<rejected, sentUp>>

Keep == UNCHANGED <<tableVars, streamVars>>

DisconnectClient(k) == IF k \in clients THEN Disconnect(k) ELSE Keep

\* The loop of events runs: no slot is executing, or it waits for events itself.
Waiting == frames # <<>> => frames[Len(frames)].inside
MayRead == up /\ Waiting /\ Len(frames) < MaxDepth

NewFrame(k, signalled) == [conn |-> k, signalled |-> signalled, todo |-> <<>>, inside |-> FALSE]

\* Faulty: the incomplete call that is left in the buffer is overwritten.
ReadOver(k, bytes, table, signalled) ==
    /\ buffers' = [table EXCEPT ![k] = bytes]
    /\ frames' = Append(frames, NewFrame(k, signalled))

\* readAll(), once, then the loop of clientData() begins.
ClientData(k, bytes, table, signalled) ==
    /\ buffers' = [table EXCEPT ![k] = @ \o bytes]
    /\ frames' = Append(frames, NewFrame(k, signalled))

\* Faulty: what the device has received already waits for the next readyRead().
ReadLater(k, bytes, table) ==
    /\ unread' = [unread EXCEPT ![k] = bytes]
    /\ buffers' = table /\ UNCHANGED frames

ReadUpFront(k, bytes, table) ==
    /\ UNCHANGED unread
    /\ IF bytes # <<>> THEN ClientData(k, bytes, table, FALSE) ELSE buffers' = table /\ UNCHANGED frames

NewTable(k) == [j \in DOMAIN buffers \cup {k} |-> IF j = k THEN <<>> ELSE buffers[j]]

\* The server's queue gives connections in the order in which they were made.
NextPending(k) ==
    /\ link[k] # "new" /\ signals[k] = <<>>
    /\ \A j \in 1 .. k - 1 : signals[j] # <<>>

\* addConnection() and clientConnected(), when its slots keep the client.
Accept(k) ==
    /\ MayRead /\ NextPending(k)
    /\ clients' = clients \cup {k} /\ handlers' = handlers \cup {k}
    /\ signals' = [signals EXCEPT ![k] = Append(@, "connected")]
    /\ \E received \in Prefixes(toServer[k]) :
          /\ ReadUpFront(k, received, NewTable(k))
          /\ toServer' = [toServer EXCEPT ![k] = Without(@, received)]
    /\ UNCHANGED <<slots, fallback, destroyed, up, taken, causeVars>>
    /\ UNCHANGED <<rejected, overlooked, sentUp, replyVars, clientVars>>

\* ... and when one of them calls disconnectClient(): the handler is gone, but
\* clientConnected() goes on and makes the buffer.
Reject(k) ==
    /\ MayRead /\ NextPending(k)
    /\ signals' = [signals EXCEPT ![k] = <<"connected", "disconnected">>]
    /\ buffers' = NewTable(k)
    /\ rejected' = rejected \cup {k}
    /\ toServer' = [toServer EXCEPT ![k] = <<>>]
    /\ UNCHANGED <<dispatchVars, clients, handlers, unread, overlooked, sentUp, replyVars, clientVars>>

\* readyRead(): what was overlooked before is read as well.
ReadyRead(k) ==
    /\ MayRead
    /\ k \in handlers /\ ~Emitting(k)
    /\ \E received \in Prefixes(toServer[k]) \ {<<>>} :
          /\ ClientData(k, unread[k] \o received, buffers, TRUE)
          /\ toServer' = [toServer EXCEPT ![k] = Without(@, received)]
    /\ unread' = [unread EXCEPT ![k] = <<>>] /\ overlooked' = overlooked \ {k}
    /\ UNCHANGED <<slots, fallback, destroyed, up, taken, causeVars>>
    /\ UNCHANGED <<clients, handlers, signals, rejected, sentUp, replyVars, clientVars>>

\* The device receives more while a slot waits for events inside clientData().
\* Qt does not emit readyRead() inside readyRead(), and readAll() is over.
ReceiveInside(k) ==
    /\ up /\ Waiting
    /\ k \in handlers /\ Emitting(k)
    /\ \E received \in Prefixes(toServer[k]) \ {<<>>} :
          /\ unread' = [unread EXCEPT ![k] = @ \o received]
          /\ toServer' = [toServer EXCEPT ![k] = Without(@, received)]
    /\ overlooked' = overlooked \cup {k}
    /\ UNCHANGED <<dispatchVars, tableVars, sentUp, replyVars, clientVars>>

\* socketDisconnected(): the network failed or the client closed.  It may come
\* while a slot waits inside clientData() for the same connection, but not while
\* clientConnected() reads up front: the socket is connected to it afterwards.
ServerNoticesEnd(k) ==
    /\ up /\ Waiting
    /\ k \in clients /\ \A i \in FramesOf(k) : frames[i].signalled
    /\ DisconnectClient(k)
    /\ overrun' = IF Interrupted(k) THEN overrun \cup {k} ELSE overrun
    /\ UNCHANGED <<slots, fallback, destroyed, frames, up, taken, cutOff, orphaned, replyVars, clientVars>>

-----------------------------------------------------------------------------
(* The loop of clientData() and dispatchFromClient().                      *)

Top == frames[Len(frames)]
Executing == up /\ frames # <<>> /\ ~Top.inside
Below == SubSeq(frames, 1, Len(frames) - 1)
Replace(frame) == [frames EXCEPT ![Len(frames)] = frame]

Receivers == IF slots # <<>> THEN slots ELSE IF fallback # None THEN <<fallback>> ELSE <<>>

Crash == up' = FALSE /\ UNCHANGED <<slots, fallback, destroyed, frames, taken, causeVars, tableVars, streamVars>>

\* buffers[id] was erased while a slot ran: "buf" refers to nothing.
BufferIsGone ==
    /\ Executing /\ Top.todo = <<>>
    /\ Top.conn \notin DOMAIN buffers
    /\ Crash
    /\ UNCHANGED <<replyVars, clientVars>>

NoneIsWhole ==
    /\ Executing /\ Top.todo = <<>>
    /\ Top.conn \in DOMAIN buffers
    /\ ~CanDeserialize(buffers[Top.conn])
    /\ frames' = Below
    /\ UNCHANGED <<slots, fallback, destroyed, up, taken, causeVars, tableVars, streamVars, replyVars, clientVars>>

\* Faulty: after a protocol error the loop goes on.
ErrorContinues ==
    /\ DisconnectClient(Top.conn)
    /\ UNCHANGED <<frames, overrun, taken>>

\* An invocation of clientData() for the same client further out, which waits in
\* a slot, keeps its reference.
ProtocolError ==
    /\ DisconnectClient(Top.conn)
    /\ frames' = Below
    /\ overrun' = IF Interrupted(Top.conn) THEN overrun \cup {Top.conn} ELSE overrun
    /\ UNCHANGED taken

DispatchMessage ==
    /\ Executing /\ Top.todo = <<>>
    /\ Top.conn \in DOMAIN buffers
    /\ CanDeserialize(buffers[Top.conn])
    /\ \E kind \in Deserialized(buffers[Top.conn], Kinds) :
          IF kind = "bad" THEN ProtocolError
          ELSE /\ taken' = taken + 1
               /\ buffers' = [buffers EXCEPT ![Top.conn] = Rest(@)]
               /\ frames' = Replace([Top EXCEPT !.todo = IF kind = "call" THEN Receivers ELSE <<>>])
               /\ UNCHANGED <<clients, handlers, signals, rejected, streamVars, overrun>>
    /\ UNCHANGED <<slots, fallback, destroyed, up, cutOff, orphaned, replyVars, clientVars>>

\* invokeMethod() on an object deleted since the list of slots was copied.
ReceiverIsGone ==
    /\ Executing /\ Top.todo # <<>>
    /\ Head(Top.todo) \in destroyed
    /\ Crash
    /\ UNCHANGED <<replyVars, clientVars>>

Calling == Executing /\ Top.todo # <<>> /\ Head(Top.todo) \notin destroyed
Called == [Top EXCEPT !.todo = Tail(@)]

\* call(ids, ...): written to every client of the list that is still connected.
CallTo(ids) ==
    /\ sentDown < MaxDown
    /\ sentDown' = sentDown + 1
    /\ toClient' = [k \in Conns |->
          IF k \in ids \cap clients /\ link[k] = "open"
          THEN toClient[k] \o Message(sentDown') ELSE toClient[k]]

CallExcept(k) == CallTo(clients \ {k})

SlotReturns ==
    /\ Calling
    /\ frames' = Replace(Called)
    /\ \/ UNCHANGED replyVars
       \/ CallTo({Top.conn})
       \/ CallExcept(Top.conn)
    /\ UNCHANGED <<slots, fallback, destroyed, up, taken, causeVars, tableVars, streamVars, clientVars>>

\* Any client the slot has heard of.
SlotDisconnects(k) ==
    /\ Calling
    /\ signals[k] # <<>>
    /\ DisconnectClient(k)
    /\ frames' = Replace(Called)
    /\ cutOff' = IF InUse(k) THEN cutOff \cup {k} ELSE cutOff
    /\ UNCHANGED <<slots, fallback, destroyed, up, taken, overrun, orphaned, replyVars, clientVars>>

\* slots.removeAll()
Others(o) ==
    IF \E i \in DOMAIN slots : slots[i] = o
    THEN LET i == CHOOSE j \in DOMAIN slots : slots[j] = o
         IN  SubSeq(slots, 1, i - 1) \o SubSeq(slots, i + 1, Len(slots))
    ELSE slots

DetachSlots(o) ==
    /\ slots' = Others(o)
    /\ fallback' = IF fallback = o THEN None ELSE fallback

ToCall(frame, o) == \E j \in DOMAIN frame.todo : frame.todo[j] = o

\* The slot calls detachObject(), or deletes a receiver whose destroyed() is
\* connected to detachSender().  What is to be called stays to be called.
SlotDetaches(o) ==
    /\ Calling
    /\ o \notin destroyed
    /\ DetachSlots(o)
    /\ destroyed' \in {destroyed, destroyed \cup {o}}
    /\ frames' = Replace(Called)
    /\ orphaned' = orphaned \cup {p \in destroyed' \ destroyed : \E i \in DOMAIN frames' : ToCall(frames'[i], p)}
    /\ UNCHANGED <<up, taken, cutOff, overrun, tableVars, streamVars, replyVars, clientVars>>

\* The slot runs an event loop of its own.
SlotWaits ==
    /\ Calling
    /\ Len(frames) < MaxDepth
    /\ frames' = Replace([Called EXCEPT !.inside = TRUE])
    /\ UNCHANGED <<slots, fallback, destroyed, up, taken, causeVars, tableVars, streamVars, replyVars, clientVars>>

SlotResumes ==
    /\ up /\ frames # <<>> /\ Top.inside
    /\ frames' = Replace([Top EXCEPT !.inside = FALSE])
    /\ UNCHANGED <<slots, fallback, destroyed, up, taken, causeVars, tableVars, streamVars, replyVars, clientVars>>

Loop ==
    \/ BufferIsGone \/ NoneIsWhole \/ DispatchMessage \/ ReceiverIsGone
    \/ SlotReturns \/ SlotWaits \/ SlotResumes
    \/ \E k \in Conns : SlotDisconnects(k)
    \/ \E o \in Objects : SlotDetaches(o)

-----------------------------------------------------------------------------
(* The application at the server.                                          *)

\* attachSlot() with Qt::UniqueConnection: no receiver is listed twice.
AttachSlot(o) ==
    /\ up /\ Waiting
    /\ o \notin destroyed /\ \A i \in DOMAIN slots : slots[i] # o
    /\ slots' = Append(slots, o)
    /\ UNCHANGED <<fallback, destroyed, frames, up, taken, causeVars, tableVars, streamVars, replyVars, clientVars>>

SetFallbackSlot(o) ==
    /\ up /\ Waiting
    /\ o \in Fallbacks \ destroyed /\ fallback # o
    /\ fallback' = o
    /\ UNCHANGED <<slots, destroyed, frames, up, taken, causeVars, tableVars, streamVars, replyVars, clientVars>>

\* An attached signal is emitted: call(), to all clients.
EmitSignal ==
    /\ up /\ Waiting
    /\ CallTo(clients)
    /\ UNCHANGED <<dispatchVars, tableVars, streamVars, clientVars>>

-----------------------------------------------------------------------------
(* The clients.                                                            *)

Unused == {k \in Conns : link[k] = "open" /\ \A c \in Clients : device[c] # k}

\* The client's socket connects; nobody has been given it yet.  Connections are
\* numbered as they are made; bound: one at a time waits to be given to a client.
Connect(k) ==
    /\ link[k] = "new" /\ \A j \in 1 .. k - 1 : link[j] # "new"
    /\ Unused = {}
    /\ link' = [link EXCEPT ![k] = "open"]
    /\ UNCHANGED <<dispatchVars, tableVars, streamVars, replyVars, device, serverBuffer, reading, heard, misframed>>

Close(k) ==
    /\ link' = [link EXCEPT ![k] = "closed"]
    /\ toClient' = [toClient EXCEPT ![k] = <<>>]

ServerData(c, bytes) ==
    /\ serverBuffer' = [serverBuffer EXCEPT ![c] = @ \o bytes]
    /\ reading' = reading \cup {c}

\* disconnectServer(): by the application, by a slot, or because the socket
\* reports an error or the end of the connection.
DisconnectServer(c) ==
    /\ device' = [device EXCEPT ![c] = 0]
    /\ Close(device[c])

\* The old device is deleted; serverBuffer keeps what it left there.
SetDevice(c, k) ==
    /\ k \in Unused /\ c \notin reading
    /\ device' = [device EXCEPT ![c] = k]
    /\ misframed' = IF serverBuffer[c] = <<>> THEN misframed ELSE misframed \cup {k}
    /\ link' = [j \in Conns |-> IF j = device[c] THEN "closed" ELSE link[j]]
    /\ \E received \in Prefixes(toClient[k]) :
          /\ IF received # <<>> THEN ServerData(c, received) ELSE UNCHANGED <<serverBuffer, reading>>
          /\ toClient' = [j \in Conns |-> IF j = k THEN Without(toClient[k], received)
                                          ELSE IF j = device[c] THEN <<>> ELSE toClient[j]]
    /\ UNCHANGED <<dispatchVars, tableVars, streamVars, sentDown, heard>>

ClientCalls(c) ==
    LET k == device[c] IN
    /\ k # 0 /\ c \notin reading
    /\ sentUp < MaxUp
    /\ sentUp' = sentUp + 1
    /\ toServer' = IF HasLeft(k) THEN toServer
                   ELSE [toServer EXCEPT ![k] = @ \o Message(sentUp')]
    /\ UNCHANGED <<dispatchVars, tableVars, unread, overlooked, replyVars, clientVars>>

ClientReadyRead(c) ==
    LET k == device[c] IN
    /\ k # 0 /\ c \notin reading
    /\ \E received \in Prefixes(toClient[k]) \ {<<>>} :
          /\ ServerData(c, received)
          /\ toClient' = [toClient EXCEPT ![k] = Without(@, received)]
    /\ UNCHANGED <<dispatchVars, tableVars, streamVars, sentDown, link, device, heard, misframed>>

ClientDisconnects(c) ==
    /\ device[c] # 0 /\ c \notin reading
    /\ DisconnectServer(c)
    /\ UNCHANGED <<dispatchVars, tableVars, streamVars, sentDown, serverBuffer, reading, heard, misframed>>

\* One turn of the loop of serverData(), with dispatchFromServer(); it goes on
\* when a slot calls disconnectServer().
ClientDispatches(c) ==
    /\ c \in reading
    /\ IF ~CanDeserialize(serverBuffer[c])
       THEN reading' = reading \ {c} /\ UNCHANGED <<serverBuffer, link, device, toClient, heard>>
       ELSE /\ serverBuffer' = [serverBuffer EXCEPT ![c] = Rest(@)]
            /\ heard' = IF device[c] \in Conns \ misframed THEN heard + 1 ELSE heard
            /\ \E kind \in Deserialized(serverBuffer[c], {"call"}) :
                  /\ reading' = IF kind = "bad" THEN reading \ {c} ELSE reading
                  /\ \/ kind # "bad" /\ UNCHANGED <<link, device, toClient>>
                     \/ kind # "noop" /\ device[c] # 0 /\ DisconnectServer(c)
                     \/ kind = "bad" /\ device[c] = 0 /\ UNCHANGED <<link, device, toClient>>
    /\ UNCHANGED <<dispatchVars, tableVars, streamVars, sentDown, misframed>>

-----------------------------------------------------------------------------
EventLoop == Loop \/ \E k \in Conns : Accept(k) \/ Reject(k) \/ ReadyRead(k) \/ ReceiveInside(k)
ClientLoop == \E c \in Clients : ClientReadyRead(c) \/ ClientDispatches(c)

Next ==
    \/ EventLoop
    \/ \E k \in Conns : ServerNoticesEnd(k)
    \/ \E o \in Objects : AttachSlot(o) \/ SetFallbackSlot(o)
    \/ EmitSignal
    \/ \E k \in Conns : Connect(k) \/ \E c \in Clients : SetDevice(c, k)
    \/ \E c \in Clients : ClientCalls(c) \/ ClientDisconnects(c)
    \/ ClientLoop

\* Both event loops go on, a slot that waits gets its event in the end.
Spec == Init /\ [][Next]_vars /\ WF_vars(EventLoop) /\ WF_vars(ClientLoop)

-----------------------------------------------------------------------------
Parts == [n : 1 .. MaxUp + MaxDown, part : {"length", "body"}]

TypeOK ==
    /\ clients \subseteq Conns /\ handlers \subseteq Conns
    /\ DOMAIN buffers \subseteq Conns /\ \A k \in DOMAIN buffers : buffers[k] \in Seq(Parts)
    /\ slots \in Seq(Objects) /\ fallback \in Fallbacks \cup {None} /\ destroyed \subseteq Objects
    /\ frames \in Seq([conn : Conns, signalled : BOOLEAN, todo : Seq(Objects), inside : BOOLEAN])
    /\ up \in BOOLEAN
    /\ link \in [Conns -> {"new", "open", "closed"}]
    /\ unread \in [Conns -> Seq(Parts)]
    /\ toServer \in [Conns -> Seq(Parts)] /\ toClient \in [Conns -> Seq(Parts)]
    /\ sentUp \in 0 .. MaxUp /\ sentDown \in 0 .. MaxDown
    /\ device \in [Clients -> Conns \cup {0}]
    /\ serverBuffer \in [Clients -> Seq(Parts)]
    /\ reading \subseteq Clients
    /\ signals \in [Conns -> {<<>>, <<"connected">>, <<"connected", "disconnected">>}]
    /\ rejected \subseteq Conns /\ misframed \subseteq Conns
    /\ taken \in Nat /\ heard \in Nat
    /\ overlooked \subseteq Conns
    /\ cutOff \subseteq Conns /\ overrun \subseteq Conns /\ orphaned \subseteq Objects

\* The manager's table, the bound functions, the buffers and what was announced
\* agree: clientConnected() and clientDisconnected() come once each and in this
\* order for every connection, and whatever belongs to a client goes with it.
\* Only a client that a slot of clientConnected() disconnects leaves a buffer.
TablesAgree ==
    /\ handlers = clients
    /\ DOMAIN buffers = clients \cup rejected
    /\ \A k \in Conns : k \in clients <=> signals[k] = <<"connected">>

\* The server uses a deleted object only when something ended, inside an
\* invocation of clientData(), what that invocation still refers to: the buffer of
\* a connection that a slot disconnected in the middle of being read, or that
\* ended (the peer closed it, or an inner invocation found a protocol error) while
\* one of its slots ran an event loop; or a receiver that an earlier slot deleted.
\* As long as slots do none of the three, no peer can bring the server down.
CrashNeedsReentry ==
    ~up => IF Top.todo = <<>> THEN Top.conn \in cutOff \cup overrun
           ELSE Head(Top.todo) \in orphaned

Ending(frame) == frame.conn \notin DOMAIN buffers

\* ... which is so because every invocation of clientData() under way has its
\* buffer and every receiver still to be called exists, but for those.
ReferencesAreLive ==
    \A i \in DOMAIN frames :
       /\ Ending(frames[i]) => frames[i].conn \in cutOff \cup overrun
       /\ \A o \in destroyed : ToCall(frames[i], o) => o \in orphaned

\* The calls in a stream of bytes.
CallsIn(stream) ==
    LET calls[n \in 0 .. Len(stream)] ==
            IF n = 0 THEN <<>>
            ELSE IF stream[n].part = "length" THEN Append(calls[n - 1], stream[n].n)
            ELSE calls[n - 1]
    IN  calls[Len(stream)]

InBuffer(k) == IF k \in clients THEN buffers[k] ELSE <<>>
InServerBuffer(k) ==
    IF \E c \in Clients : device[c] = k
    THEN serverBuffer[CHOOSE c \in Clients : device[c] = k] ELSE <<>>

\* All of a connection that was sent and not taken, wherever it is.
UpStream(k) == InBuffer(k) \o unread[k] \o toServer[k]
DownStream(k) == InServerBuffer(k) \o toClient[k]

\* What CallChannels sees of it.  A client whose serverBuffer is stale hears
\* nothing of what is sent to it.
Stages == [k \in Conns |-> IF signals[k] = <<>> THEN "new" ELSE IF k \in clients THEN "member" ELSE "left"]
Deaf == misframed \cup {k \in Conns : link[k] = "closed"}
CallsUp == [k \in Conns |-> CallsIn(UpStream(k))]
CallsDown == [k \in Conns |-> IF k \in misframed THEN <<>> ELSE CallsIn(DownStream(k))]

\* Whatever happens in between, calls travel as CallChannels says: each is taken
\* once and in order, and goes to the clients it is meant for.
Channels == INSTANCE CallChannels WITH
    Numbers <- 1 .. MaxUp + MaxDown,
    stage <- Stages, ended <- Deaf, up <- CallsUp, down <- CallsDown

CallsTravelInOrder == Channels!Spec

\* Nothing is on its way, and what a device holds came while a slot was waiting.
NothingInFlight ==
    /\ \A k \in Conns : toServer[k] = <<>> /\ (unread[k] # <<>> => k \in overlooked)
    /\ \A c \in Clients : device[c] # 0 => toClient[device[c]] = <<>>

\* What a client sends reaches the server, and what the server sends reaches
\* the client, unless the connection or the server's process ends.  Excepted are
\* bytes that the device received while a slot ran an event loop inside readyRead()
\* of the same device: nothing announces them, and they wait for the next ones.
EveryCallArrives == []<>(NothingInFlight \/ ~up)
=============================================================================
