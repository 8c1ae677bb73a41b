# Verification of libqxt

TLA+ models of libqxt's stateful parts, TLC configurations that check them on small instances,
and TLAPS proofs of their most important invariants for every size.

libqxt extends Qt with utilities: threads and pipes (core), mail and SSH clients, RPC (network),
an HTTP server framework (web), SQL, zeroconf and widgets.  Most of it is layout, parsing or
formatting; what is worth a model is where state lives across events, threads or connections.
Paths below are relative to `src/src/`.

## 1. Inventory

| Component | State | Operations | Talks to | What is hard | What makes it correct |
|---|---|---|---|---|---|
| Session table, `web/qxtabstractwebsessionmanager.cpp` | session ID → service, free list, `maxId` | `createService`, `closeSession`, `sessionDestroyed` (queued), `getNextID` | services (`destroyed()`), subclasses | IDs are reused; deletion takes two trips through the event loop; one object may serve several sessions | an ID is free only if nobody uses it or can still free it |
| HTTP sessions and page events, `web/qxthttpsessionmanager.cpp` | session keys, event queue, pending requests, per-connection transfer state | `newSession`, `incomingRequest`, `postEvent`, `processEvents`, `disconnected`, `sendNextChunk` … | connector, services, event loop | cookies wait for a page of their session; pages of aborted requests; keys outlive sessions | keys unique; a page is processed; a request event outlives its page |
| HTTP connector and body transfer, `web/qxtabstracthttpconnector.cpp`, `sendNextChunk` … `closeConnection` of the session manager | request ID → device, input buffers, contents; per connection what is being sent | `incomingData`, `setRequest…`, `getRequestConnection`, `disconnected`; `sendNextChunk`, `sendNextBlock`, `sourceClosed`, `sendEmptyChunk` | sockets, data sources, session manager | several requests per connection; three signals drive a body, a later page replaces their handlers | no request maps to a dead device; the wire is well-formed; every response ends |
| Web services, `web/qxtabstractwebservice.cpp`, slot, CGI, JSON-RPC, directory | requests in work, child processes (CGI) | `pageRequestedEvent`, `postEvent` | session manager | one page per request | every request answered once |
| Byte queue, `core/qxtfifo.cpp` | linked list, atomic count | `writeData`, `readData`, `clear`, `readyRead` | two threads | no lock; reader frees nodes | bytes in order, once, no dead node |
| SMTP client, `network/qxtsmtp.cpp` | state, pending mails, recipient counters | `send`, `connectToHost`, `disconnectFromHost`, `socketRead` | server, event loop | a line is interpreted by the state alone; pipelining; reconnection | client and server in step; every mail gets its verdict |
| POP3 client and replies, `network/qxtpop3.cpp`, `qxtpop3reply.cpp` | state, queue, current reply, each reply's step and status | issue, `cancel`, `socketRead`, `encrypted`, `socketError`, `terminate` | server, event loop | callbacks inside callbacks; STLS; loss of the connection | a line goes to the reply it answers; none waits for ever |
| RPC service, `core/qxtrpcservice.cpp`, `network/qxttcpconnectionmanager.cpp`, `qxtrpcpeer.cpp` | clients, their buffers and bound handlers, attached slots | `call`, `attachSlot`, `clientConnected`, `clientData`, `clientDisconnected`, `setDevice`, `serverData` | connections, any slot | slots call back in the middle of a dispatch; references into tables; bytes read before anybody listens | the tables agree; calls travel in order, each once |
| SSH client, `network/qxtssh*.cpp` | connection state, authentication methods and credentials, channels | `connectToHost`, `d_readyRead`, `setPassphrase`, `openProcessChannel`, `requestPty` … | libssh2 (external), slots | every call may have to be repeated; slots change the client in the middle | secrets to known hosts only; a refused method is not tried again; channels after authentication |
| Signal groups, waiters, `core/qxtsignalgroup.cpp`, `qxtsignalwaiter.cpp` | received flags, two counts, waits on the stack | `addSignal`, `removeSignal`, `reset`, `clear`, `wait` | event loop, slots | slots inside `qt_metacall`, nested waits, indexes after `clear()` | "all received" means all |
| Jobs, `core/qxtjob.cpp`, `qxtslotjob.cpp` | `running`, `subseed()` connections, a future's waiter | `exec`, `join`, `result`, `delayedResult`, destructor | worker thread, event loop | join, destruction and waits against completion | join returns after the run; a destroyed job is not used |
| File locks, `core/qxtfilelock.cpp`, `core/unix/qxtfilelock_unix.cpp` | registry of each process, record locks in the kernel | `lock`, `unlock`, the file's `aboutToClose` | `fcntl` | the kernel knows processes, the registry threads | a writer is alone; nothing stays locked |
| Pipes, `core/qxtpipe.cpp`, `qxtdeplex.cpp`, `qxtstdio.cpp` | buffers, connections | `sendData`, `receiveData`, `connect` | other pipes | re-entrant pushes | data kept in order |
| SQL thread manager, transactions, `sql/` | connections per thread | `connection`, `begin`, `commit` | QtSql | copies of connections | one connection per thread |
| Logger, daemon, options, CSV, JSON, HMAC, locale data, linked tree, mail messages, XML-RPC, headers, templates | little or none | formatting, parsing, dispatch | | | pure functions: unit tests |
| Zeroconf, Berkeley DB, widgets, designer plugins | | | libraries, windows | | not protocol logic |

`PROJECT.json` lists every component with its status, and every hazard at the line where it
bites with the properties that would catch it.

How they interact.  The main thread's event loop carries all of `web/`: a browser's bytes arrive
at a connector, `incomingRequest()` finds or makes the session and calls its service, the service
posts events, each of which queues a `processEvents()` call; deferred deletes and `destroyed()`
notices travel in the same queue.  The mail clients are driven by `readyRead()` of their socket,
one line at a time, the SSH client by `readyRead()` and by timers it sets itself.  The RPC service, the
signal group and the SSH client call the application's slots in the middle of their own handlers;
what such a slot may do is part of their models.  `QxtFifo`, `QxtJob` and `QxtFileLock` have real
threads, `QxtFileLock` processes as well.

## 2. Modules

| Module | Models | State | Actions |
|---|---|---|---|
| `WebSessions` | `qxtabstractwebsessionmanager.cpp` | `sessions`, `freeList`, `maxID` are the members; `object` is the life of each service, `bound` its connections, `posted` the event loop's queue | `CreateService`, `CloseSession`, `ServiceDeletesItself`, `RunDeferredDelete`, `DeliverDestroyed` |
| `HttpSessions` extends it | `qxthttpsessionmanager.cpp`, the request table of the connector, the contract of a service | `sessionKeys`, `eventQueue`, `pendingRequests`, `requests`; `device`, `inbox`; `creator` and `sent` are history | `RequestWithKey`, `RequestCreatesSession`, `RequestWithoutSession` (the three paths of `incomingRequest()`), `Respond` (`postEvent()`), `ProcessEvents`, `SessionDestroyed`, `Disconnected`, `DeleteDevice`, `ApplicationNewSession` |
| `ByteQueue` | what `QxtFifo` promises | a sequence | `Put`, `Take`, `Drop` |
| `Fifo` | `qxtfifo.cpp` | nodes, who freed them, both ends, the atomic count, where each thread is | each access to shared memory: `BeginWrite`, `Link`, `SwingTail`, `Publish`, `Signal`; `BeginRead`, `CopyPart`, `CopyNode`, `EndRead`, `ReadyRead`; `Clear` |
| `Smtp` | `qxtsmtp.cpp`, and an RFC 5321 server (external) | the members of `QxtSmtpPrivate`, the socket, lines in flight both ways, the server's transaction | `Send`, `ConnectToHost`, `LoseConnection`; one `Read…` action per case of `socketRead()`; `Serve`, `Welcome`, `Shutdown`, `Hangup` |
| `Pop3` | `qxtpop3.cpp`, `qxtpop3reply.cpp`, and an RFC 1939/2595 server (external) | the members of `QxtPop3Private`, every reply, the socket and its encryption | `Issue`, `Cancel`, `ConnectToHost`, `LoseConnection`; `ReadGreeting`, `ReadLine`, `ReadStlsRefusal`, `Encrypted`, `HandshakeFails`; `Serve`, `Welcome`, `Hangup` |
| `HttpTransfer` | one connection of the connector, and the transfer of bodies | `conn`: the connector's buffer and content, `ConnectionState`, queued handler calls, the wire; the sources of the pages; the page queue | `RunCall` (`sendNextChunk`, `sendNextBlock`, `sendEmptyChunk`, `closeConnection`), `ProcessPage`, `PostPage`, `Produce`, `EndSource`, `BytesWritten`, `IgnoreRemainingContent`, `DestroyService`; `SendRequest`, `Abort` |
| `CallChannels` | what the RPC service promises | two queues of calls per connection | `Join`, `Leave`, `Call`, `Dispatch`, `Send`, `Hear` |
| `RpcService` | `qxtrpcservice.cpp`, the TCP connection manager, the data stream serializer | tables of manager and service, buffers, the stack of `clientData()` calls, bytes both ways; the same for client objects | `Accept`, `Reject`, `ReadyRead`, `ReceiveInside`, `ServerNoticesEnd`, `DispatchMessage`, `ProtocolError`, `SlotReturns` and the other things a slot does, `EmitSignal`, `SetDevice`, `ClientCalls`, `ClientDispatches` … |
| `SignalGroup` | `qxtsignalgroup.cpp`, `QxtMultiSignalWaiter` | flags, counts, connections, the stack of calls | `AddSignal`, `RemoveSignal`, `Reset`, `Clear`, `Emit`, `Deliver`, `Wait`, `WaitAlways`, `TimerEvent` |
| `SlotJobs` | `qxtjob.cpp`, `qxtslotjob.cpp`, `QxtSignalWaiter` | the flag, both event queues, where each thread is, the future's waiter | `Exec`, `Join`, `DelayedResult`, `Result`, `DestroyBegins`; one action per step of `inwrap_d()`; `DeliverDone`, `DeferredDelete` |
| `SshClient` | `qxtsshclient.cpp`, `qxtsshchannel.cpp`, `qxtsshprocess.cpp`, `qxtsshtcpsocket.cpp` | the private client with its session, one channel, the socket, timers | `DataArrives` and `TimerFires` (both `d_readyRead()`), `ConnectToHost`, `Configure`, `OpenChannel`, `AskChannel`, `ActivateChannel`, `DeleteChannel` |
| `FileLocks` | `qxtfilelock.cpp`, `unix/qxtfilelock_unix.cpp`, record locks (external) | state of each lock, registries, the kernel's locks per process and byte | `lock`, `registerLock`, `Acquire`, `Block`, `Withdraw`; `unlock`, `removeLock`; `Open`, `Close`, `Closed`, `Crash` |
| `MC*` | the above for TLC | | |
| `*Proofs` | theorems | | |

`HttpSessions` and `HttpTransfer` share `processEvents()`: the first has its queue, sessions and
cookies for all connections, the second what it does to one connection; what the second needs
of the first is that pages of a connection are processed in any order.  `RpcService` implements
`CallChannels`, as `Fifo` implements `ByteQueue`.

Definitions whose comment says "faulty" belong to no specification: each is a plausible mistake
in a definition of the model, used to show that some property would notice it.

Choices made in all modules:

- A handler that runs in one thread is one action, with everything it calls.  In `web/` that is
  the main thread; the locks against other threads are therefore not modelled (a hazard of
  `PROJECT.json` says where that leaves something open).
- Text, headers, bodies and credentials are left out.  A key, a mail or a command is an element
  of a small set; `createUuid()` never repeats.
- A call through a deleted object or a null service ends the process: `up` becomes FALSE in
  `HttpSessions`, and nothing happens after that.  Between the death of a service and the delivery
  of its notice the table holds a dangling pointer, so such ends are reachable.
- Memory is sequentially consistent in `Fifo`, although the code's loads are relaxed; `clear()`
  is called between reads and writes only, since it synchronises with nothing.
- `connectToHost()` is called while the connection is down, and a line is read whole.
- A server may refuse or disconnect whenever its RFC lets it; it answers commands in order.
- An SMTP server that pipelines refuses bodies only (`RefusableInPipeline`).  With a refused
  MAIL, RCPT or DATA the client loses step: a hazard of the list, not covered by a property.
- `QxtSmtpPrivate::disableStartTLS` and the SSH client's `d_currentAuthTry` are not initialised by
  their constructors: Init chooses them.
- Where slots may change the object whose handler runs, the calls under way are a stack of frames
  (`RpcService`, `SignalGroup`), or the handler takes the slot's reaction as an input (`SshClient`).
- A property that the code keeps only while its caller avoids something says so: a history
  variable names what happened (`disturbed`, `hasty`, `late`, `left`, `lost`, `greedy`, `dropped`,
  `overlooked`, `cutOff`, `overrun`, `orphaned`, …), and the property excepts it.  Each such exception is a hazard or a divergence listed below, and the runs reach it.
- Qt does not emit `readyRead()` of a device while it is being emitted.  A slot of the RPC service that
  runs an event loop inside `clientData()` therefore gets no signal for what the same device receives
  meanwhile (`ReceiveInside`); other devices go on.  In an event loop while `clientConnected()` reads up
  front the signal does come, but the end of the connection is not noticed: the manager connects to
  that only afterwards.  The slots of a client object run no event loop.
- A content that does not get its whole body ends in one of three ways: with its request's page,
  with its service (it is the service's child), or by `ignoreRemainingContent()`.  `sourceDisconnect()`
  is called when the connection goes, which leaves nothing to read (`Disconnected`).
- A libssh2 call that needs an answer of the server returns EAGAIN first; then the server's answer
  is any the call can have.
- Record locks are kept per process and byte; the kernel refuses a wait that would close a cycle
  of processes (EDEADLK), as Linux does.

## 3. Runs

The properties are stated, in words too, at the end of each specification.

| Run | Instance | What it shows |
|---|---|---|
| `http_sessions` | 2 services that may be shared, 2 keys, 2 connections, 2 session IDs, 2 requests; symmetric in keys, connections, services | The ID pool (`FreeIdsAreUnused`), late notices (`NoticeHitsOwnSession`), no overwritten entry (`EntryIsNeverReplaced`), one key per session (`OneKeyPerSession`), the key goes only to the browser whose request created the session (`KeyGoesToCreator`), request events live long enough (`RequestStaysValid`), pages have a call coming (`PagesAreScheduled`) |
| `http_aborted` | 1 service, 1 connection, no symmetry | violated: a request keeps its deleted device |
| `fifo` | sizes up to 2, 5 bytes, `INT_MAX` 7 | the list implements `ByteQueue` (`IsByteQueue`), no thread touches a deleted node (`ListIsLive`), nothing published stays unread (`EverythingIsRead`) |
| `smtp` | 2 mails with 0 to 2 recipients, 2 connections, STARTTLS, PIPELINING and AUTH LOGIN announced or not, credentials set; every command refusable, with PIPELINING bodies only | client and server in step (`ReplyMatchesState`, `BodyFitsEnvelope`), `pending.first()` exists (`FirstMailExists`), no mail lost or sent again (`NothingIsLost`), verdicts (`EveryMailIsReported`) |
| `smtp_sent` | 1 mail, refused MAIL or RCPT | violated: `mailSent()` for a mail the server never took |
| `pop3` | 2 commands of any kind and an authentication per connection, 2 connections, up to 1 line of data, every command refusable, queued replies cancelled | `LineIsForCurrent`, `NoneWaitsInVain`, `CompletedIsTrue`, `PasswordIsEncrypted`, `EveryReplyFinishes` |
| `rpc` | 2 connections, 1 client object, 2 receivers of which one may be the fallback, 2 messages to the server, 1 back, 2 nested `clientData()`, 1 connection at a time without a client | tables agree (`TablesAgree`), a deleted buffer or receiver is used only where a slot disconnected the client being read, deleted a receiver still to be called, or ran an event loop in which the connection ended (`CrashNeedsReentry`); calls are queues (`CallsTravelInOrder`), and arrive but for those that come during such an event loop (`EveryCallArrives`) |
| `signals` | 2 signals, 3 `addSignal()`, 4 calls on the stack; symmetric in signals | `AllMeansAll`, `NobodyWaitsInVain` |
| `jobs` | 1 job, 3 `exec()` | `JoinedMeansDone`, `DestroyedIsUnused`, `EverybodyReturns` |
| `file_locks` | 2 processes with 2 threads and files each, 4 locks in 5 choices of modes, ranges and threads, 4 `lock()`, `INT_MAX` 3 | `WritersAreAlone`, `NothingStaysLocked`, `EveryLockReturns` |
| `http_transfer` | 2 requests of 4 kinds, sources of 3 kinds with up to 2 reads, chunked or not; the service ignores or dies | `WireIsWellFormed`, `BodyIsNoRequest`, `NoResponseHangs`, `NoRequestIsForgotten` |
| `ssh` | 2 sessions, 2 calls that set credentials, 1 channel | `SecretsGoToKnownHosts`, `RefusedIsNotRepeated`, `CredentialsAreUsed`, `ReadyMeansAuthenticated`, `TerminalComesFirst` |

Further definitions at the end of the modules are true or false of them too, and can be checked by
adding them to a cfg: `PagesAreProcessed` (holds, with `http_aborted`'s constants), `KeysNameSessions`
(violated, likewise), `CountNeverWraps` (violated with `MaxBytes` above `IntMax`), `OutputIsInOrder`,
`FinishedOnce` and `EntryIsNeverReplaced` (hold, and are proved), `CompletedIsTrue` with `Cancellable = {"current"}`
(violated), `RequestsAreInsulated` (violated), `OpenChannelsHaveSession` (violated).  `TypeOK` is proved for
`HttpSessions`, `HttpTransfer`, `Fifo`, `Smtp`, `Pop3`, `RpcService`, `SignalGroup`, `SlotJobs` and `FileLocks`.

Why the bounds are enough.  The hazards of sessions need one ID to be used, freed and used again
while something still names its first use: two IDs and two keys give every such order, and two
requests put two pages, or two requests of one connection, in the queue together.  Five bytes in
writes of one or two make lists of up to five nodes, so the writer can be several nodes ahead of
the reader, and a read can end inside a node, at its end, or span several.  Two mails are what it
takes to confuse one with the next; two recipients tell the first acknowledgement from the last.
A second connection meets the state that the first one left behind.  In `Pop3` the second command
is there to take what is meant for the first.  In `RpcService` two connections tell "all", "all but
one" and "one" apart, and two receivers let a slot delete the next one; two nested calls are what a
slot with an event loop needs.  Three `addSignal()` for two signals have one signal in the group
twice; four calls on the stack nest two waits and a slot of each kind.  Two requests make pipelining;
two reads per source have a first, a last and an empty one.  Two SSH sessions and two settings let a
late answer meet the next of either.  The choices of `FileLocks` have readers that share, writers
that collide in one process and between two, two locks of one thread, a cycle of processes that is
none of threads, and ranges without end or with an end that is no int.

`CHECK_DEADLOCK FALSE` is set throughout: with nothing to send, or after the process ended, the
systems may stop.

Fairness.  `HttpSessions`: `WF(EventLoop)`, the event loop of the main thread goes on.  `Fifo`:
`WF(Writer)`, `WF(Reading)`, `WF(ReadyRead)`, a call that has begun goes on and queued signals are
delivered; nobody is obliged to begin a call.  `Smtp`: `WF(SocketRead)` and `WF(Server)`; `Pop3`:
`WF(Socket)` and weak fairness of the server: the client reads the lines that arrive, a server
works on what it got.  `RpcService`: `WF(EventLoop)` and, for each client, `WF(ClientLoop)`; slots that are called return.
No fairness announces bytes that came inside `readyRead()`: `ReadyRead` waits until more come, as in the code.
`SlotJobs`: `WF(Worker)` and `WF(Main)`, both threads go on.  `FileLocks`: weak fairness for each
lock, a thread inside `lock()` or `unlock()` goes on and who holds a lock unlocks it some day.
Browsers, applications, lost connections and a server that gives up are not fair.  In
`HttpTransfer` every behaviour is finite; what must have happened in the end is an invariant of the
states where nothing is left to do (`Quiet`), so no fairness is needed.  `EveryLockReturns` is stated as
"again and again outside lock()", which with a bounded number of calls says that each of them returns.

## 4. What the code does that its documentation does not say

Shown by violated runs: requests of closed connections (`http_aborted`), `mailSent()` after a refusal
(`smtp_sent`).  `PROJECT.json` ("findings") has the lines and quotes of these and of the following,
which the models contain:

- Sessions: `closeSession()` leaves the session key behind; the null service after the configuration error page.
- Byte queue: the count wraps beyond `INT_MAX`.
- SMTP: `AuthPlain` is 0; `senderRejected()` and `recipientRejected()` are never emitted.
- POP3: `cancel()` of the running reply gives its answer to the next one, `cancel()` of a queued one does not stop it;
  the authentication is queued behind earlier commands; a rejected USER or PASS is never reported; time-outs never start.
- RPC: `call(ids, …)` crashes a client; `setDevice()` of a server is not ignored.
- Signal group: a signal that is emitted from a slot of `firstSignalReceived()` is counted twice; `clear()` leaves the connections.
- Jobs: the destructor may end before `done()` is sent; a waiter that timed out once never waits again; the
  result is whether the slot could be called.
- File locks: of two readers in one process the first `unlock()` takes the bytes from both; ranges
  with an end beyond an int, or of length 0, escape the registry; a blocking `lock()` fails on EDEADLK.
- Transfer: the rest of a body is taken for a request once its content was given up: the request was answered
  early, the service destroyed, or `ignoreRemainingContent()` called, which promises to discard it; the end of a CGI
  page is lost; a source that ends before its page is processed is missed.
- SSH: channels outlive the session they point to; a deleted channel stays in the list; a server
  without authentication leaves state 5; `d_reset()` drops the known hosts; errors of the socket are not reported.

In the models too, but promised by no text: an SSH try under way marks credentials set
meanwhile as failed; `connectToHost()` while the socket is open is lost; a channel that was `start()`ed in
state 66 never emits `readyRead()`; adjacent ranges count as overlapping in the registry of file locks;
RPC calls that arrive while a slot runs an event loop inside `clientData()` are not read until more comes from
the same client; a client that closes its connection, or sends corrupt data, during such an event loop crashes the server
when the slot returns.

## 5. Proofs

All theorems hold for every value of the constants that satisfies the modules' assumptions
(`WebSessionsAssumption`, `HttpSessionsAssumption`, `HttpTransferAssumption`, `FifoAssumption`, `SmtpAssumption`,
`Pop3Assumption`, `RpcServiceAssumption`, `SshClientAssumption`, `FileLocksAssumption`,
`SignalGroupAssumption`, `SlotJobsAssumption`), which say no more than
that bounds are numbers, constants have their types and model values differ.  Three theorems, or
groups of them, need a hypothesis, which is part of their statement: `NoWrap`,
`NoRefusalInPipeline` and `OnlyQueuedAreCancelled`.  Each names what the code leaves to its
surroundings; what happens without it is in section 4, and for `NoRefusalInPipeline` in section 2.

- `HttpSessionsProofs`, the event queue: `TypeCorrect`, one step per action; `RequestsStayValid` from the fact that a
  request is in one place only, the inbox of a service or a page in the queue (`RInv`);
  `PagesStayScheduled`, which is inductive with the types.
- `HttpSessionsProofs`, the sessions: `FreeIdsStayUnused`, `NoticesHitOwnSessions`, `KeysAreUnique` and
  `EntriesAreNeverReplaced`.  None of the properties is inductive: whether an ID may be freed
  depends on notices not yet queued.  The inductive invariant `IInv` says that the right to free
  an ID exists at most once, as a connection of one service that is still alive or as one queued
  notice; that free IDs have none; that every due delete is queued once; and that no ID is in use
  that was never allocated.  A deferred delete turns connections into notices; a notice is spent
  when it is delivered.  `KeysGoToCreators` rests on it: `KInv` adds that while the
  event with a key is queued, nobody was sent that key, and whoever may still answer for the session, or
  is answered by a page behind that event, made the request that created it (`KeysAreUnsent`).  A
  service that still had to answer for an earlier session with the same ID is dead, or the ID
  would not have been freed (`AnswersAreOwn`).
- `FifoAndLocksProofs`, `Fifo`: under `NoWrap` (as many bytes as an int counts) `ListStaysLive`,
  `OutputStaysInOrder`, `CountStaysPositive` and `TypeCorrect`.  `FInv` describes the list:
  consecutive nodes from `head` to `tail` hold consecutive bytes, with at most one node not linked
  yet; the count is what was published and not yet returned.
- `FifoAndLocksProofs`, the refinement: `FifoIsByteQueue`.  `QInv` adds to `FInv` that links go forward
  in time (`Forward`) and what the operations under way have done (`Recent`, `Sizes`).  By induction from the last
  node back (`ListHoldsTheRest`) the list from any node on holds the bytes from that node's first to
  the last one put, so the abstract queue is an interval of the numbers of the bytes, in which `Publish`
  is a `Put`, `EndRead` a `Take`, `Clear` a `Drop`, and every other step a stutter: that neither
  linking a node nor deleting one is seen is the point of the proof.
- `FifoAndLocksProofs`, `FileLocks`: `WritersStayAlone`, `NothingIsLeftLocked` and `LockTypesAreKept`, for any processes, files,
  locks, ranges and `MaxInt`.
  The invariant `LInv`: a lock that was granted is registered (`Registered`), registered locks do not
  collide (`NoCollision`), the kernel keeps processes apart (`Exclusive`), and an active lock has its bytes
  in the kernel unless its own process gave them away (`Held`), which takes another reader or a
  closed file (`SharedByReaders`).
- `SmtpProofs`: `FirstMailStaysThere` and `TypeCorrect`, for every server.  The invariant `SInv` adds that
  the recipient counters stay within the mail being sent (`Counts`), that a MAIL names a mail,
  and that the server has recipients, or waits for a body, only with a sender.
- `SmtpProofs`, the lockstep: `RepliesMatchState`, `BodiesFitEnvelope` and `NothingStaysLost`, under
  `NoRefusalInPipeline`: a server that announces PIPELINING refuses no MAIL, RCPT or DATA.  Without it they are false: the
  client takes a refusal for the end of the mail while answers to the commands it sent along
  are still to come.  The invariant says for each state of the client which command is on its way,
  or which answer (`Awaits`); with PIPELINING, that the commands and answers in flight and those the client
  counted make up one mail's, in order (`PipelineInStep`); and that every mail is queued or reported on, once (`MailIDs`).
- `Pop3Proofs`: `NoneStaysInVain`, `FinishedStaysOnce` and `TypeCorrect`, whatever is cancelled.  The
  invariant `PInv` says that no reply is queued twice, that none in the queue was started (its
  step is "Start") while the current one was, and that neither has emitted finished() unless it
  was cancelled; so what is started is always new.
- `Pop3Proofs`, the lockstep: `LinesGoToCurrent`, `CompletedStaysTrue` and `PasswordsStayEncrypted`, under
  `OnlyQueuedAreCancelled`: `cancel()` is called only on replies that wait.  A running reply that is cancelled
  hands its answer to the next one, so the hypothesis cannot be dropped.  The invariant: either
  nothing is in flight, or one command of the current reply, or its answer, whole or begun (`Asked`
  and the conjuncts beside it); what a reply says of itself is the server's verdict (`Verdicts`); a dialog in USER or
  PASS has an encrypted connection.
- `RpcServiceProofs`: `TablesStayAgreed`, `CrashesNeedReentry`, `ReferencesStayLive` and `TypeCorrect`, for any number
  of connections, clients and receivers, and any depth.  The invariant `RInv` says that the manager's
  table, the bound handlers and the buffers belong to the same connections but for those a slot
  rejected (`TablesAgree`, `Rejections`), that no receiver is attached twice (`AttachedOnce`), that all calls of
  `clientData()` below the top of the stack wait in an event loop (`Nested`), and that each call on the stack has the
  buffer and the receivers it refers to (`Held`, `Gone`) unless one of three histories names what took them away (`FramesLive`).
  A connection that ends while it is read has a call on the stack, which `Nested` shows to be interrupted: so its
  end is in `overrun`, or a slot of the top call ended it, and it is in `cutOff`.
- `RpcServiceProofs`, the refinement: `CallsStayInOrder`, with two more invariants.  The bytes of a connection that were sent
  and not taken are one stream, wherever they are (`UpStream`, `DownStream`), and it consists of lengths and bodies in
  turn (`Framed` in `UpInv` and `DownInv`), but for a client that began with a stale buffer.  `CallsIn`
  distributes over concatenation, so a step that moves bytes from the network to the device or to a buffer is a stutter
  (`Divided`), a call appends its number (`CallsOfMessage`) and dispatching takes the first (`FirstMessage`).  What the recursive
  function `CallsIn` computes is known by induction on the length of the stream (`CallsExist`, `CallsOfAppend`): a set of numbers
  without some property would have a least element (`LeastNumber`).
- `SshClientProofs`: `SecretsStayWithKnownHosts`, `RefusalsAreRespected` and `ReadyIsAuthenticated`.  The
  invariant says of every client that `d_readyRead()` is given, and so of every client it makes,
  that credentials and failed methods belong to the session, that a session past the host key
  check is known, and that one past authentication was admitted (`Good`); the proof follows the
  functions `d_readyRead()` is made of, one lemma each.  `CredentialsStayUsed` rests on `UseInv`: what has failed was
  offered, unless it was changed during the try, and what is set and unused has a timer or a queued `readyRead()`.
  `TerminalsComeFirst` is inductive with the order in which a channel's requests are answered (`TerminalIsNext`).
- `JobsAndSignalsProofs`, `SlotJobs`: `JoinedStaysDone`, `DestroyedStaysUnused`, `JobsTypesAreKept`, for any number of calls of
  `exec()`.  A job that was started once is at one place of its run (`OneRun`, `RunInv`); who deletes a detached job, and what
  a destructor leaves behind, are `DetachedInv` and `DestroyedInv`.
- `JobsAndSignalsProofs`, `SignalGroup`: `AllSignalsAreMeant`, `NobodyWaitsForever`, `GroupTypesAreKept`, for any signals, connections
  and depth.  The flags and counts agree (`ReceivedInv`, `CountInv`) up to the slot calls on the stack (`StackInv`), and what is
  attached is what the group counts (`AttachedInv`).
- `HttpTransferProofs`: `ResponsesStayApart`, `BodiesAreNoRequests`, `ResponsesDoNotHang`,
  `RequestsAreRemembered` and `TransferTypesAreKept`, for any number of requests and length of the responses.  The invariant `Inv`
  relates four things that no handler sees together: the bytes still to be parsed, which are well-framed
  heads and bodies but on a connection where a content was given up before its body had come (`RequestsOK`); the wire, a
  sequence of responses of which all but the last are complete (`WireOK`); the source of the last one and the
  handlers that are bound to it (`HandlersOK`, `ProgressOK`); and who will go on: data or an end of
  the source has a queued call or a handler to come (`Noticed`, `Served`), a head in the buffer has a call of `incomingData()`, a page or an end of
  a response to come (`WaitOK`).  The
  lemmas follow the handlers, with induction for what a page's handlers keep of the queued calls (`Without`).

Only model-checked: liveness (`EverythingIsRead`, `EveryMailIsReported`, `EveryReplyFinishes`, `EveryCallArrives`,
`EverybodyReturns`, `EveryLockReturns`), which needs fairness and ENABLED and is out of the prover's reach.

## 6. Not modelled, and the plan

Of modelled components: the numbering of `attachSignal()`, `setSerializer()` and the rehash of the buffers
by another connection's arrival (RPC); WebSockets, SCGI, the time-out and the headers of CGI, TLS of the
HTTP server; reading, writing and several channels of an SSH session; the Windows version of file
locks; the two mutexes of `web/` as locks of threads.

Done: all of the inventory down to the file locks, but for the pipes.  Next, in this order:

1. `QxtPipe` and `QxtDeplex` with re-entrant receivers; the SQL thread manager's hand-over of
   connections; the two locks of `web/` as threads.
2. `QxtXmlRpcCall` (one reply, time-out and abort) and the span slider, whose two handles bound each
   other through signals that re-enter its slots.

Left out for good: parsing and formatting (mail messages, headers, CSV, JSON, command options,
locales), where there is no behaviour over time, and which is much of the repository's text; tables
of data (locales, currencies); wrappers of libraries that are not in the repository (Berkeley
DB, zeroconf); other widgets.
