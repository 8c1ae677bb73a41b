-------------------------------- MODULE Pop3 --------------------------------
(***************************************************************************)
(* QxtPop3: the client that runs queued commands one after another, with a *)
(* POP3 server (external) at the other end.                                *)
(*                                                                         *)
(* A command is a reply object: it is queued, becomes current, writes its  *)
(* own command lines and reads the lines that come back (dialog()) until   *)
(* it emits finished().  That runs terminate(), and the next one starts.   *)
(***************************************************************************)
EXTENDS Naturals, Sequences

CONSTANTS
    MaxReplies,   \* bound: how many commands the application issues
    MaxConnects,  \* bound: how often connectToHost() is called
    MaxLines,     \* bound: lines of a listing or a message
    Refusable,    \* what a server may refuse though it is in order
    Cancellable   \* what the application cancels

\* "single" stands for STAT, RSET and DELE: one command, one line of answer.
\* "retr" asks for the size of its message (SIZE: "LIST n") before RETR.
Kinds == {"single", "list", "retr", "quit"}
Commands == {"STLS", "USER", "PASS", "QUIT", "SINGLE", "LIST", "SIZE", "RETR"}

ASSUME Pop3Assumption ==
    /\ MaxReplies \in Nat /\ MaxConnects \in Nat /\ MaxLines \in Nat
    /\ Refusable \subseteq Commands \cup {"greeting"}
    /\ Cancellable \subseteq {"pending", "current", "other"}

VARIABLES
    state,            \* Pop3State
    current,          \* the reply that is run, 0 for none
    pending,          \* the queue of replies
    replies,          \* all of them: [kind, step, status, signals, cancelled]
    disableStartTLS,
    link,             \* the socket: "down", "connecting", "up" or "closing"
    tls,              \* its encryption: "no", "handshake" or "yes"
    connects,         \* how often connectToHost() was called
    toServer,         \* commands in flight: [cmd, reply]
    toClient,         \* lines in flight: [class, reply], reply being whom it answers
    server,           \* [user, authed, rejected, quit]
    served            \* history: replies whose last command the server obeyed

queueVars == <<state, current, pending, replies>>
serverVars == <<server, served>>
vars == <<queueVars, disableStartTLS, link, tls, connects, toServer, toClient, serverVars>>

NewServer == [user |-> FALSE, authed |-> FALSE, rejected |-> FALSE, quit |-> FALSE]

NewReply(kind) ==
    [kind |-> kind, step |-> "Start", status |-> "Pending", signals |-> 0, cancelled |-> FALSE]

Init ==
    /\ state = "Disconnected" /\ current = 0
    /\ pending = <<>> /\ replies = <<>>
    /\ disableStartTLS \in BOOLEAN
    /\ link = "down" /\ tls = "no" /\ connects = 0
    /\ toServer = <<>> /\ toClient = <<>>
    /\ server = NewServer /\ served = {}

CommandOf(cmd, reply) == IF cmd = "none" THEN <<>> ELSE <<[cmd |-> cmd, reply |-> reply]>>

Write(cmds) == toServer' = IF link \in {"up", "closing"} THEN toServer \o cmds ELSE toServer

\* The connection ends; what is in flight is lost.
Close == link' = "down" /\ tls' = "no" /\ toServer' = <<>> /\ toClient' = <<>>

-----------------------------------------------------------------------------
(* dialog(): what a reply does with a line.                                *)

Goes(step, cmd) == [step |-> step, cmd |-> cmd, code |-> "none"]
Ends(step, code) == [step |-> step, cmd |-> "none", code |-> code]

Begin(kind) ==
    CASE kind = "auth" -> IF disableStartTLS THEN Goes("UserSent", "USER") ELSE Goes("StlsSent", "STLS")
      [] kind = "single" -> Goes("Sent", "SINGLE")
      [] kind = "list" -> Goes("ListSent", "LIST")
      [] kind = "retr" -> Goes("SizeSent", "SIZE")
      [] kind = "quit" -> Goes("QuitSent", "QUIT")

AnyAnswer(line) == line.class # "none"   \* faulty
IsAnswerOK(line) == line.class = "+OK"

\* Faulty: a refused STLS is ignored.
StlsOrNot(line) == IF IsAnswerOK(line) THEN Goes("TlsOk", "none") ELSE Goes("UserSent", "USER")

AfterStls(line) == IF IsAnswerOK(line) THEN Goes("TlsOk", "none") ELSE Ends("StlsSent", "Failed")
AfterList(line) == IF IsAnswerOK(line) THEN Goes("OkReceived", "none") ELSE Ends("ListSent", "Failed")

\* A refused USER or PASS leaves the reply as it is.
Answer(step, line) ==
    CASE step = "StlsSent" -> AfterStls(line)
      [] step = "TlsOk" -> Goes("UserSent", "USER")
      [] step = "UserSent" -> IF IsAnswerOK(line) THEN Goes("PassSent", "PASS") ELSE Goes(step, "none")
      [] step = "PassSent" -> IF IsAnswerOK(line) THEN Ends(step, "OK") ELSE Goes(step, "none")
      [] step = "QuitSent" -> Ends(step, "OK")
      [] step = "Sent" -> Ends(step, IF IsAnswerOK(line) THEN "OK" ELSE "Failed")
      [] step = "ListSent" -> AfterList(line)
      [] step = "SizeSent" -> IF IsAnswerOK(line) THEN Goes("RetrSent", "RETR") ELSE Ends(step, "Failed")
      [] step = "RetrSent" -> IF IsAnswerOK(line) THEN Goes("OkReceived", "none") ELSE Ends(step, "Failed")
      [] step = "OkReceived" -> IF line.class = "." THEN Ends(step, "OK") ELSE Goes(step, "none")

\* The replies once r has emitted finished() with this status.
Finished(r, status) ==
    [replies EXCEPT ![r].status = status, ![r].signals = @ + 1]

-----------------------------------------------------------------------------
(* The queue.                                                              *)

\* dequeue() in state Ready: the head of the queue is started and writes.
Start(rs, queue) ==
    \/ /\ queue = <<>>
       /\ state' = "Ready" /\ current' = 0
       /\ replies' = rs /\ pending' = queue
    \/ /\ queue # <<>>
       /\ state' = "Busy" /\ current' = Head(queue)
       /\ replies' = [rs EXCEPT ![Head(queue)].status = "Running",
                                ![Head(queue)].step = Begin(rs[Head(queue)].kind).step]
       /\ pending' = Tail(queue)

Written(rs, queue) ==
    IF queue = <<>> THEN <<>> ELSE CommandOf(Begin(rs[Head(queue)].kind).cmd, Head(queue))

Dequeue(rs, queue) == Start(rs, queue) /\ Write(Written(rs, queue))

\* Faulty: the next reply is not started.
TerminateOnly(rs) ==
    /\ state' = "Ready" /\ current' = 0
    /\ replies' = rs /\ UNCHANGED <<pending, toServer>>

\* terminate(), run by finished()
Terminate(rs) == Dequeue(rs, pending)

Eager == state # "Disconnected"   \* faulty
MayDequeue == state = "Ready"

Enqueue(kind) ==
    LET rs == Append(replies, NewReply(kind))
        queue == Append(pending, Len(rs))
    IN  IF MayDequeue THEN Dequeue(rs, queue)
        ELSE /\ replies' = rs /\ pending' = queue
             /\ UNCHANGED <<state, current, toServer>>

-----------------------------------------------------------------------------
(* The application.                                                        *)

OfApplication == {r \in DOMAIN replies : replies[r].kind \in Kinds}

\* stat(), messageList(), retrieveMessage(), deleteMessage(), reset(), quit()
Issue(kind) ==
    /\ Len(SelectSeq(replies, LAMBDA reply : reply.kind \in Kinds)) < MaxReplies
    /\ Enqueue(kind)
    /\ UNCHANGED <<disableStartTLS, link, tls, connects, toClient, serverVars>>

\* cancel(): finished() is connected to terminate() once the reply was started.
Cancel(r) ==
    LET rs == [Finished(r, "Error") EXCEPT ![r].cancelled = TRUE] IN
    /\ ~replies[r].cancelled
    /\ IF replies[r].status = "Pending" THEN "pending" \in Cancellable
       ELSE IF r = current THEN "current" \in Cancellable
       ELSE "other" \in Cancellable
    /\ IF replies[r].step = "Start"
       THEN replies' = rs /\ UNCHANGED <<state, current, pending, toServer>>
       ELSE Terminate(rs)
    /\ UNCHANGED <<disableStartTLS, link, tls, connects, toClient, serverVars>>

\* tls' = "yes" is connectToSecureHost().
ConnectToHost ==
    /\ link = "down" /\ connects < MaxConnects
    /\ state' = "StartState"
    /\ link' = "connecting" /\ tls' \in {"no", "yes"} /\ connects' = connects + 1
    /\ UNCHANGED <<current, pending, replies, disableStartTLS, toServer, toClient, serverVars>>

\* disconnectFromHost(), or the network fails: disconnected(), if there was a connection.
LoseConnection ==
    /\ link # "down"
    /\ state' = IF link = "connecting" THEN state ELSE "Disconnected"
    /\ Close
    /\ UNCHANGED <<current, pending, replies, disableStartTLS, connects, serverVars>>

-----------------------------------------------------------------------------
(* The socket's signals.                                                   *)

Line == Head(toClient)
Consume == toClient' = Tail(toClient)

\* The authentication goes to the end of the queue.  When the greeting is a
\* refusal the socket is closed first, disconnected() runs within that, and
\* the state is set to Ready all the same.
ReadGreeting ==
    LET rs == Append(replies, NewReply("auth"))
        queue == Append(pending, Len(rs))
    IN  /\ toClient # <<>> /\ state = "StartState"
        /\ \/ IsAnswerOK(Line) /\ Dequeue(rs, queue) /\ Consume /\ UNCHANGED <<link, tls>>
           \/ ~IsAnswerOK(Line) /\ Start(rs, queue) /\ Close
        /\ UNCHANGED <<disableStartTLS, connects, serverVars>>

Status(code) == IF code = "OK" THEN "Completed" ELSE "Error"

Dialog(line) ==
    LET answer == Answer(replies[current].step, line) IN
    \/ /\ answer.code = "none"
       /\ replies' = [replies EXCEPT ![current].step = answer.step]
       /\ Write(CommandOf(answer.cmd, current))
       /\ UNCHANGED <<state, current, pending>>
    \/ answer.code # "none" /\ Terminate(Finished(current, Status(answer.code)))

StlsRefused ==
    state = "Busy" /\ replies[current].step = "StlsSent" /\ Answer("StlsSent", Line).code # "none"

\* An accepted STLS starts the handshake.  A client that is not Busy ignores
\* the line.
ReadLine ==
    /\ toClient # <<>> /\ state # "StartState"
    /\ ~StlsRefused
    /\ IF state = "Busy"
       THEN /\ Dialog(Line)
            /\ tls' = IF replies[current].step = "StlsSent" THEN "handshake" ELSE tls
       ELSE UNCHANGED <<queueVars, toServer, tls>>
    /\ Consume
    /\ UNCHANGED <<disableStartTLS, link, connects, serverVars>>

\* A refused STLS finishes the reply, so the next one writes its command; then
\* the socket is disconnected: at once if nothing is left to write.
ReadStlsRefusal ==
    /\ toClient # <<>>
    /\ StlsRefused
    /\ IF pending = <<>>
       THEN /\ Close
            /\ state' = "Disconnected" /\ current' = 0
            /\ replies' = Finished(current, "Error")
            /\ UNCHANGED pending
       ELSE /\ Terminate(Finished(current, "Error"))
            /\ link' = "closing"
            /\ Consume /\ UNCHANGED tls
    /\ UNCHANGED <<disableStartTLS, connects, serverVars>>

Encrypted ==
    /\ tls = "handshake"
    /\ tls' = "yes"
    /\ IF state = "Busy" THEN Dialog([class |-> "none", reply |-> 0])
       ELSE UNCHANGED <<queueVars, toServer>>
    /\ UNCHANGED <<disableStartTLS, link, connects, toClient, serverVars>>

\* socketError() cancels the current reply, which starts the next one; then the
\* socket is closed.
HandshakeFails ==
    /\ tls = "handshake" /\ current # 0
    /\ Close
    /\ state' = "Disconnected"
    /\ current' = IF pending = <<>> THEN 0 ELSE Head(pending)
    /\ pending' = IF pending = <<>> THEN <<>> ELSE Tail(pending)
    /\ replies' = [r \in DOMAIN replies |->
          IF r = current THEN Finished(r, "Error")[r]
          ELSE IF r = current' THEN [replies[r] EXCEPT !.status = "Running",
                                                       !.step = Begin(replies[r].kind).step]
          ELSE replies[r]]
    /\ UNCHANGED <<disableStartTLS, connects, serverVars>>

Socket == ReadGreeting \/ ReadLine \/ ReadStlsRefusal \/ Encrypted \/ HandshakeFails

-----------------------------------------------------------------------------
(* The server: external, what RFC 1939 and RFC 2595 let it do.             *)

InOrder(cmd) ==
    CASE cmd = "STLS" -> tls = "no" /\ ~server.authed
      [] cmd = "USER" -> ~server.authed
      [] cmd = "PASS" -> server.user
      [] cmd = "QUIT" -> TRUE
      [] OTHER -> server.authed

Says(classes, reply) ==
    toClient' = toClient \o [i \in DOMAIN classes |-> [class |-> classes[i], reply |-> reply]]

Accept(c) ==
    /\ InOrder(c.cmd)
    /\ server' = [server EXCEPT !.user = @ \/ c.cmd = "USER",
                                !.authed = @ \/ c.cmd = "PASS",
                                !.quit = @ \/ c.cmd = "QUIT"]
    /\ served' = IF c.cmd \in {"PASS", "SINGLE", "LIST", "RETR"} THEN served \cup {c.reply} ELSE served
    /\ IF c.cmd \in {"LIST", "RETR"}
       THEN \E n \in 0 .. MaxLines : Says(<<"+OK">> \o [i \in 1 .. n |-> "text"] \o <<".">>, c.reply)
       ELSE Says(<<"+OK">>, c.reply)

Refuse(c) ==
    /\ ~InOrder(c.cmd) \/ c.cmd \in Refusable
    /\ server' = [server EXCEPT !.rejected = @ \/ c.cmd \in {"USER", "PASS"}]
    /\ Says(<<"-ERR">>, c.reply)
    /\ UNCHANGED served

Serve ==
    /\ link \in {"up", "closing"} /\ tls # "handshake"
    /\ toServer # <<>> /\ ~server.quit
    /\ toServer' = Tail(toServer)
    /\ Accept(Head(toServer)) \/ Refuse(Head(toServer))
    /\ UNCHANGED <<queueVars, disableStartTLS, link, tls, connects>>

Welcome ==
    /\ link = "connecting"
    /\ link' = "up"
    /\ server' = NewServer
    /\ \E class \in {"+OK"} \cup (IF "greeting" \in Refusable THEN {"-ERR"} ELSE {}) : Says(<<class>>, 0)
    /\ UNCHANGED <<queueVars, disableStartTLS, tls, connects, toServer, served>>

\* After QUIT the server closes; a socket told to disconnect does once it wrote all.
Hangup ==
    /\ \/ link = "up" /\ server.quit /\ toClient = <<>>
       \/ link = "closing" /\ toServer = <<>>
    /\ state' = "Disconnected"
    /\ Close
    /\ UNCHANGED <<current, pending, replies, disableStartTLS, connects, serverVars>>

-----------------------------------------------------------------------------
Next ==
    \/ \E kind \in Kinds : Issue(kind)
    \/ \E r \in OfApplication : Cancel(r)
    \/ ConnectToHost \/ LoseConnection
    \/ Socket
    \/ Serve \/ Welcome \/ Hangup

\* The event loop runs, the server works on what it got, a handshake ends.
Spec == Init /\ [][Next]_vars /\ WF_vars(Socket) /\ WF_vars(Serve \/ Welcome \/ Hangup)

-----------------------------------------------------------------------------
StepsOf(kind) ==
    CASE kind = "auth" -> {"StlsSent", "TlsOk", "UserSent", "PassSent"}
      [] kind = "single" -> {"Sent"}
      [] kind = "list" -> {"ListSent", "OkReceived"}
      [] kind = "retr" -> {"SizeSent", "RetrSent", "OkReceived"}
      [] kind = "quit" -> {"QuitSent"}

TypeOK ==
    /\ state \in {"Disconnected", "StartState", "Busy", "Ready"}
    /\ current \in 0 .. Len(replies)
    /\ pending \in Seq(DOMAIN replies)
    /\ \A r \in DOMAIN replies :
          /\ replies[r].kind \in Kinds \cup {"auth"}
          /\ replies[r].step \in StepsOf(replies[r].kind) \cup {"Start"}
          /\ replies[r].status \in {"Pending", "Running", "Completed", "Error"}
          /\ replies[r].signals \in Nat /\ replies[r].cancelled \in BOOLEAN
    /\ disableStartTLS \in BOOLEAN
    /\ link \in {"down", "connecting", "up", "closing"}
    /\ tls \in {"no", "handshake", "yes"}
    /\ connects \in 0 .. MaxConnects
    /\ toServer \in Seq([cmd : Commands, reply : DOMAIN replies])
    /\ toClient \in Seq([class : {"+OK", "-ERR", "text", "."}, reply : 0 .. Len(replies)])
    /\ server \in [user : BOOLEAN, authed : BOOLEAN, rejected : BOOLEAN, quit : BOOLEAN]
    /\ served \subseteq DOMAIN replies

\* A line is read by the reply whose command it answers, and the greeting by
\* socketRead() itself.
LineIsForCurrent ==
    toClient # <<>> =>
        IF Line.reply = 0 THEN state = "StartState" ELSE state = "Busy" /\ current = Line.reply

\* While the client is Busy a reply is running; when it is Ready none waits.
NoneWaitsInVain ==
    /\ state = "Busy" => current # 0 /\ replies[current].status = "Running"
    /\ state = "Ready" => current = 0 /\ pending = <<>>

\* "Completed The reply has completed, the result, if any, is available": the
\* server did what the command asked for.  A QUIT completes in any case.
CompletedIsTrue ==
    \A r \in DOMAIN replies :
        replies[r].status = "Completed" /\ replies[r].kind # "quit" => r \in served

\* finished() is emitted once; once more for a reply that was cancelled while
\* it was queued.
FinishedOnce ==
    \A r \in DOMAIN replies : replies[r].signals <= IF replies[r].cancelled THEN 2 ELSE 1

\* Unless startTLS is disabled, neither name nor password is sent in clear.
PasswordIsEncrypted ==
    \A i \in DOMAIN toServer :
        toServer[i].cmd \in {"USER", "PASS"} /\ ~disableStartTLS => tls = "yes"

Waits(r) == (state = "Busy" /\ current = r) \/ \E i \in DOMAIN pending : pending[i] = r

\* Every reply that is queued or run finishes, unless the connection ends or
\* the server rejects the name or the password.
EveryReplyFinishes ==
    \A r \in 1 .. MaxReplies + MaxConnects : Waits(r) ~> ~Waits(r) \/ link # "up" \/ server.rejected
=============================================================================
