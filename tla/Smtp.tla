-------------------------------- MODULE Smtp --------------------------------
(***************************************************************************)
(* QxtSmtp: the client that sends queued mails over one connection, with   *)
(* an SMTP server (external) at the other end.                             *)
(*                                                                         *)
(* The client is a state machine driven by the lines it reads: socketRead()*)
(* handles one line at a time according to "state" alone, so all depends   *)
(* on the lines answering the commands it takes them to answer.            *)
(***************************************************************************)
EXTENDS Naturals, Sequences, FiniteSets

CONSTANTS
    MaxMails,             \* bound: how many mails are queued
    MaxRecipients,        \* bound: recipients of a mail
    MaxConnects,          \* bound: how often connectToHost() is called
    Announced,            \* what a server may announce
    Refusable,            \* commands that a server may refuse...
    RefusableInPipeline,  \* ...and those it may refuse when it pipelines
    HasCredentials        \* user name and password are set

Extensions == {"STARTTLS", "PIPELINING", "CRAM-MD5", "LOGIN", "PLAIN"}
Commands == {"ehlo", "helo", "starttls", "auth", "cred", "rset", "mail", "rcpt", "data", "body"}

ASSUME SmtpAssumption ==
    /\ MaxMails \in Nat /\ MaxRecipients \in Nat /\ MaxConnects \in Nat
    /\ Announced \subseteq Extensions
    /\ Refusable \subseteq Commands \cup {"greeting"}
    /\ RefusableInPipeline \subseteq Refusable
    /\ HasCredentials \in BOOLEAN

VARIABLES
    state,            \* SmtpState
    ext,              \* the announced extensions; AUTH is the set of its methods
    authType,
    disableStartTLS,
    nextID,
    pending,          \* mails to send: [id, rcpts], rcpts being how many recipients
    recipients, rcptNumber, rcptAck, mailAck,
    sent, failed,     \* history: the IDs of mailSent() and of mailFailed()
    link,             \* the socket: "down", "connecting" or "up"
    connects,         \* how often connectToHost() was called
    toServer,         \* commands in flight: [cmd, id]
    toClient,         \* lines in flight: [cmd, id, class, cont, ext]
    server,           \* [mode, mail, rcpts, tls, auth]
    accepted          \* history: the mails whose body the server accepted

loginVars == <<ext, authType>>
rcptVars == <<recipients, rcptNumber, rcptAck, mailAck>>
mailVars == <<pending, rcptVars, sent, failed>>
netVars == <<link, connects, toServer, toClient>>
serverVars == <<server, accepted>>
vars == <<state, loginVars, disableStartTLS, nextID, mailVars, netVars, serverVars>>

NewServer == [mode |-> "command", mail |-> 0, rcpts |-> 0, tls |-> FALSE, auth |-> 0]

\* disableStartTLS is not initialised by the constructor.
Init ==
    /\ state = "Disconnected"
    /\ ext = {} /\ authType = "none"
    /\ disableStartTLS \in BOOLEAN
    /\ nextID = 0 /\ pending = <<>>
    /\ recipients = 0 /\ rcptNumber = 0 /\ rcptAck = 0 /\ mailAck = FALSE
    /\ sent = {} /\ failed = {}
    /\ link = "down" /\ connects = 0
    /\ toServer = <<>> /\ toClient = <<>>
    /\ server = NewServer /\ accepted = {}

Cmd(c, id) == [cmd |-> c, id |-> id]
Line == Head(toClient)
Ok == Line.class = "2"

Transmit(cmds) == toServer' = IF link = "up" THEN toServer \o cmds ELSE toServer
Consume == toClient' = Tail(toClient) /\ UNCHANGED <<link, connects>>

\* The connection ends; what is in flight is lost.
Close ==
    /\ link' = "down"
    /\ toServer' = <<>> /\ toClient' = <<>>
    /\ UNCHANGED connects

-----------------------------------------------------------------------------
(* sendNext().                                                             *)

IdsOf(queue) == {queue[i].id : i \in DOMAIN queue}
Ready(queue) == {i \in DOMAIN queue : queue[i].rcpts > 0}

\* The mails that are left once those before the first with recipients failed.
Kept(queue) ==
    IF Ready(queue) = {} THEN <<>>
    ELSE SubSeq(queue, CHOOSE i \in Ready(queue) : \A j \in Ready(queue) : i <= j, Len(queue))

\* Faulty: all recipients are sent, but acknowledged one by one; or no recipient
\* is sent, but all are waited for.
StartMailTwice(m) ==
    /\ recipients' = m.rcpts /\ rcptNumber' = 0 /\ rcptAck' = 0 /\ mailAck' = FALSE
    /\ state' = "MailToSent"
    /\ Transmit(<<Cmd("mail", m.id)>> \o [i \in 1 .. m.rcpts |-> Cmd("rcpt", m.id)])
StartMailOnly(m) ==
    /\ recipients' = m.rcpts /\ rcptNumber' = 0 /\ rcptAck' = 0 /\ mailAck' = FALSE
    /\ state' = "RcptAckPending"
    /\ Transmit(<<Cmd("mail", m.id)>>)

StartMail(m) ==
    /\ recipients' = m.rcpts /\ rcptNumber' = 0 /\ rcptAck' = 0 /\ mailAck' = FALSE
    /\ \/ /\ "PIPELINING" \in ext
          /\ state' = "RcptAckPending"
          /\ Transmit(<<Cmd("mail", m.id)>> \o [i \in 1 .. m.rcpts |-> Cmd("rcpt", m.id)])
       \/ /\ "PIPELINING" \notin ext
          /\ state' = "MailToSent"
          /\ Transmit(<<Cmd("mail", m.id)>>)

\* Called in state "from" with these mails pending, after mailFailed() for
\* "fails".  It is never called in state Disconnected.
SendNext(from, queue, fails) ==
    LET rest == IF from = "Waiting" THEN Kept(queue) ELSE queue IN
    /\ pending' = rest
    /\ failed' = failed \cup fails \cup (IdsOf(queue) \ IdsOf(rest))
    /\ \/ /\ rest = <<>>
          /\ state' = "Waiting"
          /\ Transmit(<<>>) /\ UNCHANGED rcptVars
       \/ /\ rest # <<>> /\ from # "Waiting"
          /\ state' = "Resetting"
          /\ Transmit(<<Cmd("rset", 0)>>) /\ UNCHANGED rcptVars
       \/ rest # <<>> /\ from = "Waiting" /\ StartMail(Head(rest))

-----------------------------------------------------------------------------
(* The application.                                                        *)

Send(n) ==
    LET queue == Append(pending, [id |-> nextID + 1, rcpts |-> n]) IN
    /\ nextID < MaxMails
    /\ nextID' = nextID + 1
    /\ IF state = "Waiting"
       THEN SendNext("Waiting", queue, {})
       ELSE pending' = queue /\ UNCHANGED <<state, rcptVars, failed, toServer>>
    /\ UNCHANGED <<loginVars, disableStartTLS, sent, link, connects, toClient, serverVars>>

\* Once the socket is connected the server sends its greeting.
ConnectToHost ==
    /\ link = "down" /\ connects < MaxConnects
    /\ state' = "StartState"
    /\ link' = "connecting" /\ connects' = connects + 1
    /\ UNCHANGED <<loginVars, disableStartTLS, nextID, mailVars, toServer, toClient, serverVars>>

\* disconnectFromHost(), or the network fails: the state is left as it is.
LoseConnection ==
    /\ link # "down"
    /\ Close
    /\ UNCHANGED <<state, loginVars, disableStartTLS, nextID, mailVars, serverVars>>

-----------------------------------------------------------------------------
(* socketRead(), a line in each state.                                     *)

SayEhlo == Transmit(<<Cmd("ehlo", 0)>>) /\ ext' = {} /\ state' = "EhloSent"

ReadGreeting ==
    /\ toClient # <<>> /\ state = "StartState"
    /\ \/ Ok /\ SayEhlo /\ Consume
       \/ ~Ok /\ state' = "Disconnected" /\ Close /\ UNCHANGED ext
    /\ UNCHANGED <<authType, disableStartTLS, nextID, mailVars, serverVars>>

\* Without a usable method the client goes on as if it were authenticated.
\* AuthPlain is 0, so no bit of allowedAuthTypes stands for PLAIN.
Authenticate(exts) ==
    LET methods == exts \cap {"CRAM-MD5", "LOGIN"} IN
    \/ /\ HasCredentials /\ methods # {}
       /\ authType' = IF "CRAM-MD5" \in methods THEN "CRAM-MD5" ELSE "LOGIN"
       /\ Transmit(<<Cmd("auth", 0)>>)
       /\ state' = "AuthRequestSent"
       /\ UNCHANGED <<pending, rcptVars, failed>>
    \/ /\ ~HasCredentials \/ methods = {}
       /\ SendNext("Authenticated", pending, {})
       /\ UNCHANGED authType

\* parseEhlo(): the greeting line, then the lines of extensions (taken as one).
ReadEhlo ==
    LET exts == IF state = "EhloGreetReceived" THEN Line.ext ELSE {} IN
    /\ toClient # <<>> /\ state \in {"HeloSent", "EhloSent", "EhloGreetReceived"}
    /\ \/ /\ ~Ok /\ state # "HeloSent"
          /\ Transmit(<<Cmd("helo", 0)>>) /\ state' = "HeloSent" /\ Consume
          /\ UNCHANGED <<loginVars, pending, rcptVars, failed>>
       \/ /\ ~Ok /\ state = "HeloSent"
          /\ Close
          /\ UNCHANGED <<state, loginVars, pending, rcptVars, failed>>
       \/ /\ Ok /\ Line.cont
          /\ state' = "EhloGreetReceived" /\ Transmit(<<>>) /\ Consume
          /\ UNCHANGED <<loginVars, pending, rcptVars, failed>>
       \/ /\ Ok /\ ~Line.cont
          /\ ext' = exts
          /\ IF "STARTTLS" \in exts /\ ~disableStartTLS
             THEN /\ Transmit(<<Cmd("starttls", 0)>>) /\ state' = "StartTLSSent"
                  /\ UNCHANGED <<authType, pending, rcptVars, failed>>
             ELSE Authenticate(exts)
          /\ Consume
    /\ UNCHANGED <<disableStartTLS, nextID, sent, serverVars>>

\* A refused STARTTLS is ignored.
ReadStartTLS ==
    /\ toClient # <<>> /\ state = "StartTLSSent"
    /\ \/ Ok /\ SayEhlo /\ UNCHANGED <<authType, pending, rcptVars, failed>>
       \/ ~Ok /\ Authenticate(ext) /\ UNCHANGED ext
    /\ Consume
    /\ UNCHANGED <<disableStartTLS, nextID, sent, serverVars>>

\* Whatever the answer, the next part of the credentials is sent.
ReadAuth ==
    /\ toClient # <<>> /\ state \in {"AuthRequestSent", "AuthUsernameSent"}
    /\ state' = IF authType = "LOGIN" /\ state = "AuthRequestSent"
                THEN "AuthUsernameSent" ELSE "AuthSent"
    /\ Transmit(<<Cmd("cred", 0)>>)
    /\ Consume
    /\ UNCHANGED <<loginVars, disableStartTLS, nextID, mailVars, serverVars>>

ReadAuthResult ==
    /\ toClient # <<>> /\ state = "AuthSent"
    /\ \/ Ok /\ SendNext("Authenticated", pending, {}) /\ Consume
       \/ /\ ~Ok
          /\ state' = "Disconnected" /\ Close
          /\ UNCHANGED <<pending, rcptVars, failed>>
    /\ UNCHANGED <<loginVars, disableStartTLS, nextID, sent, serverVars>>

First == Head(pending).id

\* Faulty: the mail is removed at once.
RefusedAndRemoved ==
    /\ ~Ok
    /\ failed' = failed \cup {First}
    /\ pending' = Tail(pending)
    /\ Transmit(<<Cmd("rset", 0)>>)
    /\ state' = "BodySent"
    /\ UNCHANGED rcptVars

\* Any refusal fails the mail, which stays pending: sendNext() writes "rset",
\* and the state is BodySent after that.
Refused ==
    /\ ~Ok
    /\ failed' = failed \cup {First}
    /\ Transmit(<<Cmd("rset", 0)>>)
    /\ state' = "BodySent"
    /\ UNCHANGED <<pending, rcptVars>>

EarlyLast == rcptNumber + 1 = recipients   \* faulty
LastRecipient == rcptNumber = recipients

\* sendNextRcpt() with a positive answer; the counter rcptAck is never 0 here.
Acknowledged ==
    /\ Ok
    /\ mailAck' = TRUE
    /\ rcptAck' = IF mailAck THEN rcptAck + 1 ELSE rcptAck
    /\ \/ /\ LastRecipient
          /\ Transmit(<<Cmd("data", First)>>)
          /\ state' = "SendingBody" /\ UNCHANGED rcptNumber
       \/ /\ ~LastRecipient
          /\ rcptNumber' = rcptNumber + 1
          /\ Transmit(IF state = "RcptAckPending" THEN <<>> ELSE <<Cmd("rcpt", First)>>)
          /\ UNCHANGED state
    /\ UNCHANGED <<pending, recipients, failed>>

ReadRcptAnswer ==
    /\ toClient # <<>> /\ state \in {"MailToSent", "RcptAckPending"}
    /\ Refused \/ Acknowledged
    /\ Consume
    /\ UNCHANGED <<loginVars, disableStartTLS, nextID, sent, serverVars>>

\* sendBody()
ReadDataAnswer ==
    /\ toClient # <<>> /\ state = "SendingBody"
    /\ \/ /\ Line.class = "3"
          /\ Transmit(<<Cmd("body", First)>>)
          /\ state' = "BodySent"
          /\ UNCHANGED <<pending, rcptVars, failed>>
       \/ Line.class # "3" /\ SendNext("SendingBody", Tail(pending), {First})
    /\ Consume
    /\ UNCHANGED <<loginVars, disableStartTLS, nextID, sent, serverVars>>

Answered == IF pending = <<>> THEN {} ELSE {First}
StillPending == pending   \* faulty
Remaining == IF pending = <<>> THEN <<>> ELSE Tail(pending)

ReadBodyAnswer ==
    /\ toClient # <<>> /\ state = "BodySent"
    /\ sent' = IF Ok THEN sent \cup Answered ELSE sent
    /\ SendNext("BodySent", Remaining, IF Ok THEN {} ELSE Answered)
    /\ Consume
    /\ UNCHANGED <<loginVars, disableStartTLS, nextID, serverVars>>

ReadResetAnswer ==
    /\ toClient # <<>> /\ state = "Resetting"
    /\ \/ Ok /\ SendNext("Waiting", pending, {})
       \/ ~Ok /\ Transmit(<<>>) /\ UNCHANGED <<state, pending, rcptVars, failed>>
    /\ Consume
    /\ UNCHANGED <<loginVars, disableStartTLS, nextID, sent, serverVars>>

IgnoreLine ==
    /\ toClient # <<>> /\ state \in {"Disconnected", "Waiting"}
    /\ Consume
    /\ UNCHANGED <<state, loginVars, disableStartTLS, nextID, mailVars, toServer, serverVars>>

SocketRead ==
    \/ ReadGreeting \/ ReadEhlo \/ ReadStartTLS \/ ReadAuth \/ ReadAuthResult
    \/ ReadRcptAnswer \/ ReadDataAnswer \/ ReadBodyAnswer \/ ReadResetAnswer
    \/ IgnoreLine

-----------------------------------------------------------------------------
(* The server: external, what RFC 5321 lets it do with each command.       *)

clientVars == <<state, loginVars, disableStartTLS, nextID, mailVars>>

Reply(c, class, cont, exts) ==
    [cmd |-> c.cmd, id |-> c.id, class |-> class, cont |-> cont, ext |-> exts]

MayRefuse(c) ==
    c.cmd \in IF "PIPELINING" \in ext THEN RefusableInPipeline ELSE Refusable

\* What it accepts in the state it is in, how, and what comes of it.
InOrder(c) ==
    CASE c.cmd = "mail" -> server.mail = 0
      [] c.cmd = "rcpt" -> server.mail # 0
      [] c.cmd = "data" -> server.rcpts > 0
      [] c.cmd = "body" -> server.mode = "data"
      [] c.cmd = "cred" -> server.auth > 0
      [] OTHER -> TRUE

PositiveClass(c) ==
    IF c.cmd \in {"data", "auth"} \/ (c.cmd = "cred" /\ server.auth = 2) THEN "3" ELSE "2"

AfterAccepting(c) ==
    CASE c.cmd = "mail" -> [server EXCEPT !.mail = c.id]
      [] c.cmd = "rcpt" -> [server EXCEPT !.rcpts = @ + 1]
      [] c.cmd = "data" -> [server EXCEPT !.mode = "data"]
      [] c.cmd = "auth" -> [server EXCEPT !.auth = IF authType = "LOGIN" THEN 2 ELSE 1]
      [] c.cmd = "cred" -> [server EXCEPT !.auth = @ - 1]
      [] c.cmd = "starttls" -> [server EXCEPT !.tls = TRUE]
      [] OTHER -> [server EXCEPT !.mode = "command", !.mail = 0, !.rcpts = 0]

AfterRefusing(c) ==
    CASE c.cmd = "body" -> [server EXCEPT !.mode = "command", !.mail = 0, !.rcpts = 0]
      [] c.cmd = "cred" -> [server EXCEPT !.auth = 0]
      [] OTHER -> server

Accept(c) ==
    /\ InOrder(c)
    /\ server' = AfterAccepting(c)
    /\ accepted' = IF c.cmd = "body" THEN accepted \cup {server.mail} ELSE accepted
    /\ IF c.cmd = "ehlo"
       THEN \E exts \in SUBSET (IF server.tls THEN Announced \ {"STARTTLS"} ELSE Announced) :
               toClient' = toClient \o
                  IF exts = {} THEN <<Reply(c, "2", FALSE, {})>>
                  ELSE <<Reply(c, "2", TRUE, {}), Reply(c, "2", FALSE, exts)>>
       ELSE toClient' = Append(toClient, Reply(c, PositiveClass(c), FALSE, {}))

Refuse(c) ==
    /\ ~InOrder(c) \/ MayRefuse(c)
    /\ server' = AfterRefusing(c)
    /\ toClient' = Append(toClient, Reply(c, "5", FALSE, {}))
    /\ UNCHANGED accepted

\* While it reads the body, a command is just text.
Serve ==
    /\ link = "up" /\ server.mode # "closing" /\ toServer # <<>>
    /\ toServer' = Tail(toServer)
    /\ LET c == Head(toServer) IN
       IF server.mode = "data" /\ c.cmd # "body"
       THEN UNCHANGED <<toClient, serverVars>>
       ELSE Accept(c) \/ Refuse(c)
    /\ UNCHANGED <<clientVars, link, connects>>

Welcome ==
    /\ link = "connecting"
    /\ link' = "up"
    /\ server' = NewServer
    /\ \E class \in {"2"} \cup (IF "greeting" \in Refusable THEN {"5"} ELSE {}) :
          toClient' = <<Reply(Cmd("greeting", 0), class, FALSE, {})>>
    /\ UNCHANGED <<clientVars, connects, toServer, accepted>>

\* A server tired of waiting says so (421) and closes the connection.
Shutdown ==
    /\ link = "up" /\ server.mode = "command" /\ toServer = <<>>
    /\ toClient' = Append(toClient, Reply(Cmd("shutdown", 0), "5", FALSE, {}))
    /\ server' = [server EXCEPT !.mode = "closing"]
    /\ UNCHANGED <<clientVars, link, connects, toServer, accepted>>

Hangup ==
    /\ link = "up" /\ server.mode = "closing" /\ toClient = <<>>
    /\ Close
    /\ UNCHANGED <<clientVars, serverVars>>

-----------------------------------------------------------------------------
Application == \/ \E n \in 0 .. MaxRecipients : Send(n)
               \/ ConnectToHost
               \/ LoseConnection

Server == Serve \/ Welcome \/ Hangup

Next == Application \/ SocketRead \/ Server \/ Shutdown

\* The event loop runs, and the server works on what it got.
Spec == Init /\ [][Next]_vars /\ WF_vars(SocketRead) /\ WF_vars(Server)

-----------------------------------------------------------------------------
States == {"Disconnected", "StartState", "EhloSent", "EhloGreetReceived", "HeloSent",
           "StartTLSSent", "AuthRequestSent", "AuthUsernameSent", "AuthSent", "MailToSent",
           "RcptAckPending", "SendingBody", "BodySent", "Waiting", "Resetting"}

Mails == [id : 1 .. MaxMails, rcpts : 0 .. MaxRecipients]

TypeOK ==
    /\ state \in States
    /\ ext \subseteq Announced
    /\ authType \in {"none", "CRAM-MD5", "LOGIN"}
    /\ disableStartTLS \in BOOLEAN
    /\ nextID \in 0 .. MaxMails
    /\ pending \in Seq(Mails)
    /\ recipients \in 0 .. MaxRecipients
    /\ rcptNumber \in 0 .. MaxRecipients
    /\ rcptAck \in 0 .. MaxRecipients
    /\ mailAck \in BOOLEAN
    /\ sent \subseteq 1 .. MaxMails
    /\ failed \subseteq 1 .. MaxMails
    /\ link \in {"down", "connecting", "up"}
    /\ connects \in 0 .. MaxConnects
    /\ toServer \in Seq([cmd : Commands, id : 0 .. MaxMails])
    /\ toClient \in Seq([cmd : Commands \cup {"greeting", "shutdown"}, id : 0 .. MaxMails,
                         class : {"2", "3", "5"}, cont : BOOLEAN, ext : SUBSET Announced])
    /\ server \in [mode : {"command", "data", "closing"}, mail : 0 .. MaxMails,
                   rcpts : Nat, tls : BOOLEAN, auth : 0 .. 2]
    /\ accepted \subseteq 1 .. MaxMails

\* Wherever pending.first() is read there is a first mail: what the comment in
\* the BodySent case doubts ("shouldnt be necessary").
FirstMailExists ==
    state \in {"MailToSent", "RcptAckPending", "SendingBody", "BodySent"} => pending # <<>>

Expected ==
    CASE state = "StartState" -> {"greeting"}
      [] state \in {"EhloSent", "EhloGreetReceived"} -> {"ehlo"}
      [] state = "HeloSent" -> {"helo"}
      [] state = "StartTLSSent" -> {"starttls"}
      [] state = "AuthRequestSent" -> {"auth"}
      [] state \in {"AuthUsernameSent", "AuthSent"} -> {"cred"}
      [] state \in {"MailToSent", "RcptAckPending"} -> {"mail", "rcpt"}
      [] state = "SendingBody" -> {"data"}
      [] state = "BodySent" -> {"body", "rset"}
      [] state = "Resetting" -> {"rset"}
      [] OTHER -> {}

\* The client takes each line for the answer to the command it answers.
ReplyMatchesState ==
    toClient # <<>> => Line.cmd \in Expected \cup {"shutdown"}

\* The server gets a body when it waits for one, of the mail whose sender and
\* recipients it was told, and only if it took every recipient.
BodyFitsEnvelope ==
    toServer # <<>> /\ Head(toServer).cmd = "body" /\ server.mode # "closing" =>
        /\ server.mode = "data"
        /\ server.mail = Head(toServer).id
        /\ server.rcpts = recipients

\* A mail leaves the queue only with a verdict, and once it was reported sent it
\* is neither in the queue nor on its way again.
NothingIsLost ==
    /\ \A id \in 1 .. nextID : id \in IdsOf(pending) \cup sent \cup failed
    /\ \A id \in sent : /\ id \notin IdsOf(pending)
                        /\ \A i \in DOMAIN toServer : toServer[i].id # id

\* Every queued mail is reported on or the connection ends.
EveryMailIsReported ==
    \A id \in 1 .. MaxMails : id \in IdsOf(pending) ~> (id \notin IdsOf(pending) \/ link # "up")

\* mailSent(): the server accepted the mail.  The comment on the refused mail
\* left in the queue has it that BodySent assigns it "the next mail failed
\* message".
SentMeansAccepted == sent \subseteq accepted
=============================================================================
