----------------------------- MODULE SmtpProofs -----------------------------
(***************************************************************************)
(* Proofs about Smtp, for every number of mails, recipients, connections   *)
(* and every server: the types, and that pending.first() is only read when *)
(* there is a first mail.  And for every server that refuses no sender,    *)
(* recipient or DATA when it pipelines: the client and the server are in   *)
(* lockstep, so that no answer is mistaken and no mail is lost.            *)
(***************************************************************************)
EXTENDS Smtp, SequenceTheorems, WellFoundedInduction, TLAPS

CommandLines == {c \in [cmd : Commands, id : 0 .. MaxMails] : c.cmd = "mail" => c.id # 0}
ReplyLines == [cmd : Commands \cup {"greeting", "shutdown"}, id : 0 .. MaxMails,
               class : {"2", "3", "5"}, cont : BOOLEAN, ext : SUBSET Announced]

\* The recipients are counted up to their number and no further.  The first
\* acknowledgement is the sender's: from then on rcptAck is one behind.
Counts ==
    /\ rcptNumber <= recipients /\ rcptAck <= recipients
    /\ state \in {"MailToSent", "RcptAckPending"} =>
          IF mailAck THEN rcptAck + 1 = rcptNumber ELSE rcptAck = 0 /\ rcptNumber = 0

\* The client's queue and the variables that sendNext() changes with it.  The
\* sender of a MAIL is always that of a mail.
QueueInv ==
    /\ state \in States
    /\ pending \in Seq(Mails)
    /\ recipients \in 0 .. MaxRecipients
    /\ rcptNumber \in 0 .. MaxRecipients
    /\ rcptAck \in 0 .. MaxRecipients
    /\ mailAck \in BOOLEAN
    /\ failed \subseteq 1 .. MaxMails
    /\ toServer \in Seq(CommandLines)
    /\ Counts
    /\ FirstMailExists

\* The server never has recipients, or a body to come, without a sender.
ServerStates == [mode : {"command", "data", "closing"}, mail : 0 .. MaxMails,
                 rcpts : Nat, tls : BOOLEAN, auth : 0 .. 2]
ServerInv ==
    /\ server \in ServerStates
    /\ server.rcpts > 0 \/ server.mode = "data" => server.mail # 0

\* The other variables.
ConnectionInv ==
    /\ ext \subseteq Announced
    /\ authType \in {"none", "CRAM-MD5", "LOGIN"}
    /\ disableStartTLS \in BOOLEAN
    /\ nextID \in 0 .. MaxMails
    /\ sent \subseteq 1 .. MaxMails
    /\ link \in {"down", "connecting", "up"}
    /\ connects \in 0 .. MaxConnects
    /\ toClient \in Seq(ReplyLines)
    /\ ServerInv
    /\ accepted \subseteq 1 .. MaxMails

SInv == QueueInv /\ ConnectionInv

-----------------------------------------------------------------------------
LEMMA LeastNumber ==
    ASSUME NEW T \in SUBSET Nat, T # {}
    PROVE  \E i \in T : \A j \in T : i <= j
<1> DEFINE R == {ss \in Nat \X Nat : ss[1] < ss[2]}
<1>1. IsWellFoundedOn(R, Nat)
  BY NatLessThanWellFounded DEF OpToRel
<1>2. \A i, j \in Nat : <<j, i>> \in R <=> j < i
  OBVIOUS
<1> HIDE DEF R
<1>3. \E i \in T : \A j \in T : ~(<<j, i>> \in R)
  BY <1>1, WFMin, Zenon
<1>4. PICK i \in T : \A j \in T : ~(<<j, i>> \in R)
  BY <1>3
<1>5. \A j \in T : i <= j
  <2> TAKE j \in T
  <2>1. i \in Nat /\ j \in Nat
    OBVIOUS
  <2>2. ~(j < i)
    BY <1>2, <1>4, <2>1
  <2> QED BY <2>1, <2>2
<1> QED BY <1>5

\* The queue of sendNext() after it dropped mails without recipients.
LEMMA KeptMails ==
    ASSUME NEW queue \in Seq(Mails)
    PROVE  Kept(queue) \in Seq(Mails)
<1>1. CASE Ready(queue) = {}
  BY <1>1, EmptySeq DEF Kept
<1>2. CASE Ready(queue) # {}
  <2> DEFINE first == CHOOSE i \in Ready(queue) : \A j \in Ready(queue) : i <= j
  <2>1. /\ Len(queue) \in Nat
        /\ DOMAIN queue = 1 .. Len(queue)
        /\ \A i \in 1 .. Len(queue) : queue[i] \in Mails
    BY LenProperties, ElementOfSeq
  <2>2. Ready(queue) \subseteq 1 .. Len(queue)
    BY <2>1 DEF Ready
  <2>4. \E i \in Ready(queue) : \A j \in Ready(queue) : i <= j
    BY <1>2, <2>1, <2>2, LeastNumber
  <2>5. first \in 1 .. Len(queue)
    BY <2>2, <2>4
  <2> HIDE DEF first
  <2>6. \A i \in first .. Len(queue) : queue[i] \in Mails
    BY <2>1, <2>5
  <2>7. SubSeq(queue, first, Len(queue)) \in Seq(Mails)
    BY <2>1, <2>5, <2>6, SubSeqProperties
  <2> QED BY <1>2, <2>7 DEF Kept, first
<1> QED BY <1>1, <1>2

\* Commands are written at the end of those in flight, or nowhere.
LEMMA Transmitted ==
    ASSUME toServer \in Seq(CommandLines), NEW cmds \in Seq(CommandLines), Transmit(cmds)
    PROVE  toServer' \in Seq(CommandLines)
  BY ConcatProperties DEF Transmit

\* The commands that the client writes.
LEMMA CommandTypes ==
    ASSUME SmtpAssumption
    PROVE  /\ <<>> \in Seq(CommandLines)
           /\ \A c \in Commands \ {"mail"}, id \in 0 .. MaxMails : <<Cmd(c, id)>> \in Seq(CommandLines)
           /\ \A m \in Mails : /\ <<Cmd("mail", m.id)>> \in Seq(CommandLines)
                               /\ <<Cmd("mail", m.id)>> \o [i \in 1 .. m.rcpts |-> Cmd("rcpt", m.id)]
                                     \in Seq(CommandLines)
<1>1. <<>> \in Seq(CommandLines)
  BY EmptySeq
<1>2. \A c \in Commands, id \in 0 .. MaxMails : (c = "mail" => id # 0) => Cmd(c, id) \in CommandLines
  BY DEF Cmd, CommandLines
<1>3. \A c \in CommandLines : <<c>> \in Seq(CommandLines)
  BY SeqDef
<1>4. \A m \in Mails : [i \in 1 .. m.rcpts |-> Cmd("rcpt", m.id)] \in Seq(CommandLines)
  <2> TAKE m \in Mails
  <2>1. m.rcpts \in Nat /\ Cmd("rcpt", m.id) \in CommandLines
    BY <1>2 DEF Mails, Commands, SmtpAssumption
  <2>2. [i \in 1 .. m.rcpts |-> Cmd("rcpt", m.id)] \in [1 .. m.rcpts -> CommandLines]
    BY <2>1
  <2> HIDE DEF Cmd
  <2> QED BY <2>1, <2>2, SeqDef
<1>5. \A m \in Mails : <<Cmd("mail", m.id)>> \in Seq(CommandLines)
  BY <1>2, <1>3 DEF Mails, Commands, SmtpAssumption
<1>6. \A m \in Mails : <<Cmd("mail", m.id)>> \o [i \in 1 .. m.rcpts |-> Cmd("rcpt", m.id)]
                          \in Seq(CommandLines)
  BY <1>4, <1>5, ConcatProperties
<1>7. \A c \in Commands \ {"mail"}, id \in 0 .. MaxMails : <<Cmd(c, id)>> \in Seq(CommandLines)
  BY <1>2, <1>3
<1> QED BY <1>1, <1>5, <1>6, <1>7

\* sendNext(), wherever it is called.
LEMMA SendNextStep ==
    ASSUME SmtpAssumption, QueueInv, NEW from, NEW queue \in Seq(Mails),
           NEW fails \in SUBSET (1 .. MaxMails), SendNext(from, queue, fails)
    PROVE  QueueInv'
<1> DEFINE rest == IF from = "Waiting" THEN Kept(queue) ELSE queue
<1>1. rest \in Seq(Mails)
  BY KeptMails
<1>2. IdsOf(queue) \subseteq 1 .. MaxMails
  <2>1. \A i \in DOMAIN queue : queue[i] \in Mails
    BY LenProperties, ElementOfSeq
  <2> QED BY <2>1 DEF IdsOf, Mails
<1>3. failed' \subseteq 1 .. MaxMails /\ pending' = rest
  BY <1>2 DEF SendNext, QueueInv
<1>4. toServer \in Seq(CommandLines)
  BY DEF QueueInv
<1>5. CASE rest = <<>> /\ state' = "Waiting" /\ Transmit(<<>>) /\ UNCHANGED rcptVars
  <2>1. toServer' \in Seq(CommandLines)
    BY <1>4, <1>5, CommandTypes, Transmitted
  <2> QED BY <1>1, <1>3, <1>5, <2>1 DEF QueueInv, rcptVars, States, Counts, FirstMailExists
<1>6. CASE rest # <<>> /\ state' = "Resetting" /\ Transmit(<<Cmd("rset", 0)>>) /\ UNCHANGED rcptVars
  <2>1. <<Cmd("rset", 0)>> \in Seq(CommandLines)
    BY CommandTypes DEF Commands, SmtpAssumption
  <2>2. toServer' \in Seq(CommandLines)
    BY <1>4, <1>6, <2>1, Transmitted
  <2> QED BY <1>1, <1>3, <1>6, <2>2 DEF QueueInv, rcptVars, States, Counts, FirstMailExists
<1>7. CASE rest # <<>> /\ StartMail(Head(rest))
  <2>1. Head(rest) \in Mails
    BY <1>1, <1>7, HeadTailProperties
  <2>2. toServer' \in Seq(CommandLines)
    BY <1>4, <1>7, <2>1, CommandTypes, Transmitted DEF StartMail
  <2>3. Head(rest).rcpts \in 0 .. MaxRecipients
    BY <2>1 DEF Mails
  <2>4. /\ recipients' \in 0 .. MaxRecipients /\ rcptNumber' = 0 /\ rcptAck' = 0 /\ mailAck' = FALSE
        /\ state' \in {"MailToSent", "RcptAckPending"}
    BY <1>7, <2>3 DEF StartMail
  <2>5. ~mailAck' /\ mailAck' \in BOOLEAN
    BY <2>4
  <2>6. rcptNumber' <= recipients' /\ rcptAck' <= recipients'
    BY <2>4 DEF SmtpAssumption
  <2>7. Counts'
    BY <2>4, <2>5, <2>6 DEF Counts
  <2>8. state' \in States /\ pending' # <<>>
    BY <1>3, <1>7, <2>4 DEF States
  <2>9. rcptNumber' \in 0 .. MaxRecipients /\ rcptAck' \in 0 .. MaxRecipients
    BY <2>4 DEF SmtpAssumption
  <2> HIDE DEF rest
  <2> QED BY <1>1, <1>3, <2>2, <2>4, <2>5, <2>7, <2>8, <2>9 DEF QueueInv, FirstMailExists
<1>8. \/ rest = <<>> /\ state' = "Waiting" /\ Transmit(<<>>) /\ UNCHANGED rcptVars
      \/ rest # <<>> /\ state' = "Resetting" /\ Transmit(<<Cmd("rset", 0)>>) /\ UNCHANGED rcptVars
      \/ rest # <<>> /\ StartMail(Head(rest))
  BY DEF SendNext
<1> HIDE DEF rest
<1> QED BY <1>5, <1>6, <1>7, <1>8

-----------------------------------------------------------------------------
LEMMA LineTypes ==
    ASSUME SInv, toClient # <<>>
    PROVE  Line \in ReplyLines /\ Tail(toClient) \in Seq(ReplyLines)
  BY HeadTailProperties DEF SInv, ConnectionInv, Line

\* Reading a line, or closing the connection, and what else is left alone.
LEMMA Consumed ==
    ASSUME SInv, toClient # <<>>, Consume
    PROVE  /\ toClient' \in Seq(ReplyLines)
           /\ link' \in {"down", "connecting", "up"} /\ connects' \in 0 .. MaxConnects
  BY LineTypes DEF Consume, SInv, ConnectionInv

LEMMA Closed ==
    ASSUME SInv, Close
    PROVE  /\ toClient' \in Seq(ReplyLines) /\ toServer' \in Seq(CommandLines)
           /\ link' \in {"down", "connecting", "up"} /\ connects' \in 0 .. MaxConnects
  BY EmptySeq DEF Close, SInv, ConnectionInv

\* A step of the client that moves to a state in which no mail is on its way.
LEMMA OtherState ==
    ASSUME SInv, toServer' \in Seq(CommandLines),
           UNCHANGED <<pending, rcptVars, failed>>,
           state' \in States \ {"MailToSent", "RcptAckPending", "SendingBody", "BodySent"}
    PROVE  QueueInv'
  BY DEF SInv, QueueInv, rcptVars, Counts, FirstMailExists

LEMMA SameState ==
    ASSUME SInv, toServer' \in Seq(CommandLines), UNCHANGED <<state, pending, rcptVars, failed>>
    PROVE  QueueInv'
  BY DEF SInv, QueueInv, rcptVars, Counts, FirstMailExists

\* A command that is not MAIL.
LEMMA Said ==
    ASSUME SmtpAssumption, SInv, NEW c \in Commands \ {"mail"}, NEW id \in 0 .. MaxMails,
           Transmit(<<Cmd(c, id)>>)
    PROVE  toServer' \in Seq(CommandLines)
<1>1. <<Cmd(c, id)>> \in Seq(CommandLines)
  BY CommandTypes
<1> QED BY <1>1, Transmitted DEF SInv, QueueInv

LEMMA SilentStep ==
    ASSUME SInv, Transmit(<<>>)
    PROVE  toServer' \in Seq(CommandLines)
  BY EmptySeq, Transmitted DEF SInv, QueueInv

LEMMA AuthenticateStep ==
    ASSUME SmtpAssumption, SInv, NEW exts, Authenticate(exts)
    PROVE  QueueInv' /\ authType' \in {"none", "CRAM-MD5", "LOGIN"}
<1>1. CASE Transmit(<<Cmd("auth", 0)>>) /\ state' = "AuthRequestSent" /\ UNCHANGED <<pending, rcptVars, failed>>
           /\ authType' \in {"CRAM-MD5", "LOGIN"}
  <2>1. toServer' \in Seq(CommandLines)
    BY <1>1, Said DEF Commands, SmtpAssumption
  <2> QED BY <1>1, <2>1, OtherState DEF States
<1>2. CASE SendNext("Authenticated", pending, {}) /\ UNCHANGED authType
  <2>1. QueueInv'
    BY <1>2, SendNextStep DEF SInv, QueueInv
  <2> QED BY <1>2, <2>1 DEF SInv, ConnectionInv
<1> QED BY <1>1, <1>2 DEF Authenticate

-----------------------------------------------------------------------------
(* One step for each action.                                               *)

LEMMA SendStep ==
    ASSUME SmtpAssumption, SInv, NEW n \in 0 .. MaxRecipients, Send(n)
    PROVE  SInv'
<1> DEFINE queue == Append(pending, [id |-> nextID + 1, rcpts |-> n])
<1>1. nextID + 1 \in 1 .. MaxMails /\ nextID' = nextID + 1
  BY DEF Send, SInv, ConnectionInv, SmtpAssumption
<1>2. queue \in Seq(Mails) /\ queue # <<>>
  <2>1. [id |-> nextID + 1, rcpts |-> n] \in Mails
    BY <1>1 DEF Mails
  <2> QED BY <2>1, AppendProperties DEF SInv, QueueInv
<1>3. QueueInv'
  <2>1. CASE state = "Waiting"
    <3>1. SendNext("Waiting", queue, {})
      BY <2>1 DEF Send
    <3> HIDE DEF queue
    <3> QED BY <1>2, <3>1, SendNextStep DEF SInv
  <2>2. CASE state # "Waiting"
    <3>1. pending' = queue /\ UNCHANGED <<state, rcptVars, failed, toServer>>
      BY <2>2 DEF Send
    <3> HIDE DEF queue
    <3> QED BY <1>2, <3>1 DEF SInv, QueueInv, rcptVars, Counts, FirstMailExists
  <2> QED BY <2>1, <2>2
<1>4. ConnectionInv'
  BY <1>1 DEF Send, SInv, ConnectionInv, ServerInv, loginVars, serverVars, SmtpAssumption
<1> QED BY <1>3, <1>4 DEF SInv

LEMMA ConnectStep ==
    ASSUME SmtpAssumption, SInv, ConnectToHost
    PROVE  SInv'
<1>1. QueueInv'
  BY OtherState DEF ConnectToHost, mailVars, States, SInv, QueueInv
<1>2. ConnectionInv'
  BY DEF ConnectToHost, mailVars, loginVars, serverVars, SInv, ConnectionInv, ServerInv, SmtpAssumption
<1> QED BY <1>1, <1>2 DEF SInv

LEMMA LoseConnectionStep ==
    ASSUME SInv, LoseConnection
    PROVE  SInv'
<1>1. QueueInv'
  BY Closed, SameState DEF LoseConnection, mailVars
<1>2. ConnectionInv'
  BY Closed DEF LoseConnection, mailVars, loginVars, serverVars, SInv, ConnectionInv, ServerInv
<1> QED BY <1>1, <1>2 DEF SInv

LEMMA ReadGreetingStep ==
    ASSUME SmtpAssumption, SInv, ReadGreeting
    PROVE  SInv'
<1>1. CASE SayEhlo /\ Consume
  <2>1. toServer' \in Seq(CommandLines)
    BY <1>1, Said DEF SayEhlo, Commands, SmtpAssumption
  <2>2. QueueInv'
    BY <1>1, <2>1, OtherState DEF ReadGreeting, SayEhlo, mailVars, States
  <2>3. ConnectionInv'
    BY <1>1, Consumed DEF ReadGreeting, SayEhlo, mailVars, serverVars, SInv, ConnectionInv, ServerInv
  <2> QED BY <2>2, <2>3 DEF SInv
<1>2. CASE state' = "Disconnected" /\ Close /\ UNCHANGED ext
  <2>1. QueueInv'
    BY <1>2, Closed, OtherState DEF ReadGreeting, mailVars, States
  <2>2. ConnectionInv'
    BY <1>2, Closed DEF ReadGreeting, mailVars, serverVars, SInv, ConnectionInv, ServerInv
  <2> QED BY <2>1, <2>2 DEF SInv
<1> QED BY <1>1, <1>2 DEF ReadGreeting

LEMMA ReadEhloStep ==
    ASSUME SmtpAssumption, SInv, ReadEhlo
    PROVE  SInv'
<1> DEFINE exts == IF state = "EhloGreetReceived" THEN Line.ext ELSE {}
<1>1. exts \subseteq Announced
  BY LineTypes DEF ReadEhlo, ReplyLines
<1>2. CASE /\ Transmit(<<Cmd("helo", 0)>>) /\ state' = "HeloSent" /\ Consume
           /\ UNCHANGED <<loginVars, pending, rcptVars, failed>>
  <2>1. toServer' \in Seq(CommandLines)
    BY <1>2, Said DEF Commands, SmtpAssumption
  <2>2. QueueInv'
    BY <1>2, <2>1, OtherState DEF States
  <2>3. ConnectionInv'
    BY <1>2, Consumed DEF ReadEhlo, loginVars, serverVars, SInv, ConnectionInv, ServerInv
  <2> QED BY <2>2, <2>3 DEF SInv
<1>3. CASE Close /\ UNCHANGED <<state, loginVars, pending, rcptVars, failed>>
  <2>1. QueueInv'
    BY <1>3, Closed, SameState
  <2>2. ConnectionInv'
    BY <1>3, Closed DEF ReadEhlo, loginVars, serverVars, SInv, ConnectionInv, ServerInv
  <2> QED BY <2>1, <2>2 DEF SInv
<1>4. CASE /\ state' = "EhloGreetReceived" /\ Transmit(<<>>) /\ Consume
           /\ UNCHANGED <<loginVars, pending, rcptVars, failed>>
  <2>1. QueueInv'
    BY <1>4, SilentStep, OtherState DEF States
  <2>2. ConnectionInv'
    BY <1>4, Consumed DEF ReadEhlo, loginVars, serverVars, SInv, ConnectionInv, ServerInv
  <2> QED BY <2>1, <2>2 DEF SInv
<1>5. CASE /\ ext' = exts /\ Consume
           /\ Transmit(<<Cmd("starttls", 0)>>) /\ state' = "StartTLSSent"
           /\ UNCHANGED <<authType, pending, rcptVars, failed>>
  <2>1. toServer' \in Seq(CommandLines)
    BY <1>5, Said DEF Commands, SmtpAssumption
  <2>2. QueueInv'
    BY <1>5, <2>1, OtherState DEF States
  <2>3. ConnectionInv'
    BY <1>1, <1>5, Consumed DEF ReadEhlo, serverVars, SInv, ConnectionInv, ServerInv
  <2> QED BY <2>2, <2>3 DEF SInv
<1>6. CASE ext' = exts /\ Consume /\ Authenticate(exts)
  <2>1. QueueInv' /\ authType' \in {"none", "CRAM-MD5", "LOGIN"}
    BY <1>6, AuthenticateStep
  <2>2. ConnectionInv'
    BY <1>1, <1>6, <2>1, Consumed DEF ReadEhlo, serverVars, SInv, ConnectionInv, ServerInv
  <2> QED BY <2>1, <2>2 DEF SInv
<1> HIDE DEF exts
<1> QED BY <1>2, <1>3, <1>4, <1>5, <1>6 DEF ReadEhlo, exts

LEMMA ReadStartTLSStep ==
    ASSUME SmtpAssumption, SInv, ReadStartTLS
    PROVE  SInv'
<1>1. CASE SayEhlo /\ UNCHANGED <<authType, pending, rcptVars, failed>>
  <2>1. toServer' \in Seq(CommandLines)
    BY <1>1, Said DEF SayEhlo, Commands, SmtpAssumption
  <2>2. QueueInv'
    BY <1>1, <2>1, OtherState DEF SayEhlo, States
  <2>3. ConnectionInv'
    BY <1>1, Consumed DEF ReadStartTLS, SayEhlo, serverVars, SInv, ConnectionInv, ServerInv
  <2> QED BY <2>2, <2>3 DEF SInv
<1>2. CASE Authenticate(ext) /\ UNCHANGED ext
  <2>1. QueueInv' /\ authType' \in {"none", "CRAM-MD5", "LOGIN"}
    BY <1>2, AuthenticateStep
  <2>2. ConnectionInv'
    BY <1>2, <2>1, Consumed DEF ReadStartTLS, serverVars, SInv, ConnectionInv, ServerInv
  <2> QED BY <2>1, <2>2 DEF SInv
<1> QED BY <1>1, <1>2 DEF ReadStartTLS

LEMMA ReadAuthStep ==
    ASSUME SmtpAssumption, SInv, ReadAuth
    PROVE  SInv'
<1>1. toServer' \in Seq(CommandLines)
  BY Said DEF ReadAuth, Commands, SmtpAssumption
<1>2. QueueInv'
  BY <1>1, OtherState DEF ReadAuth, mailVars, States
<1>3. ConnectionInv'
  BY Consumed DEF ReadAuth, mailVars, loginVars, serverVars, SInv, ConnectionInv, ServerInv
<1> QED BY <1>2, <1>3 DEF SInv

LEMMA ReadAuthResultStep ==
    ASSUME SmtpAssumption, SInv, ReadAuthResult
    PROVE  SInv'
<1>1. QueueInv'
  <2>1. CASE SendNext("Authenticated", pending, {})
    BY <2>1, SendNextStep DEF SInv, QueueInv
  <2>2. CASE state' = "Disconnected" /\ Close /\ UNCHANGED <<pending, rcptVars, failed>>
    BY <2>2, Closed, OtherState DEF States
  <2> QED BY <2>1, <2>2 DEF ReadAuthResult
<1>2. ConnectionInv'
  BY Consumed, Closed DEF ReadAuthResult, loginVars, serverVars, SInv, ConnectionInv, ServerInv
<1> QED BY <1>1, <1>2 DEF SInv

\* The first mail, in the states that read it.
LEMMA FirstMail ==
    ASSUME SInv, state \in {"MailToSent", "RcptAckPending", "SendingBody", "BodySent"}
    PROVE  /\ First \in 1 .. MaxMails /\ First \in 0 .. MaxMails
           /\ Tail(pending) \in Seq(Mails)
<1>1. Head(pending) \in Mails /\ Tail(pending) \in Seq(Mails)
  BY HeadTailProperties DEF SInv, QueueInv, FirstMailExists
<1> QED BY <1>1 DEF First, Mails

LEMMA RefusedStep ==
    ASSUME SmtpAssumption, SInv, state \in {"MailToSent", "RcptAckPending"}, Refused
    PROVE  QueueInv'
<1>1. toServer' \in Seq(CommandLines)
  BY Said DEF Refused, Commands, SmtpAssumption
<1>2. failed' \subseteq 1 .. MaxMails
  BY FirstMail DEF Refused, SInv, QueueInv
<1> QED BY <1>1, <1>2 DEF Refused, SInv, QueueInv, rcptVars, States, Counts, FirstMailExists

LEMMA AcknowledgedStep ==
    ASSUME SmtpAssumption, SInv, state \in {"MailToSent", "RcptAckPending"}, Acknowledged
    PROVE  QueueInv'
<1>1. First \in 0 .. MaxMails
  BY FirstMail
<1>2. toServer' \in Seq(CommandLines)
  BY <1>1, Said, SilentStep DEF Acknowledged, Commands
<1>3. mailAck' \in BOOLEAN /\ mailAck'
  BY DEF Acknowledged
<1>4. /\ rcptNumber \in Nat /\ rcptAck \in Nat /\ recipients \in Nat /\ recipients' = recipients
      /\ rcptNumber <= recipients /\ rcptAck <= recipients /\ recipients <= MaxRecipients
  BY DEF Acknowledged, SInv, QueueInv, Counts, SmtpAssumption
<1>5. \/ mailAck /\ rcptAck + 1 = rcptNumber /\ rcptAck' = rcptAck + 1
      \/ ~mailAck /\ rcptAck = 0 /\ rcptNumber = 0 /\ rcptAck' = 0
  BY DEF Acknowledged, SInv, QueueInv, Counts
<1>6. \/ state' = "SendingBody" /\ rcptNumber' = rcptNumber
      \/ state' = state /\ rcptNumber' = rcptNumber + 1 /\ rcptNumber # recipients
  BY DEF Acknowledged, LastRecipient
<1>7. /\ rcptNumber' \in Nat /\ rcptNumber' <= recipients
      /\ rcptAck' \in Nat /\ rcptAck' <= recipients
      /\ state' # "SendingBody" => rcptAck' + 1 = rcptNumber'
  BY <1>4, <1>5, <1>6
<1>8. Counts'
  BY <1>3, <1>4, <1>6, <1>7 DEF Counts
<1>9. /\ rcptNumber' \in 0 .. MaxRecipients /\ rcptAck' \in 0 .. MaxRecipients
      /\ recipients' \in 0 .. MaxRecipients
  BY <1>4, <1>7 DEF SmtpAssumption
<1>10. state' \in States /\ FirstMailExists'
  BY <1>6 DEF Acknowledged, SInv, QueueInv, States, FirstMailExists
<1> QED BY <1>2, <1>3, <1>8, <1>9, <1>10 DEF Acknowledged, SInv, QueueInv

LEMMA ReadRcptAnswerStep ==
    ASSUME SmtpAssumption, SInv, ReadRcptAnswer
    PROVE  SInv'
<1>1. QueueInv'
  BY RefusedStep, AcknowledgedStep DEF ReadRcptAnswer
<1>2. ConnectionInv'
  BY Consumed DEF ReadRcptAnswer, loginVars, serverVars, SInv, ConnectionInv, ServerInv
<1> QED BY <1>1, <1>2 DEF SInv

LEMMA ReadDataAnswerStep ==
    ASSUME SmtpAssumption, SInv, ReadDataAnswer
    PROVE  SInv'
<1>1. First \in 1 .. MaxMails /\ First \in 0 .. MaxMails /\ Tail(pending) \in Seq(Mails)
  BY FirstMail DEF ReadDataAnswer
<1>2. QueueInv'
  <2>1. CASE /\ Transmit(<<Cmd("body", First)>>) /\ state' = "BodySent"
             /\ UNCHANGED <<pending, rcptVars, failed>>
    <3>1. toServer' \in Seq(CommandLines)
      BY <1>1, <2>1, Said DEF Commands
    <3> QED BY <2>1, <3>1 DEF ReadDataAnswer, SInv, QueueInv, rcptVars, States, Counts, FirstMailExists
  <2>2. CASE SendNext("SendingBody", Tail(pending), {First})
    BY <1>1, <2>2, SendNextStep DEF SInv
  <2> QED BY <2>1, <2>2 DEF ReadDataAnswer
<1>3. ConnectionInv'
  BY Consumed DEF ReadDataAnswer, loginVars, serverVars, SInv, ConnectionInv, ServerInv
<1> QED BY <1>2, <1>3 DEF SInv

LEMMA ReadBodyAnswerStep ==
    ASSUME SmtpAssumption, SInv, ReadBodyAnswer
    PROVE  SInv'
<1>1. First \in 1 .. MaxMails /\ Tail(pending) \in Seq(Mails)
  BY FirstMail DEF ReadBodyAnswer
<1>2. Answered \subseteq 1 .. MaxMails /\ Remaining \in Seq(Mails)
  BY <1>1, EmptySeq DEF Answered, Remaining
<1>3. QueueInv'
  <2> DEFINE fails == IF Ok THEN {} ELSE Answered
  <2>1. fails \in SUBSET (1 .. MaxMails) /\ SendNext("BodySent", Remaining, fails)
    BY <1>2 DEF ReadBodyAnswer
  <2> HIDE DEF fails
  <2> QED BY <1>2, <2>1, SendNextStep DEF SInv
<1>4. ConnectionInv'
  BY <1>2, Consumed DEF ReadBodyAnswer, loginVars, serverVars, SInv, ConnectionInv, ServerInv
<1> QED BY <1>3, <1>4 DEF SInv

LEMMA ReadResetAnswerStep ==
    ASSUME SmtpAssumption, SInv, ReadResetAnswer
    PROVE  SInv'
<1>1. QueueInv'
  <2>1. CASE SendNext("Waiting", pending, {})
    BY <2>1, SendNextStep DEF SInv, QueueInv
  <2>2. CASE Transmit(<<>>) /\ UNCHANGED <<state, pending, rcptVars, failed>>
    BY <2>2, SilentStep, SameState
  <2> QED BY <2>1, <2>2 DEF ReadResetAnswer
<1>2. ConnectionInv'
  BY Consumed DEF ReadResetAnswer, loginVars, serverVars, SInv, ConnectionInv, ServerInv
<1> QED BY <1>1, <1>2 DEF SInv

LEMMA IgnoreLineStep ==
    ASSUME SInv, IgnoreLine
    PROVE  SInv'
<1>1. QueueInv'
  BY SameState DEF IgnoreLine, mailVars, SInv, QueueInv
<1>2. ConnectionInv'
  BY Consumed DEF IgnoreLine, mailVars, loginVars, serverVars, SInv, ConnectionInv, ServerInv
<1> QED BY <1>1, <1>2 DEF SInv

\* The server leaves the client's variables alone.
LEMMA ServerStep ==
    ASSUME SInv, toServer' \in Seq(CommandLines), UNCHANGED clientVars
    PROVE  QueueInv'
  BY DEF SInv, QueueInv, clientVars, mailVars, rcptVars, Counts, FirstMailExists

LEMMA Replies ==
    ASSUME SmtpAssumption, NEW cmd \in {"greeting", "shutdown"}, NEW class \in {"2", "5"}
    PROVE  Reply(Cmd(cmd, 0), class, FALSE, {}) \in ReplyLines
  BY DEF Reply, Cmd, ReplyLines, SmtpAssumption

LEMMA TransactionEnds ==
    ASSUME SmtpAssumption, ServerInv,
           server' = [server EXCEPT !.mode = "command", !.mail = 0, !.rcpts = 0]
    PROVE  ServerInv'
<1>1. /\ server' = [mode |-> "command", mail |-> 0, rcpts |-> 0, tls |-> server.tls, auth |-> server.auth]
      /\ server.tls \in BOOLEAN /\ server.auth \in 0 .. 2
  BY DEF ServerInv, ServerStates
<1>2. 0 \in 0 .. MaxMails
  BY DEF SmtpAssumption
<1>3. server' \in ServerStates
  BY <1>1, <1>2 DEF ServerStates
<1>4. server'.rcpts = 0 /\ server'.mode = "command"
  BY <1>1
<1> QED BY <1>3, <1>4 DEF ServerInv

LEMMA AcceptStep ==
    ASSUME SmtpAssumption, SInv, NEW c \in CommandLines, Accept(c), server.mode # "data" \/ c.cmd = "body"
    PROVE  /\ toClient' \in Seq(ReplyLines)
           /\ ServerInv'
           /\ accepted' \subseteq 1 .. MaxMails
<1>1. /\ toClient \in Seq(ReplyLines) /\ accepted \subseteq 1 .. MaxMails
      /\ ServerInv
  BY DEF SInv, ConnectionInv
<1>2. c.cmd \in Commands /\ c.id \in 0 .. MaxMails /\ (c.cmd = "mail" => c.id # 0)
  BY DEF CommandLines
<1>3. \A class \in {"2", "3", "5"}, cont \in BOOLEAN, exts \in SUBSET Announced :
          Reply(c, class, cont, exts) \in ReplyLines
  BY <1>2 DEF Reply, ReplyLines
<1>4. toClient' \in Seq(ReplyLines)
  <2>1. CASE c.cmd = "ehlo"
    <3>1. PICK exts \in SUBSET Announced :
             toClient' = toClient \o
                IF exts = {} THEN <<Reply(c, "2", FALSE, {})>>
                ELSE <<Reply(c, "2", TRUE, {}), Reply(c, "2", FALSE, exts)>>
      BY <2>1 DEF Accept
    <3>2. /\ <<Reply(c, "2", FALSE, {})>> \in Seq(ReplyLines)
          /\ <<Reply(c, "2", TRUE, {}), Reply(c, "2", FALSE, exts)>> \in Seq(ReplyLines)
      <4> DEFINE one == Reply(c, "2", FALSE, {})
                 more == Reply(c, "2", TRUE, {})
                 last == Reply(c, "2", FALSE, exts)
      <4>1. one \in ReplyLines /\ more \in ReplyLines /\ last \in ReplyLines
        BY <1>3
      <4> HIDE DEF one, more, last
      <4>2. <<one>> \in Seq(ReplyLines) /\ <<more, last>> \in Seq(ReplyLines)
        BY <4>1
      <4> QED BY <4>2 DEF one, more, last
    <3> QED BY <1>1, <3>1, <3>2, ConcatProperties
  <2>2. CASE c.cmd # "ehlo"
    <3>1. Reply(c, PositiveClass(c), FALSE, {}) \in ReplyLines
      BY <1>3 DEF PositiveClass
    <3>2. toClient' = Append(toClient, Reply(c, PositiveClass(c), FALSE, {}))
      BY <2>2 DEF Accept
    <3> QED BY <1>1, <3>1, <3>2, AppendProperties
  <2> QED BY <2>1, <2>2
<1>5. ServerInv'
  <2>1. server' = AfterAccepting(c) /\ InOrder(c)
    BY DEF Accept
  <2>2. CASE c.cmd = "mail"
    BY <1>1, <1>2, <2>1, <2>2 DEF AfterAccepting, ServerInv, ServerStates
  <2>3. CASE c.cmd = "rcpt"
    BY <1>1, <2>1, <2>3 DEF AfterAccepting, InOrder, ServerInv, ServerStates
  <2>4. CASE c.cmd = "data"
    BY <1>1, <2>1, <2>4 DEF AfterAccepting, InOrder, ServerInv, ServerStates
  <2>5. CASE c.cmd = "auth"
    BY <1>1, <2>1, <2>5 DEF AfterAccepting, ServerInv, ServerStates
  <2>6. CASE c.cmd = "cred"
    BY <1>1, <2>1, <2>6 DEF AfterAccepting, InOrder, ServerInv, ServerStates
  <2>7. CASE c.cmd = "starttls"
    BY <1>1, <2>1, <2>7 DEF AfterAccepting, ServerInv, ServerStates
  <2>8. CASE c.cmd \in {"ehlo", "helo", "rset", "body"}
    <3>1. AfterAccepting(c) = [server EXCEPT !.mode = "command", !.mail = 0, !.rcpts = 0]
      BY <2>8 DEF AfterAccepting
    <3> QED BY <1>1, <2>1, <3>1, TransactionEnds
  <2> QED BY <1>2, <2>2, <2>3, <2>4, <2>5, <2>6, <2>7, <2>8 DEF Commands
<1>6. accepted' \subseteq 1 .. MaxMails
  BY <1>1 DEF Accept, InOrder, ServerInv, ServerStates
<1> QED BY <1>4, <1>5, <1>6

LEMMA RefuseStep ==
    ASSUME SmtpAssumption, SInv, NEW c \in CommandLines, Refuse(c)
    PROVE  /\ toClient' \in Seq(ReplyLines)
           /\ ServerInv'
           /\ accepted' \subseteq 1 .. MaxMails
<1>1. Reply(c, "5", FALSE, {}) \in ReplyLines
  BY DEF CommandLines, Reply, ReplyLines
<1>2. toClient' \in Seq(ReplyLines)
  BY <1>1, AppendProperties DEF Refuse, SInv, ConnectionInv
<1>3. ServerInv'
  <2>1. server' = AfterRefusing(c) /\ ServerInv
    BY DEF Refuse, SInv, ConnectionInv
  <2>2. CASE c.cmd = "body"
    <3>1. AfterRefusing(c) = [server EXCEPT !.mode = "command", !.mail = 0, !.rcpts = 0]
      BY <2>2 DEF AfterRefusing
    <3> QED BY <2>1, <3>1, TransactionEnds
  <2>3. CASE c.cmd = "cred"
    BY <2>1, <2>3 DEF AfterRefusing, ServerInv, ServerStates
  <2>4. CASE c.cmd \notin {"body", "cred"}
    BY <2>1, <2>4 DEF AfterRefusing, ServerInv
  <2> QED BY <2>2, <2>3, <2>4
<1> QED BY <1>2, <1>3 DEF Refuse, SInv, ConnectionInv

LEMMA ServeStep ==
    ASSUME SmtpAssumption, SInv, Serve
    PROVE  SInv'
<1>1. Head(toServer) \in CommandLines /\ toServer' \in Seq(CommandLines)
  BY HeadTailProperties DEF Serve, SInv, QueueInv
<1>2. QueueInv'
  BY <1>1, ServerStep DEF Serve
<1>3. /\ toClient' \in Seq(ReplyLines)
      /\ ServerInv'
      /\ accepted' \subseteq 1 .. MaxMails
  <2>1. CASE UNCHANGED <<toClient, serverVars>>
    BY <2>1 DEF serverVars, ServerInv, SInv, ConnectionInv
  <2>2. CASE Accept(Head(toServer)) /\ (server.mode # "data" \/ Head(toServer).cmd = "body")
    BY <1>1, <2>2, AcceptStep
  <2>3. CASE Refuse(Head(toServer))
    BY <1>1, <2>3, RefuseStep
  <2> QED BY <2>1, <2>2, <2>3 DEF Serve
<1>4. ConnectionInv'
  BY <1>3 DEF Serve, clientVars, loginVars, mailVars, SInv, ConnectionInv
<1> QED BY <1>2, <1>4 DEF SInv

LEMMA NewServerInv ==
    ASSUME SmtpAssumption
    PROVE  /\ server = NewServer => ServerInv
           /\ server' = NewServer => ServerInv'
<1>1. 0 \in 0 .. MaxMails
  BY DEF SmtpAssumption
<1>2. NewServer \in ServerStates
  BY <1>1 DEF NewServer, ServerStates
<1>3. NewServer.rcpts = 0 /\ NewServer.mode = "command"
  BY DEF NewServer
<1> QED BY <1>2, <1>3 DEF ServerInv

LEMMA WelcomeStep ==
    ASSUME SmtpAssumption, SInv, Welcome
    PROVE  SInv'
<1>1. toClient' \in Seq(ReplyLines)
  <2>1. \A class \in {"2", "5"} : Reply(Cmd("greeting", 0), class, FALSE, {}) \in ReplyLines
    BY Replies
  <2>2. \A line \in ReplyLines : <<line>> \in Seq(ReplyLines)
    OBVIOUS
  <2> QED BY <2>1, <2>2 DEF Welcome
<1>2. QueueInv'
  BY ServerStep DEF Welcome, SInv, QueueInv
<1>3. ServerInv'
  BY NewServerInv DEF Welcome
<1>4. ConnectionInv'
  BY <1>1, <1>3 DEF Welcome, clientVars, loginVars, mailVars, SInv, ConnectionInv
<1> QED BY <1>2, <1>4 DEF SInv

LEMMA ShutdownStep ==
    ASSUME SmtpAssumption, SInv, Shutdown
    PROVE  SInv'
<1>1. toClient' \in Seq(ReplyLines)
  <2>1. Reply(Cmd("shutdown", 0), "5", FALSE, {}) \in ReplyLines
    BY Replies
  <2> QED BY <2>1, AppendProperties DEF Shutdown, SInv, ConnectionInv
<1>2. QueueInv'
  BY ServerStep DEF Shutdown, SInv, QueueInv
<1>3. ConnectionInv'
  BY <1>1 DEF Shutdown, ServerInv, ServerStates, clientVars, loginVars, mailVars, SInv, ConnectionInv
<1> QED BY <1>2, <1>3 DEF SInv

LEMMA HangupStep ==
    ASSUME SInv, Hangup
    PROVE  SInv'
<1>1. QueueInv'
  BY Closed, ServerStep DEF Hangup
<1>2. ConnectionInv'
  BY Closed DEF Hangup, clientVars, serverVars, loginVars, mailVars, SInv, ConnectionInv, ServerInv
<1> QED BY <1>1, <1>2 DEF SInv

-----------------------------------------------------------------------------
LEMMA SInvStep == SInv /\ [Next]_vars => SInv'
<1> SUFFICES ASSUME SInv, [Next]_vars PROVE SInv'
  OBVIOUS
<1> USE SmtpAssumption
<1>1. CASE Application
  BY <1>1, SendStep, ConnectStep, LoseConnectionStep DEF Application
<1>2. CASE SocketRead
  BY <1>2, ReadGreetingStep, ReadEhloStep, ReadStartTLSStep, ReadAuthStep, ReadAuthResultStep,
     ReadRcptAnswerStep, ReadDataAnswerStep, ReadBodyAnswerStep, ReadResetAnswerStep,
     IgnoreLineStep
     DEF SocketRead
<1>3. CASE Server
  BY <1>3, ServeStep, WelcomeStep, HangupStep DEF Server
<1>4. CASE Shutdown
  BY <1>4, ShutdownStep
<1>5. CASE UNCHANGED vars
  BY <1>5 DEF vars, loginVars, rcptVars, mailVars, netVars, serverVars, SInv, QueueInv,
              ConnectionInv, ServerInv, Counts, FirstMailExists
<1> QED BY <1>1, <1>2, <1>3, <1>4, <1>5 DEF Next

LEMMA SInvInitially == Init => SInv
<1> SUFFICES ASSUME Init PROVE SInv
  OBVIOUS
<1>1. \A S : <<>> \in Seq(S)
  BY EmptySeq
<1>2. ServerInv
  BY NewServerInv, SmtpAssumption DEF Init
<1>3. QueueInv
  <2>1. Counts /\ FirstMailExists
    BY DEF Init, Counts, FirstMailExists
  <2>2. 0 \in 0 .. MaxRecipients
    BY SmtpAssumption DEF SmtpAssumption
  <2>3. /\ state \in States /\ pending \in Seq(Mails) /\ toServer \in Seq(CommandLines)
        /\ failed \subseteq 1 .. MaxMails
    BY <1>1 DEF Init, States
  <2>4. /\ recipients \in 0 .. MaxRecipients /\ rcptNumber \in 0 .. MaxRecipients
        /\ rcptAck \in 0 .. MaxRecipients /\ mailAck \in BOOLEAN
    BY <2>2 DEF Init
  <2> QED BY <2>1, <2>3, <2>4 DEF QueueInv
<1>4. ConnectionInv
  BY <1>1, <1>2, SmtpAssumption DEF Init, ConnectionInv, SmtpAssumption
<1> QED BY <1>3, <1>4 DEF SInv

LEMMA SInvHolds == Spec => []SInv
  BY SInvInitially, SInvStep, PTL DEF Spec

\* Every variable keeps its type, whatever the server announces and refuses:
\* the client's counters of recipients stay within the mail it sends.
THEOREM TypeCorrect == Spec => []TypeOK
<1>1. SInv => TypeOK
  <2> SUFFICES ASSUME SInv PROVE TypeOK
    OBVIOUS
  <2>1. CommandLines \subseteq [cmd : Commands, id : 0 .. MaxMails]
    BY DEF CommandLines
  <2>2. toServer \in Seq([cmd : Commands, id : 0 .. MaxMails])
    BY <2>1, SeqMonotonic DEF SInv, QueueInv
  <2> QED BY <2>2 DEF SInv, QueueInv, ConnectionInv, ServerInv, ServerStates, TypeOK, ReplyLines
<1> QED BY <1>1, SInvHolds, PTL

\* Wherever socketRead() takes pending.first() there is a first mail, however
\* often the connection is lost and whatever the server answers.
THEOREM FirstMailStaysThere == Spec => []FirstMailExists
<1>1. SInv => FirstMailExists
  BY DEF SInv, QueueInv
<1> QED BY <1>1, SInvHolds, PTL

-----------------------------------------------------------------------------
(***************************************************************************)
(* The client and the server in lockstep.                                  *)
(*                                                                         *)
(* socketRead() acts on its state alone, so every line must be the answer  *)
(* to the command that the state stands for.  The invariant says, for each *)
(* state, what is in flight and what the server was told.  Once the server *)
(* said that it closes the connection, only the lines it wrote before      *)
(* count.  It holds if a server that pipelines refuses no sender, recipient*)
(* or data: after such a refusal the answers to the other commands of the  *)
(* group are taken for those to later ones.                                *)
(***************************************************************************)
NoRefusalInPipeline == RefusableInPipeline \cap {"mail", "rcpt", "data"} = {}

Lines == IF server.mode = "closing" THEN Len(toClient) - 1 ELSE Len(toClient)
Pipelined == "PIPELINING" \in ext

\* Exactly one command is on its way, or the only line of its answer.
Awaits(c) ==
    \/ Lines = 0 /\ Len(toServer) = 1 /\ toServer[1].cmd = c
    \/ Lines = 1 /\ Len(toServer) = 0 /\ toClient[1].cmd = c /\ ~toClient[1].cont

LoginStates == {"StartState", "EhloSent", "EhloGreetReceived", "HeloSent", "StartTLSSent",
                "AuthRequestSent", "AuthUsernameSent", "AuthSent"}

LoginInStep ==
    /\ server.mode # "data" /\ server.mail = 0
    /\ state = "StartState" => Lines = 1 /\ Len(toServer) = 0 /\ toClient[1].cmd = "greeting"
    /\ state = "EhloSent" =>
          \/ Awaits("ehlo")
          \/ /\ Lines = 2 /\ Len(toServer) = 0
             /\ toClient[1].cmd = "ehlo" /\ toClient[1].class = "2" /\ toClient[1].cont
             /\ toClient[2].cmd = "ehlo" /\ toClient[2].class = "2" /\ ~toClient[2].cont
    /\ state = "EhloGreetReceived" =>
          /\ Lines = 1 /\ Len(toServer) = 0
          /\ toClient[1].cmd = "ehlo" /\ toClient[1].class = "2" /\ ~toClient[1].cont
    /\ state = "HeloSent" => Awaits("helo")
    /\ state = "StartTLSSent" => Awaits("starttls")
    /\ state = "AuthRequestSent" => Awaits("auth")
    /\ state \in {"AuthUsernameSent", "AuthSent"} => Awaits("cred")

\* One by one: the sender, then as many recipients as were acknowledged.
MailInStep ==
    /\ server.mode # "data"
    /\ Awaits(IF rcptNumber = 0 THEN "mail" ELSE "rcpt")
    /\ Lines = 0 => /\ toServer[1].id = First
                    /\ rcptNumber > 0 => server.mail = First /\ server.rcpts + 1 = rcptNumber
    /\ Lines = 1 /\ toClient[1].class = "2" => server.mail = First /\ server.rcpts = rcptNumber

\* In a pipeline: what the client has not counted is in flight, one way or the other.
PipelineInStep ==
    /\ server.mode # "data"
    /\ Len(toServer) + Lines + rcptNumber = recipients + 1
    /\ \A i \in 1 .. Lines : toClient[i].cmd \in {"mail", "rcpt"} /\ toClient[i].class = "2"
    /\ \A i \in 1 .. Len(toServer) :
          /\ toServer[i].id = First
          /\ toServer[i].cmd = IF i = 1 /\ Len(toServer) = recipients + 1 THEN "mail" ELSE "rcpt"
    /\ IF Len(toServer) = recipients + 1 THEN server.mail = 0
       ELSE server.mail = First /\ server.rcpts + Len(toServer) = recipients

DataInStep ==
    /\ Awaits("data")
    /\ server.mail = First /\ server.rcpts = recipients
    /\ Lines = 0 => toServer[1].id = First /\ server.mode # "data"
    /\ Lines = 1 => /\ toClient[1].class = "3" <=> server.mode = "data"
                    /\ Pipelined => toClient[1].class = "3"

BodyInStep ==
    \/ /\ Lines = 0 /\ Len(toServer) = 1 /\ toServer[1].cmd = "body" /\ toServer[1].id = First
       /\ server.mode = "data" /\ server.mail = First /\ server.rcpts = recipients
    \/ /\ Lines = 1 /\ Len(toServer) = 0 /\ toClient[1].cmd = "body"
       /\ server.mode # "data" /\ server.mail = 0
    \/ Awaits("rset") /\ ~Pipelined /\ server.mode # "data"

ResetInStep ==
    /\ server.mode # "data"
    /\ \/ Lines = 0 /\ Len(toServer) = 0
       \/ Awaits("rset") /\ (Lines = 1 /\ toClient[1].class = "2" => server.mail = 0)

IdleInStep ==
    /\ server.mode # "data" /\ Lines = 0 /\ Len(toServer) = 0
    /\ Pipelined => server.mail = 0

InStep ==
    /\ state # "Disconnected"
    /\ state \in LoginStates => LoginInStep
    /\ state = "MailToSent" => MailInStep
    /\ state = "RcptAckPending" => PipelineInStep
    /\ state = "SendingBody" => DataInStep
    /\ state = "BodySent" => BodyInStep
    /\ state = "Resetting" => ResetInStep
    /\ state = "Waiting" => IdleInStep

LastIsShutdown ==
    toClient # <<>> => toClient[Len(toClient)].cmd = "shutdown" /\ toClient[Len(toClient)].class = "5"

Connected ==
    /\ server.mode = "closing" => LastIsShutdown /\ (Lines >= 1 => Len(toServer) = 0)
    /\ server.mode # "closing" \/ Lines >= 1 => InStep

StateFits ==
    /\ state = "MailToSent" => ~Pipelined
    /\ state = "RcptAckPending" => Pipelined
    /\ state \in {"MailToSent", "RcptAckPending", "SendingBody"} => recipients > 0

Lockstep ==
    /\ StateFits
    /\ link # "up" => toServer = <<>> /\ toClient = <<>>
    /\ link = "connecting" => state = "StartState"
    /\ state = "Disconnected" => link = "down"
    /\ link = "up" => Connected

-----------------------------------------------------------------------------
(* What reading, writing and closing do to the lines and commands.         *)

LEMMA Lengths ==
    ASSUME SInv
    PROVE  /\ Len(toClient) \in Nat /\ Len(toServer) \in Nat
           /\ toClient = <<>> <=> Len(toClient) = 0
           /\ toServer = <<>> <=> Len(toServer) = 0
           /\ \A i \in 1 .. Len(toClient) : toClient[i] \in ReplyLines
           /\ \A i \in 1 .. Len(toServer) : toServer[i] \in CommandLines
           /\ Lines \in Int /\ Lines <= Len(toClient) /\ Lines + 1 >= Len(toClient)
           /\ server.mode # "closing" => Lines = Len(toClient)
<1>1. toClient \in Seq(ReplyLines) /\ toServer \in Seq(CommandLines)
  BY DEF SInv, QueueInv, ConnectionInv
<1>2. Len(toClient) \in Nat /\ Len(toServer) \in Nat
  BY <1>1, LenProperties
<1>3. /\ toClient = <<>> <=> Len(toClient) = 0
      /\ toServer = <<>> <=> Len(toServer) = 0
  BY <1>1, EmptySeq
<1>4. /\ \A i \in 1 .. Len(toClient) : toClient[i] \in ReplyLines
      /\ \A i \in 1 .. Len(toServer) : toServer[i] \in CommandLines
  BY <1>1, ElementOfSeq
<1> QED BY <1>2, <1>3, <1>4 DEF Lines

LEMMA ReadLine ==
    ASSUME SInv, toClient # <<>>, Consume
    PROVE  /\ Line = toClient[1] /\ link' = link
           /\ Len(toClient') = Len(toClient) - 1
           /\ \A i \in 1 .. Len(toClient') : toClient'[i] = toClient[i + 1]
           /\ server' = server => Lines' = Lines - 1
<1>1. toClient \in Seq(ReplyLines)
  BY DEF SInv, ConnectionInv
<1>2. /\ Head(toClient) = toClient[1]
      /\ Len(Tail(toClient)) = Len(toClient) - 1
      /\ \A i \in 1 .. Len(Tail(toClient)) : Tail(toClient)[i] = toClient[i + 1]
  BY <1>1, HeadTailProperties, LenProperties
<1> QED BY <1>2, Lengths DEF Consume, Line, Lines

LEMMA SaidOne ==
    ASSUME SmtpAssumption, SInv, link = "up", Len(toServer) = 0,
           NEW c \in Commands, NEW id \in 0 .. MaxMails, Transmit(<<Cmd(c, id)>>)
    PROVE  Len(toServer') = 1 /\ toServer'[1].cmd = c /\ toServer'[1].id = id
<1>1. toServer = <<>>
  BY Lengths
<1>2. toServer' = <<>> \o <<Cmd(c, id)>>
  BY <1>1 DEF Transmit
<1>3. \A x : <<>> \o <<x>> = <<x>>
  OBVIOUS
<1>4. toServer' = <<Cmd(c, id)>>
  BY <1>2, <1>3
<1> QED BY <1>4 DEF Cmd

LEMMA SaidNothing ==
    ASSUME SInv, Transmit(<<>>)
    PROVE  toServer' = toServer
<1>1. toServer \in Seq(CommandLines)
  BY DEF SInv, QueueInv
<1> QED BY <1>1, ConcatEmptySeq DEF Transmit

\* A line that is not the server's farewell answers what the state stands for.
LEMMA CurrentLine ==
    ASSUME SInv, Lockstep, toClient # <<>>
    PROVE  /\ link = "up"
           /\ Lines >= 1 => InStep
           /\ Lines < 1 => toClient[1].cmd = "shutdown" /\ toClient[1].class = "5"
<1>1. link = "up" /\ Connected
  BY DEF Lockstep
<1>2. Lines < 1 => server.mode = "closing" /\ Len(toClient) = 1
  BY Lengths DEF Lines
<1> QED BY <1>1, <1>2, Lengths DEF Connected, LastIsShutdown

\* The client reads a line and goes on.
LEMMA ReadInStep ==
    ASSUME SInv, Lockstep, SInv', toClient # <<>>, Consume, UNCHANGED server,
           StateFits', state' # "Disconnected",
           Lines >= 1 => InStep',
           Lines >= 2 /\ server.mode = "closing" => Len(toServer') = 0
    PROVE  Lockstep'
<1>1. link' = "up" /\ Connected
  BY CurrentLine, ReadLine DEF Lockstep
<1>2. /\ Lines \in Int /\ Lines' = Lines - 1 /\ Len(toClient) \in Nat
      /\ Len(toClient') = Len(toClient) - 1
      /\ toClient' # <<>> => Len(toClient') >= 1
      /\ \A i \in 1 .. Len(toClient') : toClient'[i] = toClient[i + 1]
  <2>1. toClient' # <<>> => Len(toClient') >= 1
    <3>1. toClient' \in Seq(ReplyLines)
      BY DEF SInv, ConnectionInv
    <3> QED BY <3>1, EmptySeq, LenProperties
  <2> QED BY <2>1, Lengths, ReadLine
<1>3. server.mode = "closing" => LastIsShutdown'
  <2> SUFFICES ASSUME server.mode = "closing", toClient' # <<>>
               PROVE  toClient'[Len(toClient')] = toClient[Len(toClient)]
    BY <1>1 DEF Connected, LastIsShutdown
  <2>1. Len(toClient') \in 1 .. Len(toClient')
    BY <1>2
  <2> QED BY <1>2, <2>1
<1>4. server.mode # "closing" => Lines >= 1
  BY Lengths
<1>5. Connected'
  BY <1>2, <1>3, <1>4 DEF Connected
<1> QED BY <1>1, <1>5 DEF Lockstep

LEMMA ClosedInStep ==
    ASSUME Lockstep, Close, StateFits'
    PROVE  Lockstep'
  BY DEF Lockstep, Close

-----------------------------------------------------------------------------
(* sendNext().                                                             *)

LEMMA ReadyMail ==
    ASSUME NEW queue \in Seq(Mails), Kept(queue) # <<>>
    PROVE  Head(Kept(queue)) \in Mails /\ Head(Kept(queue)).rcpts > 0
<1> DEFINE first == CHOOSE i \in Ready(queue) : \A j \in Ready(queue) : i <= j
<1>1. /\ Len(queue) \in Nat /\ DOMAIN queue = 1 .. Len(queue)
      /\ \A i \in 1 .. Len(queue) : queue[i] \in Mails
  BY LenProperties, ElementOfSeq
<1>2. Ready(queue) # {} /\ Kept(queue) = SubSeq(queue, first, Len(queue))
  BY DEF Kept
<1>3. \E i \in Ready(queue) : \A j \in Ready(queue) : i <= j
  <2>1. Ready(queue) \in SUBSET Nat
    BY <1>1 DEF Ready
  <2> QED BY <1>2, <2>1, LeastNumber
<1>4. first \in Ready(queue)
  BY <1>3
<1> HIDE DEF first
<1>5. first \in 1 .. Len(queue) /\ queue[first].rcpts > 0
  BY <1>1, <1>4 DEF Ready
<1>6. SubSeq(queue, first, Len(queue))[1] = queue[first]
  BY <1>1, <1>5, SubSeqProperties
<1>7. Kept(queue) \in Seq(Mails)
  BY KeptMails
<1>8. Head(Kept(queue)) = Kept(queue)[1]
  BY <1>7, HeadTailProperties
<1> QED BY <1>1, <1>2, <1>5, <1>6, <1>8

LEMMA NextState ==
    ASSUME SInv, StateFits, NEW from, NEW queue \in Seq(Mails), NEW fails,
           SendNext(from, queue, fails), from = "Waiting" => ext' = ext
    PROVE  /\ StateFits' /\ state' # "Disconnected"
           /\ state' \in {"Waiting", "Resetting", "MailToSent", "RcptAckPending"}
           /\ from # "Waiting" => state' \in {"Waiting", "Resetting"}
<1>1. CASE state' \in {"Waiting", "Resetting"}
  BY <1>1 DEF StateFits
<1>2. CASE from = "Waiting" /\ Kept(queue) # <<>> /\ StartMail(Head(Kept(queue)))
  BY <1>2, ReadyMail DEF StateFits, StartMail, Pipelined
<1> QED BY <1>1, <1>2 DEF SendNext

\* The first commands for a mail.
LEMMA MailStarts ==
    ASSUME SmtpAssumption, SInv, link = "up", Lines' = 0, Len(toServer) = 0,
           UNCHANGED <<server, ext>>, server.mode # "data", Pipelined => server.mail = 0,
           NEW m \in Mails, m.rcpts > 0, StartMail(m), pending' # <<>>, Head(pending') = m
    PROVE  InStep'
<1>1. First' = m.id /\ m.id \in 0 .. MaxMails /\ m.rcpts \in Nat /\ recipients' = m.rcpts /\ rcptNumber' = 0
  BY DEF First, StartMail, Mails, SmtpAssumption
<1>2. "mail" \in Commands /\ "rcpt" \in Commands
  BY DEF Commands
<1>3. CASE state' = "MailToSent" /\ Transmit(<<Cmd("mail", m.id)>>)
  <2>1. Len(toServer') = 1 /\ toServer'[1].cmd = "mail" /\ toServer'[1].id = m.id
    BY <1>1, <1>2, <1>3, SaidOne
  <2>2. MailInStep'
    BY <1>1, <2>1 DEF MailInStep, Awaits
  <2> QED BY <1>3, <2>2 DEF InStep, LoginStates
<1>4. CASE /\ state' = "RcptAckPending" /\ "PIPELINING" \in ext
           /\ Transmit(<<Cmd("mail", m.id)>> \o [i \in 1 .. m.rcpts |-> Cmd("rcpt", m.id)])
  <2> DEFINE rcpts == [i \in 1 .. m.rcpts |-> Cmd("rcpt", m.id)]
             cmds == <<Cmd("mail", m.id)>> \o rcpts
             Any == [cmd : Commands, id : 0 .. MaxMails]
  <2>1. Cmd("mail", m.id) \in Any /\ Cmd("rcpt", m.id) \in Any
    BY <1>1, <1>2 DEF Cmd
  <2>2. rcpts \in Seq(Any) /\ Len(rcpts) = m.rcpts /\ \A i \in 1 .. m.rcpts : rcpts[i] = Cmd("rcpt", m.id)
    <3>1. rcpts \in [1 .. m.rcpts -> Any]
      BY <2>1
    <3> HIDE DEF Any
    <3>2. rcpts \in Seq(Any)
      BY <1>1, <3>1, SeqDef
    <3> QED BY <1>1, <3>1, <3>2, LenProperties
  <2>3. ASSUME NEW first \in Any
        PROVE  <<first>> \in Seq(Any) /\ Len(<<first>>) = 1 /\ <<first>>[1] = first
    OBVIOUS
  <2> HIDE DEF rcpts, Any
  <2>4. /\ cmds \in Seq(Any) /\ Len(cmds) = m.rcpts + 1
        /\ cmds[1] = Cmd("mail", m.id)
        /\ \A i \in 2 .. m.rcpts + 1 : cmds[i] = Cmd("rcpt", m.id)
    BY <1>1, <2>1, <2>2, <2>3, ConcatProperties
  <2>5. toServer' = cmds
    <3>1. toServer = <<>>
      BY Lengths
    <3>2. toServer' = <<>> \o cmds
      BY <1>4, <3>1 DEF Transmit, rcpts
    <3> QED BY <2>4, <3>2, ConcatEmptySeq
  <2> HIDE DEF cmds
  <2>6. /\ Len(toServer') = recipients' + 1 /\ server'.mail = 0
        /\ \A i \in 1 .. Len(toServer') :
              /\ toServer'[i].id = m.id
              /\ toServer'[i].cmd = IF i = 1 THEN "mail" ELSE "rcpt"
    BY <1>1, <1>4, <2>4, <2>5 DEF Cmd, Pipelined
  <2>7. PipelineInStep'
    BY <1>1, <2>6 DEF PipelineInStep
  <2> QED BY <1>4, <2>7 DEF InStep, LoginStates
<1> QED BY <1>3, <1>4 DEF StartMail

LEMMA SendNextInStep ==
    ASSUME SmtpAssumption, SInv, link = "up", Lines' = 0, Len(toServer) = 0,
           UNCHANGED server, server.mode # "data", Pipelined' => server.mail = 0,
           NEW from, NEW queue \in Seq(Mails), NEW fails, SendNext(from, queue, fails),
           from = "Waiting" => ext' = ext
    PROVE  InStep'
<1>1. CASE state' = "Waiting" /\ Transmit(<<>>)
  <2>1. toServer' = toServer
    BY <1>1, SaidNothing
  <2>2. IdleInStep'
    BY <1>1, <2>1 DEF IdleInStep
  <2> QED BY <1>1, <2>2 DEF InStep, LoginStates
<1>2. CASE state' = "Resetting" /\ Transmit(<<Cmd("rset", 0)>>)
  <2>1. Len(toServer') = 1 /\ toServer'[1].cmd = "rset"
    BY <1>2, SaidOne DEF Commands, SmtpAssumption
  <2>2. ResetInStep'
    BY <2>1 DEF ResetInStep, Awaits
  <2> QED BY <1>2, <2>2 DEF InStep, LoginStates
<1>3. CASE /\ from = "Waiting" /\ Kept(queue) # <<>> /\ pending' = Kept(queue)
           /\ StartMail(Head(Kept(queue)))
  <2> DEFINE m == Head(Kept(queue))
  <2>1. m \in Mails /\ m.rcpts > 0
    BY <1>3, ReadyMail
  <2>2. Pipelined => server.mail = 0
    BY <1>3 DEF Pipelined
  <2>3. StartMail(m) /\ pending' # <<>> /\ Head(pending') = m /\ ext' = ext
    BY <1>3
  <2> HIDE DEF m
  <2> QED BY <2>1, <2>2, <2>3, MailStarts
<1> QED BY <1>1, <1>2, <1>3 DEF SendNext

-----------------------------------------------------------------------------
(* The client's actions in lockstep.                                       *)

LEMMA AuthenticateInStep ==
    ASSUME SmtpAssumption, SInv, link = "up", Lines' = 0, Len(toServer) = 0,
           UNCHANGED server, server.mode # "data", server.mail = 0,
           NEW exts, Authenticate(exts)
    PROVE  InStep'
<1>1. CASE Transmit(<<Cmd("auth", 0)>>) /\ state' = "AuthRequestSent"
  <2>1. Len(toServer') = 1 /\ toServer'[1].cmd = "auth"
    BY <1>1, SaidOne DEF Commands, SmtpAssumption
  <2>2. LoginInStep'
    BY <1>1, <2>1 DEF LoginInStep, Awaits
  <2> QED BY <1>1, <2>2 DEF InStep, LoginStates
<1>2. CASE SendNext("Authenticated", pending, {})
  <2>1. pending \in Seq(Mails)
    BY DEF SInv, QueueInv
  <2> QED BY <1>2, <2>1, SendNextInStep
<1> QED BY <1>1, <1>2 DEF Authenticate

LEMMA AuthenticateState ==
    ASSUME SInv, StateFits, NEW exts, Authenticate(exts)
    PROVE  StateFits' /\ state' # "Disconnected"
<1>1. CASE state' = "AuthRequestSent"
  BY <1>1 DEF StateFits
<1>2. CASE SendNext("Authenticated", pending, {})
  BY <1>2, NextState DEF SInv, QueueInv
<1> QED BY <1>1, <1>2 DEF Authenticate

LEMMA GreetingInStep ==
    ASSUME SmtpAssumption, SInv, Lockstep, SInv', ReadGreeting
    PROVE  Lockstep'
<1>1. CASE SayEhlo /\ Consume
  <2>1. StateFits' /\ state' # "Disconnected" /\ state' = "EhloSent"
    BY <1>1 DEF SayEhlo, StateFits
  <2>2. ASSUME Lines >= 1 PROVE Lines = 1 /\ InStep'
    <3>1. link = "up" /\ InStep
      BY <2>2, CurrentLine DEF ReadGreeting
    <3>2. LoginInStep /\ Lines = 1 /\ Len(toServer) = 0
      BY <3>1 DEF ReadGreeting, InStep, LoginStates, LoginInStep
    <3>3. Len(toServer') = 1 /\ toServer'[1].cmd = "ehlo"
      BY <1>1, <3>1, <3>2, SaidOne DEF SayEhlo, Commands, SmtpAssumption
    <3>4. Lines' = 0 /\ server' = server
      BY <1>1, <3>2, ReadLine DEF ReadGreeting, serverVars
    <3>5. LoginInStep'
      BY <2>1, <3>2, <3>3, <3>4 DEF LoginInStep, Awaits
    <3> QED BY <2>1, <3>2, <3>5 DEF InStep, LoginStates
  <2>3. toClient # <<>> /\ UNCHANGED server
    BY DEF ReadGreeting, serverVars
  <2> QED BY <1>1, <2>1, <2>2, <2>3, Lengths, ReadInStep
<1>2. CASE state' = "Disconnected" /\ Close
  BY <1>2, ClosedInStep DEF StateFits
<1> QED BY <1>1, <1>2 DEF ReadGreeting

\* The answers to EHLO and HELO, line by line.
LEMMA EhloInStep ==
    ASSUME SmtpAssumption, SInv, Lockstep, SInv', ReadEhlo
    PROVE  Lockstep'
<1> DEFINE exts == IF state = "EhloGreetReceived" THEN Line.ext ELSE {}
<1>1. /\ toClient # <<>> /\ UNCHANGED server /\ link = "up" /\ StateFits
      /\ state \in {"HeloSent", "EhloSent", "EhloGreetReceived"}
  BY CurrentLine DEF ReadEhlo, serverVars, Lockstep
<1>2. CASE Close /\ UNCHANGED <<state, loginVars, rcptVars>>
  BY <1>2, ClosedInStep DEF Lockstep, StateFits, Pipelined, loginVars, rcptVars
<1>3. ASSUME Consume, Lines >= 1
      PROVE  /\ LoginInStep /\ server.mode # "data" /\ server.mail = 0 /\ Len(toServer) = 0
             /\ Lines' = Lines - 1
             /\ Lines = 1 \/ Lines = 2
             /\ state # "EhloSent" => Lines = 1
             /\ Line.cont => state = "EhloSent" /\ Lines = 2
             /\ Lines = 2 => /\ state = "EhloSent" /\ Ok /\ Line.cont
                             /\ toClient'[1].cmd = "ehlo" /\ toClient'[1].class = "2" /\ ~toClient'[1].cont
  <2>1. LoginInStep
    BY <1>1, <1>3, CurrentLine DEF InStep, LoginStates
  <2>2. /\ Line = toClient[1] /\ Lines' = Lines - 1 /\ Len(toClient') = Len(toClient) - 1
        /\ \A i \in 1 .. Len(toClient') : toClient'[i] = toClient[i + 1]
    BY <1>1, <1>3, ReadLine
  <2>3. Lines = 2 => toClient'[1] = toClient[2]
    BY <2>2, Lengths
  <2>4. /\ Len(toServer) = 0 /\ (Lines = 1 \/ Lines = 2)
        /\ state # "EhloSent" => Lines = 1
        /\ Line.cont => state = "EhloSent" /\ Lines = 2
    BY <1>1, <1>3, <2>1, <2>2 DEF LoginInStep, Awaits
  <2>5. Lines = 2 => /\ state = "EhloSent" /\ Ok /\ Line.cont
                     /\ toClient[2].cmd = "ehlo" /\ toClient[2].class = "2" /\ ~toClient[2].cont
    BY <1>1, <2>1, <2>2 DEF LoginInStep, Awaits, Ok
  <2> QED BY <2>1, <2>2, <2>3, <2>4, <2>5 DEF LoginInStep
<1>4. ASSUME Consume, StateFits', state' # "Disconnected", Lines >= 1 => InStep',
             Lines >= 2 => Len(toServer') = 0
      PROVE  Lockstep'
  BY <1>1, <1>4, ReadInStep
<1>5. CASE ~Ok /\ Transmit(<<Cmd("helo", 0)>>) /\ state' = "HeloSent" /\ Consume
  <2>1. StateFits' /\ state' # "Disconnected"
    BY <1>5 DEF StateFits
  <2>2. ASSUME Lines >= 1 PROVE Lines = 1 /\ InStep'
    <3>1. Len(toServer) = 0 /\ Lines = 1 /\ Lines' = 0 /\ server.mode # "data" /\ server.mail = 0
      BY <1>3, <1>5, <2>2
    <3>2. Len(toServer') = 1 /\ toServer'[1].cmd = "helo"
      BY <1>1, <1>5, <3>1, SaidOne DEF Commands, SmtpAssumption
    <3>3. LoginInStep'
      BY <1>1, <1>5, <3>1, <3>2 DEF LoginInStep, Awaits
    <3> QED BY <1>5, <3>1, <3>3 DEF InStep, LoginStates
  <2> QED BY <1>4, <1>5, <2>1, <2>2, Lengths
<1>6. CASE Line.cont /\ state' = "EhloGreetReceived" /\ Transmit(<<>>) /\ Consume
  <2>1. StateFits' /\ state' # "Disconnected"
    BY <1>6 DEF StateFits
  <2>2. toServer' = toServer
    BY <1>6, SaidNothing
  <2>3. ASSUME Lines >= 1 PROVE Len(toServer') = 0 /\ InStep'
    <3>1. LoginInStep'
      BY <1>1, <1>3, <1>6, <2>2, <2>3 DEF LoginInStep
    <3> QED BY <1>3, <1>6, <2>2, <2>3, <3>1 DEF InStep, LoginStates
  <2> QED BY <1>4, <1>6, <2>1, <2>3, Lengths
<1>7. CASE /\ ~Line.cont /\ Transmit(<<Cmd("starttls", 0)>>) /\ state' = "StartTLSSent" /\ Consume
  <2>1. StateFits' /\ state' # "Disconnected"
    BY <1>7 DEF StateFits
  <2>2. ASSUME Lines >= 1 PROVE Lines = 1 /\ InStep'
    <3>1. Len(toServer) = 0 /\ Lines = 1 /\ Lines' = 0 /\ server.mode # "data" /\ server.mail = 0
      BY <1>3, <1>7, <2>2
    <3>2. Len(toServer') = 1 /\ toServer'[1].cmd = "starttls"
      BY <1>1, <1>7, <3>1, SaidOne DEF Commands, SmtpAssumption
    <3>3. LoginInStep'
      BY <1>1, <1>7, <3>1, <3>2 DEF LoginInStep, Awaits
    <3> QED BY <1>7, <3>1, <3>3 DEF InStep, LoginStates
  <2> QED BY <1>4, <1>7, <2>1, <2>2, Lengths
<1>8. CASE ~Line.cont /\ Authenticate(exts) /\ Consume
  <2> HIDE DEF exts
  <2>1. StateFits' /\ state' # "Disconnected"
    BY <1>1, <1>8, AuthenticateState
  <2>2. ASSUME Lines >= 1 PROVE Lines = 1 /\ InStep'
    <3>1. Len(toServer) = 0 /\ Lines = 1 /\ Lines' = 0 /\ server.mode # "data" /\ server.mail = 0
      BY <1>3, <1>8, <2>2
    <3> QED BY <1>1, <1>8, <3>1, AuthenticateInStep
  <2> QED BY <1>4, <1>8, <2>1, <2>2, Lengths
<1> HIDE DEF exts
<1> QED BY <1>2, <1>5, <1>6, <1>7, <1>8 DEF ReadEhlo, exts

\* A state that waits for the one line that answers command c.
LEMMA AnswerIsRead ==
    ASSUME SInv, Lockstep, toClient # <<>>, Consume, UNCHANGED server, Lines >= 1, NEW c, Awaits(c)
    PROVE  Lines = 1 /\ Lines' = 0 /\ Len(toServer) = 0 /\ link = "up" /\ Line.cmd = c /\ ~Line.cont
  BY ReadLine, CurrentLine DEF Awaits

LEMMA StartTLSInStep ==
    ASSUME SmtpAssumption, SInv, Lockstep, SInv', ReadStartTLS
    PROVE  Lockstep'
<1>1. toClient # <<>> /\ UNCHANGED server /\ link = "up" /\ StateFits /\ state = "StartTLSSent" /\ Consume
  BY CurrentLine DEF ReadStartTLS, serverVars, Lockstep
<1>2. ASSUME Lines >= 1
      PROVE  Len(toServer) = 0 /\ Lines = 1 /\ Lines' = 0 /\ server.mode # "data" /\ server.mail = 0
  <2>1. LoginInStep /\ Awaits("starttls")
    BY <1>1, <1>2, CurrentLine DEF InStep, LoginStates, LoginInStep
  <2> QED BY <1>1, <1>2, <2>1, AnswerIsRead DEF LoginInStep
<1>3. ASSUME StateFits', state' # "Disconnected", Lines >= 1 => InStep'
      PROVE  Lockstep'
  BY <1>1, <1>2, <1>3, ReadInStep, Lengths
<1>4. CASE SayEhlo
  <2>1. StateFits' /\ state' # "Disconnected" /\ state' = "EhloSent"
    BY <1>4 DEF SayEhlo, StateFits
  <2>2. ASSUME Lines >= 1 PROVE InStep'
    <3>1. Len(toServer') = 1 /\ toServer'[1].cmd = "ehlo"
      BY <1>1, <1>2, <1>4, <2>2, SaidOne DEF SayEhlo, Commands, SmtpAssumption
    <3>2. LoginInStep'
      BY <1>1, <1>2, <2>1, <2>2, <3>1 DEF LoginInStep, Awaits
    <3> QED BY <2>1, <3>2 DEF InStep, LoginStates
  <2> QED BY <1>3, <2>1, <2>2
<1>5. CASE Authenticate(ext)
  BY <1>1, <1>2, <1>3, <1>5, AuthenticateState, AuthenticateInStep
<1> QED BY <1>4, <1>5 DEF ReadStartTLS

LEMMA AuthInStep ==
    ASSUME SmtpAssumption, SInv, Lockstep, SInv', ReadAuth
    PROVE  Lockstep'
<1>1. /\ toClient # <<>> /\ UNCHANGED server /\ link = "up" /\ StateFits /\ Consume
      /\ state \in {"AuthRequestSent", "AuthUsernameSent"} /\ state' \in {"AuthUsernameSent", "AuthSent"}
      /\ Transmit(<<Cmd("cred", 0)>>)
  BY CurrentLine DEF ReadAuth, serverVars, Lockstep
<1>2. ASSUME Lines >= 1 PROVE InStep' /\ Lines = 1
  <2>1. LoginInStep /\ (Awaits("auth") \/ Awaits("cred"))
    BY <1>1, <1>2, CurrentLine DEF InStep, LoginStates, LoginInStep
  <2>2. Len(toServer) = 0 /\ Lines = 1 /\ Lines' = 0 /\ server.mode # "data" /\ server.mail = 0
    BY <1>1, <1>2, <2>1, AnswerIsRead DEF LoginInStep
  <2>3. Len(toServer') = 1 /\ toServer'[1].cmd = "cred"
    BY <1>1, <2>2, SaidOne DEF Commands, SmtpAssumption
  <2>4. LoginInStep'
    BY <1>1, <2>2, <2>3 DEF LoginInStep, Awaits
  <2> QED BY <1>1, <2>2, <2>4 DEF InStep, LoginStates
<1>3. StateFits'
  BY <1>1 DEF StateFits
<1> QED BY <1>1, <1>2, <1>3, ReadInStep, Lengths

LEMMA AuthResultInStep ==
    ASSUME SmtpAssumption, SInv, Lockstep, SInv', ReadAuthResult
    PROVE  Lockstep'
<1>1. toClient # <<>> /\ UNCHANGED server /\ link = "up" /\ StateFits /\ state = "AuthSent"
  BY CurrentLine DEF ReadAuthResult, serverVars, Lockstep
<1>2. CASE SendNext("Authenticated", pending, {}) /\ Consume
  <2>1. pending \in Seq(Mails)
    BY DEF SInv, QueueInv
  <2>2. StateFits' /\ state' # "Disconnected"
    BY <1>1, <1>2, <2>1, NextState
  <2>3. ASSUME Lines >= 1 PROVE InStep' /\ Lines = 1
    <3>1. LoginInStep /\ Awaits("cred")
      BY <1>1, <2>3, CurrentLine DEF InStep, LoginStates, LoginInStep
    <3>2. Len(toServer) = 0 /\ Lines = 1 /\ Lines' = 0 /\ server.mode # "data" /\ server.mail = 0
      BY <1>1, <1>2, <2>3, <3>1, AnswerIsRead DEF LoginInStep
    <3> QED BY <1>1, <1>2, <2>1, <3>2, SendNextInStep
  <2> QED BY <1>1, <1>2, <2>2, <2>3, ReadInStep, Lengths
<1>3. CASE state' = "Disconnected" /\ Close
  BY <1>3, ClosedInStep DEF StateFits
<1> QED BY <1>2, <1>3 DEF ReadAuthResult

-----------------------------------------------------------------------------
\* A refusal, or the server's farewell, in the middle of a mail.
LEMMA RefusedInStep ==
    ASSUME SmtpAssumption, SInv, Lockstep, SInv', ReadRcptAnswer, Refused
    PROVE  Lockstep'
<1>1. /\ toClient # <<>> /\ UNCHANGED <<server, ext>> /\ link = "up" /\ StateFits /\ Consume
      /\ state \in {"MailToSent", "RcptAckPending"} /\ state' = "BodySent"
      /\ Transmit(<<Cmd("rset", 0)>>) /\ Line.class # "2"
  BY CurrentLine DEF ReadRcptAnswer, Refused, Ok, serverVars, loginVars, Lockstep
<1>2. StateFits'
  BY <1>1 DEF StateFits
<1>3. ASSUME Lines >= 1 PROVE InStep' /\ Lines = 1
  <2>1. InStep /\ Line = toClient[1]
    BY <1>1, <1>3, CurrentLine, ReadLine
  <2>2. state # "RcptAckPending"
    <3> SUFFICES ASSUME state = "RcptAckPending" PROVE FALSE
      OBVIOUS
    <3>1. 1 \in 1 .. Lines /\ PipelineInStep
      BY <1>3, <2>1, Lengths DEF InStep
    <3> QED BY <1>1, <2>1, <3>1 DEF PipelineInStep
  <2>3. MailInStep /\ ~Pipelined
    BY <1>1, <2>1, <2>2 DEF InStep, StateFits
  <2>4. Awaits("mail") \/ Awaits("rcpt")
    BY <2>3 DEF MailInStep
  <2>5. Len(toServer) = 0 /\ Lines = 1 /\ Lines' = 0 /\ server.mode # "data"
    BY <1>1, <1>3, <2>3, <2>4, AnswerIsRead DEF MailInStep
  <2>6. Len(toServer') = 1 /\ toServer'[1].cmd = "rset"
    BY <1>1, <2>5, SaidOne DEF Commands, SmtpAssumption
  <2>7. BodyInStep'
    BY <1>1, <2>3, <2>5, <2>6 DEF BodyInStep, Awaits, Pipelined
  <2> QED BY <1>1, <2>5, <2>7 DEF InStep, LoginStates
<1> QED BY <1>1, <1>2, <1>3, ReadInStep, Lengths

\* One mail after the other: an acknowledgement in state MailToSent.
LEMMA AcknowledgedInStep ==
    ASSUME SmtpAssumption, SInv, Lockstep, SInv', ReadRcptAnswer, Acknowledged, state = "MailToSent"
    PROVE  Lockstep'
<1>1. /\ toClient # <<>> /\ UNCHANGED <<server, ext, pending, recipients>> /\ link = "up" /\ StateFits
      /\ Consume /\ Line.class = "2" /\ First' = First
  BY CurrentLine DEF ReadRcptAnswer, Acknowledged, Ok, First, serverVars, loginVars, Lockstep
<1>2. First \in 0 .. MaxMails /\ rcptNumber \in Nat /\ recipients \in Nat
  BY FirstMail DEF SInv, QueueInv
<1>3. ASSUME Lines >= 1
      PROVE  /\ Lines = 1 /\ Lines' = 0 /\ Len(toServer) = 0 /\ server.mode # "data"
             /\ server.mail = First /\ server.rcpts = rcptNumber
  <2>1. MailInStep /\ Line = toClient[1]
    BY <1>1, <1>3, CurrentLine, ReadLine DEF InStep
  <2>2. Awaits("mail") \/ Awaits("rcpt")
    BY <2>1 DEF MailInStep
  <2>3. Len(toServer) = 0 /\ Lines = 1 /\ Lines' = 0
    BY <1>1, <1>3, <2>2, AnswerIsRead
  <2> QED BY <1>1, <2>1, <2>3 DEF MailInStep
<1>4. CASE LastRecipient /\ Transmit(<<Cmd("data", First)>>) /\ state' = "SendingBody" /\ UNCHANGED rcptNumber
  <2>1. StateFits' /\ state' # "Disconnected"
    BY <1>1, <1>4 DEF StateFits
  <2>2. ASSUME Lines >= 1 PROVE InStep'
    <3>1. Len(toServer') = 1 /\ toServer'[1].cmd = "data" /\ toServer'[1].id = First
      BY <1>1, <1>2, <1>3, <1>4, <2>2, SaidOne DEF Commands
    <3>2. DataInStep'
      BY <1>1, <1>3, <1>4, <2>2, <3>1 DEF DataInStep, Awaits, LastRecipient
    <3> QED BY <1>4, <3>2 DEF InStep, LoginStates
  <2> QED BY <1>1, <1>3, <2>1, <2>2, ReadInStep, Lengths
<1>5. CASE rcptNumber' = rcptNumber + 1 /\ Transmit(<<Cmd("rcpt", First)>>) /\ UNCHANGED state
  <2>1. StateFits' /\ state' # "Disconnected"
    BY <1>1, <1>5 DEF StateFits, Pipelined
  <2>2. ASSUME Lines >= 1 PROVE InStep'
    <3>1. Len(toServer') = 1 /\ toServer'[1].cmd = "rcpt" /\ toServer'[1].id = First
      BY <1>1, <1>2, <1>3, <1>5, <2>2, SaidOne DEF Commands
    <3>2. MailInStep'
      BY <1>1, <1>2, <1>3, <1>5, <2>2, <3>1 DEF MailInStep, Awaits
    <3> QED BY <1>5, <3>2 DEF InStep, LoginStates
  <2> QED BY <1>1, <1>3, <2>1, <2>2, ReadInStep, Lengths
<1> QED BY <1>4, <1>5 DEF Acknowledged

\* The same in a pipeline, where only the last one makes the client write.
LEMMA PipelineAcknowledged ==
    ASSUME SmtpAssumption, SInv, Lockstep, SInv', ReadRcptAnswer, Acknowledged, state = "RcptAckPending"
    PROVE  Lockstep'
<1>1. /\ toClient # <<>> /\ UNCHANGED <<server, ext, pending, recipients>> /\ link = "up" /\ StateFits
      /\ Consume /\ First' = First
  BY CurrentLine DEF ReadRcptAnswer, Acknowledged, First, serverVars, loginVars, Lockstep
<1>2. /\ First \in 0 .. MaxMails /\ rcptNumber \in Nat /\ recipients \in Nat /\ rcptNumber <= recipients
      /\ recipients > 0
  BY <1>1, FirstMail DEF SInv, QueueInv, Counts, StateFits
<1>3. /\ Lines \in Int /\ Lines' = Lines - 1 /\ Len(toClient') = Len(toClient) - 1
      /\ \A i \in 1 .. Len(toClient') : toClient'[i] = toClient[i + 1]
      /\ Lines <= Len(toClient) /\ Len(toClient) \in Nat /\ Len(toServer) \in Nat
  BY <1>1, ReadLine, Lengths
<1>4. Lines >= 1 => PipelineInStep
  BY <1>1, CurrentLine DEF InStep
<1>5. Lines >= 1 /\ server.mode = "closing" => Len(toServer) = 0
  BY <1>1 DEF Lockstep, Connected
<1>6. CASE LastRecipient /\ Transmit(<<Cmd("data", First)>>) /\ state' = "SendingBody" /\ UNCHANGED rcptNumber
  <2>1. StateFits' /\ state' # "Disconnected"
    BY <1>1, <1>6 DEF StateFits
  <2>2. ASSUME Lines >= 1 PROVE Lines = 1 /\ InStep'
    <3>1. Lines = 1 /\ Len(toServer) = 0
      BY <1>2, <1>3, <1>4, <1>6, <2>2 DEF PipelineInStep, LastRecipient
    <3>2. server.mode # "data" /\ server.mail = First /\ server.rcpts = recipients
      <4>1. server.rcpts \in Nat
        BY DEF SInv, ConnectionInv, ServerInv, ServerStates
      <4> QED BY <1>2, <1>4, <3>1, <4>1 DEF PipelineInStep
    <3>3. Len(toServer') = 1 /\ toServer'[1].cmd = "data" /\ toServer'[1].id = First
      BY <1>1, <1>2, <1>6, <3>1, SaidOne DEF Commands
    <3>4. DataInStep'
      BY <1>1, <1>3, <1>6, <3>1, <3>2, <3>3 DEF DataInStep, Awaits
    <3> QED BY <1>6, <3>1, <3>4 DEF InStep, LoginStates
  <2> QED BY <1>1, <2>1, <2>2, <1>3, ReadInStep
<1>7. CASE rcptNumber' = rcptNumber + 1 /\ Transmit(<<>>) /\ UNCHANGED state
  <2>1. StateFits' /\ state' # "Disconnected"
    BY <1>1, <1>7 DEF StateFits, Pipelined
  <2>2. toServer' = toServer
    BY <1>7, SaidNothing
  <2>3. ASSUME Lines >= 1 PROVE InStep'
    <3>1. \A i \in 1 .. Lines - 1 : toClient'[i] = toClient[i + 1] /\ i + 1 \in 1 .. Lines
      BY <1>3
    <3>2. Len(toServer') + Lines' + rcptNumber' = recipients' + 1
      BY <1>1, <1>2, <1>3, <1>4, <1>7, <2>2, <2>3 DEF PipelineInStep
    <3>3. \A i \in 1 .. Lines' : toClient'[i].cmd \in {"mail", "rcpt"} /\ toClient'[i].class = "2"
      <4>1. \A i \in 1 .. Lines : toClient[i].cmd \in {"mail", "rcpt"} /\ toClient[i].class = "2"
        BY <1>4, <2>3 DEF PipelineInStep
      <4>2. \A i \in 1 .. Lines - 1 : toClient'[i].cmd \in {"mail", "rcpt"} /\ toClient'[i].class = "2"
        BY <3>1, <4>1
      <4> QED
        BY <1>3, <4>2
    <3>4. \A i \in 1 .. Len(toServer') :
              /\ toServer'[i].id = First'
              /\ toServer'[i].cmd = IF i = 1 /\ Len(toServer') = recipients' + 1 THEN "mail" ELSE "rcpt"
      BY <1>1, <1>4, <2>2, <2>3 DEF PipelineInStep
    <3>5. /\ server'.mode # "data"
          /\ IF Len(toServer') = recipients' + 1 THEN server'.mail = 0
             ELSE server'.mail = First' /\ server'.rcpts + Len(toServer') = recipients'
      BY <1>1, <1>4, <2>2, <2>3 DEF PipelineInStep
    <3>6. PipelineInStep'
      BY <3>2, <3>3, <3>4, <3>5 DEF PipelineInStep
    <3> QED BY <1>7, <3>6 DEF InStep, LoginStates
  <2> QED BY <1>1, <1>3, <1>5, <2>1, <2>2, <2>3, ReadInStep
<1> QED BY <1>6, <1>7 DEF Acknowledged

LEMMA DataAnswerInStep ==
    ASSUME SmtpAssumption, SInv, Lockstep, SInv', ReadDataAnswer
    PROVE  Lockstep'
<1>1. /\ toClient # <<>> /\ UNCHANGED <<server, ext>> /\ link = "up" /\ StateFits /\ Consume
      /\ state = "SendingBody" /\ First \in 1 .. MaxMails /\ Tail(pending) \in Seq(Mails)
  BY CurrentLine, FirstMail DEF ReadDataAnswer, serverVars, loginVars, Lockstep
<1>2. ASSUME Lines >= 1
      PROVE  /\ Lines = 1 /\ Lines' = 0 /\ Len(toServer) = 0
             /\ server.mail = First /\ server.rcpts = recipients
             /\ Line.class = "3" <=> server.mode = "data"
             /\ Pipelined => Line.class = "3"
  <2>1. DataInStep /\ Awaits("data") /\ Line = toClient[1]
    BY <1>1, <1>2, CurrentLine, ReadLine DEF InStep, DataInStep
  <2> QED BY <1>1, <1>2, <2>1, AnswerIsRead DEF DataInStep
<1>3. CASE /\ Line.class = "3" /\ Transmit(<<Cmd("body", First)>>) /\ state' = "BodySent"
           /\ UNCHANGED <<pending, rcptVars>>
  <2>1. StateFits' /\ state' # "Disconnected"
    BY <1>3 DEF StateFits
  <2>2. ASSUME Lines >= 1 PROVE InStep'
    <3>1. First \in 0 .. MaxMails /\ First' = First /\ recipients' = recipients
      BY <1>1, <1>3 DEF First, rcptVars
    <3>2. Len(toServer') = 1 /\ toServer'[1].cmd = "body" /\ toServer'[1].id = First
      BY <1>1, <1>2, <1>3, <2>2, <3>1, SaidOne DEF Commands
    <3>3. BodyInStep'
      BY <1>1, <1>2, <1>3, <2>2, <3>1, <3>2 DEF BodyInStep
    <3> QED BY <1>3, <3>3 DEF InStep, LoginStates
  <2> QED BY <1>1, <1>2, <2>1, <2>2, ReadInStep, Lengths
<1>4. CASE Line.class # "3" /\ SendNext("SendingBody", Tail(pending), {First})
  <2>1. StateFits' /\ state' # "Disconnected"
    BY <1>1, <1>4, NextState
  <2>2. ASSUME Lines >= 1 PROVE InStep'
    <3>1. server.mode # "data" /\ ~Pipelined'
      BY <1>1, <1>2, <1>4, <2>2 DEF Pipelined
    <3> QED BY <1>1, <1>2, <1>4, <2>2, <3>1, SendNextInStep
  <2> QED BY <1>1, <1>2, <2>1, <2>2, ReadInStep, Lengths
<1> QED BY <1>3, <1>4 DEF ReadDataAnswer

LEMMA BodyAnswerInStep ==
    ASSUME SmtpAssumption, SInv, Lockstep, SInv', ReadBodyAnswer
    PROVE  Lockstep'
<1>1. /\ toClient # <<>> /\ UNCHANGED <<server, ext>> /\ link = "up" /\ StateFits /\ Consume
      /\ state = "BodySent"
  BY CurrentLine DEF ReadBodyAnswer, serverVars, loginVars, Lockstep
<1>2. PICK fails : SendNext("BodySent", Remaining, fails)
  BY DEF ReadBodyAnswer
<1>3. Remaining \in Seq(Mails)
  BY FirstMail, EmptySeq DEF ReadBodyAnswer, Remaining
<1>4. StateFits' /\ state' # "Disconnected"
  BY <1>1, <1>2, <1>3, NextState
<1>5. ASSUME Lines >= 1 PROVE Lines = 1 /\ InStep'
  <2>1. BodyInStep /\ Lines' = Lines - 1
    BY <1>1, <1>5, CurrentLine, ReadLine DEF InStep
  <2>2. /\ Lines = 1 /\ Lines' = 0 /\ Len(toServer) = 0 /\ server.mode # "data"
        /\ Pipelined => server.mail = 0
    BY <1>5, <2>1 DEF BodyInStep, Awaits
  <2>3. Pipelined' => server.mail = 0
    BY <1>1, <2>2 DEF Pipelined
  <2> QED BY <1>1, <1>2, <1>3, <2>2, <2>3, SendNextInStep
<1> QED BY <1>1, <1>4, <1>5, ReadInStep, Lengths

LEMMA ResetAnswerInStep ==
    ASSUME SmtpAssumption, SInv, Lockstep, SInv', ReadResetAnswer
    PROVE  Lockstep'
<1>1. /\ toClient # <<>> /\ UNCHANGED <<server, ext>> /\ link = "up" /\ StateFits /\ Consume
      /\ state = "Resetting" /\ pending \in Seq(Mails)
  BY CurrentLine DEF ReadResetAnswer, serverVars, loginVars, Lockstep, SInv, QueueInv
<1>2. ASSUME Lines >= 1
      PROVE  /\ Lines = 1 /\ Lines' = 0 /\ Len(toServer) = 0 /\ server.mode # "data"
             /\ Ok => server.mail = 0
  <2>1. ResetInStep /\ Lines' = Lines - 1 /\ Line = toClient[1]
    BY <1>1, <1>2, CurrentLine, ReadLine DEF InStep
  <2> QED BY <1>2, <2>1 DEF ResetInStep, Awaits, Ok
<1>3. CASE Ok /\ SendNext("Waiting", pending, {})
  <2>1. StateFits' /\ state' # "Disconnected"
    BY <1>1, <1>3, NextState
  <2>2. ASSUME Lines >= 1 PROVE InStep'
    BY <1>1, <1>2, <1>3, <2>2, SendNextInStep
  <2> QED BY <1>1, <1>2, <2>1, <2>2, ReadInStep, Lengths
<1>4. CASE Transmit(<<>>) /\ UNCHANGED state
  <2>1. StateFits' /\ state' = "Resetting" /\ toServer' = toServer
    BY <1>1, <1>4, SaidNothing DEF StateFits
  <2>2. ASSUME Lines >= 1 PROVE InStep'
    <3>1. ResetInStep'
      BY <1>1, <1>2, <2>1, <2>2 DEF ResetInStep
    <3> QED BY <2>1, <3>1 DEF InStep, LoginStates
  <2> QED BY <1>1, <1>2, <2>1, <2>2, ReadInStep, Lengths
<1> QED BY <1>3, <1>4 DEF ReadResetAnswer

\* A line in state Waiting can only be the server's farewell.
LEMMA IgnoredInStep ==
    ASSUME SInv, Lockstep, SInv', IgnoreLine
    PROVE  Lockstep'
<1>1. /\ toClient # <<>> /\ link = "up" /\ UNCHANGED <<server, state, ext, recipients>> /\ Consume
  BY CurrentLine DEF IgnoreLine, serverVars, loginVars, mailVars, rcptVars
<1>2. state = "Waiting"
  BY <1>1 DEF IgnoreLine, Lockstep
<1>3. StateFits' /\ state' # "Disconnected"
  BY <1>1, <1>2 DEF StateFits
<1>4. ~(Lines >= 1)
  BY <1>1, <1>2, CurrentLine DEF InStep, IdleInStep
<1> QED BY <1>1, <1>3, <1>4, ReadInStep, Lengths

-----------------------------------------------------------------------------
(* The application's actions, and the end of a connection.                 *)

LEMMA SendInStep ==
    ASSUME SmtpAssumption, SInv, Lockstep, SInv', NEW n \in 0 .. MaxRecipients, Send(n)
    PROVE  Lockstep'
<1> DEFINE queue == Append(pending, [id |-> nextID + 1, rcpts |-> n])
<1>1. UNCHANGED <<server, ext, link, toClient>> /\ StateFits
  BY DEF Send, serverVars, loginVars, Lockstep
<1>2. Lines' = Lines /\ (LastIsShutdown => LastIsShutdown')
  BY <1>1 DEF Lines, LastIsShutdown
<1>3. queue \in Seq(Mails) /\ (pending # <<>> => Head(queue) = Head(pending))
  <2>1. [id |-> nextID + 1, rcpts |-> n] \in Mails
    BY DEF Send, SInv, ConnectionInv, SmtpAssumption, Mails
  <2>2. pending \in Seq(Mails)
    BY DEF SInv, QueueInv
  <2>3. ASSUME NEW m \in Mails
        PROVE  /\ Append(pending, m) \in Seq(Mails)
               /\ pending # <<>> => Head(Append(pending, m)) = Head(pending)
    BY <2>2, AppendProperties, HeadTailProperties, LenProperties, EmptySeq
  <2> QED BY <2>1, <2>3
<1> HIDE DEF queue
<1>4. CASE state = "Waiting"
  <2>1. SendNext("Waiting", queue, {})
    BY <1>4 DEF Send, queue
  <2>2. StateFits' /\ state' # "Disconnected"
    BY <1>1, <1>3, <2>1, NextState
  <2>3. CASE link = "up"
    <3>1. Connected
      BY <2>3 DEF Lockstep
    <3>2. ~(Lines >= 1)
      BY <1>4, <3>1 DEF Connected, InStep, IdleInStep
    <3>3. ASSUME server.mode # "closing" PROVE InStep'
      <4>1. IdleInStep
        BY <1>4, <3>1, <3>3 DEF Connected, InStep
      <4>2. Lines' = 0 /\ Len(toServer) = 0 /\ server.mode # "data" /\ (Pipelined' => server.mail = 0)
        BY <1>1, <1>2, <4>1 DEF IdleInStep, Pipelined
      <4> QED BY <1>1, <1>3, <2>1, <2>3, <4>2, SendNextInStep
    <3>4. Connected'
      BY <1>1, <1>2, <3>1, <3>2, <3>3 DEF Connected
    <3> QED BY <1>1, <2>2, <2>3, <3>4 DEF Lockstep
  <2>4. CASE link # "up"
    <3>1. toServer' = toServer
      BY <2>1, <2>4 DEF SendNext, StartMail, Transmit
    <3> QED BY <1>1, <1>4, <2>2, <2>4, <3>1 DEF Lockstep
  <2> QED BY <2>3, <2>4
<1>5. CASE state # "Waiting"
  <2>1. pending' = queue /\ UNCHANGED <<state, rcptVars, toServer>>
    BY <1>5 DEF Send, queue
  <2>2. StateFits'
    BY <1>1, <2>1 DEF StateFits, Pipelined, rcptVars
  <2>3. state \in {"MailToSent", "RcptAckPending", "SendingBody", "BodySent"} => First' = First
    BY <1>3, <2>1 DEF First, SInv, QueueInv, FirstMailExists
  <2>4. \A c : Awaits(c)' <=> Awaits(c)
    BY <1>1, <1>2, <2>1 DEF Awaits
  <2>5. InStep => InStep'
    <3>1. state \in LoginStates /\ LoginInStep => LoginInStep'
      BY <1>1, <1>2, <2>1, <2>4 DEF LoginInStep
    <3>2. state = "MailToSent" /\ MailInStep => MailInStep'
      BY <1>1, <1>2, <2>1, <2>3, <2>4 DEF MailInStep, rcptVars
    <3>3. state = "RcptAckPending" /\ PipelineInStep => PipelineInStep'
      BY <1>1, <1>2, <2>1, <2>3 DEF PipelineInStep, rcptVars
    <3>4. state = "SendingBody" /\ DataInStep => DataInStep'
      BY <1>1, <1>2, <2>1, <2>3, <2>4 DEF DataInStep, Pipelined, rcptVars
    <3>5. state = "BodySent" /\ BodyInStep => BodyInStep'
      BY <1>1, <1>2, <2>1, <2>3, <2>4 DEF BodyInStep, Pipelined, rcptVars
    <3>6. state = "Resetting" /\ ResetInStep => ResetInStep'
      BY <1>1, <1>2, <2>1, <2>4 DEF ResetInStep
    <3> QED BY <1>5, <2>1, <3>1, <3>2, <3>3, <3>4, <3>5, <3>6 DEF InStep
  <2>6. Connected => Connected'
    BY <1>1, <1>2, <2>1, <2>5 DEF Connected
  <2> QED BY <1>1, <2>1, <2>2, <2>6 DEF Lockstep
<1> QED BY <1>4, <1>5

LEMMA ConnectionInStep ==
    ASSUME SmtpAssumption, SInv, Lockstep, ConnectToHost \/ LoseConnection \/ Hangup
    PROVE  Lockstep'
<1>1. CASE ConnectToHost
  <2>1. StateFits'
    BY <1>1 DEF ConnectToHost, StateFits
  <2> QED BY <1>1, <2>1 DEF ConnectToHost, Lockstep
<1>2. CASE LoseConnection \/ Hangup
  <2>1. Close /\ UNCHANGED <<state, ext, recipients>>
    BY <1>2 DEF LoseConnection, Hangup, clientVars, loginVars, mailVars, rcptVars
  <2>2. StateFits'
    BY <2>1 DEF Lockstep, StateFits, Pipelined
  <2> QED BY <2>1, <2>2, ClosedInStep
<1> QED BY <1>1, <1>2

-----------------------------------------------------------------------------
(* The server's actions in lockstep.                                       *)

\* What the server knows after it took a command, and after it refused it.
LEMMA AcceptedServer ==
    ASSUME SInv, NEW c \in CommandLines, server' = AfterAccepting(c)
    PROVE  /\ c.cmd = "mail" => /\ server'.mail = c.id /\ server'.rcpts = server.rcpts
                                /\ server'.mode = server.mode
           /\ c.cmd = "rcpt" => /\ server'.mail = server.mail /\ server'.rcpts = server.rcpts + 1
                                /\ server'.mode = server.mode
           /\ c.cmd = "data" => /\ server'.mail = server.mail /\ server'.rcpts = server.rcpts
                                /\ server'.mode = "data"
           /\ c.cmd \in {"auth", "cred", "starttls"} =>
                                server'.mail = server.mail /\ server'.mode = server.mode
           /\ c.cmd \in {"ehlo", "helo", "rset", "body"} => server'.mail = 0 /\ server'.mode = "command"
<1>1. server \in ServerStates
  BY DEF SInv, ConnectionInv, ServerInv
<1>2. CASE c.cmd = "mail"
  BY <1>1, <1>2 DEF AfterAccepting, ServerStates
<1>3. CASE c.cmd = "rcpt"
  BY <1>1, <1>3 DEF AfterAccepting, ServerStates
<1>4. CASE c.cmd = "data"
  BY <1>1, <1>4 DEF AfterAccepting, ServerStates
<1>5. CASE c.cmd = "auth"
  BY <1>1, <1>5 DEF AfterAccepting, ServerStates
<1>6. CASE c.cmd = "cred"
  BY <1>1, <1>6 DEF AfterAccepting, ServerStates
<1>7. CASE c.cmd = "starttls"
  BY <1>1, <1>7 DEF AfterAccepting, ServerStates
<1>8. CASE c.cmd \in {"ehlo", "helo", "rset", "body"}
  <2>1. AfterAccepting(c) = [server EXCEPT !.mode = "command", !.mail = 0, !.rcpts = 0]
    BY <1>8 DEF AfterAccepting
  <2> QED BY <1>1, <1>8, <2>1 DEF ServerStates
<1> QED BY <1>2, <1>3, <1>4, <1>5, <1>6, <1>7, <1>8 DEF CommandLines, Commands

LEMMA RefusedServer ==
    ASSUME SInv, NEW c \in CommandLines, server' = AfterRefusing(c)
    PROVE  /\ c.cmd = "body" => server'.mail = 0 /\ server'.mode = "command"
           /\ c.cmd # "body" => /\ server'.mail = server.mail /\ server'.rcpts = server.rcpts
                                /\ server'.mode = server.mode
<1>1. server \in ServerStates
  BY DEF SInv, ConnectionInv, ServerInv
<1>2. CASE c.cmd = "body"
  BY <1>1, <1>2 DEF AfterRefusing, ServerStates
<1>3. CASE c.cmd = "cred"
  BY <1>1, <1>3 DEF AfterRefusing, ServerStates
<1>4. CASE c.cmd \notin {"body", "cred"}
  BY <1>4 DEF AfterRefusing
<1> QED BY <1>2, <1>3, <1>4

LEMMA TakenCommand ==
    ASSUME SInv, Serve
    PROVE  /\ link = "up" /\ link' = "up" /\ server.mode # "closing"
           /\ Len(toServer) >= 1 /\ Head(toServer) = toServer[1] /\ toServer[1] \in CommandLines
           /\ Len(toServer') = Len(toServer) - 1
           /\ \A i \in 1 .. Len(toServer') : toServer'[i] = toServer[i + 1]
<1>1. toServer \in Seq(CommandLines) /\ toServer # <<>> /\ toServer' = Tail(toServer)
  BY DEF SInv, QueueInv, Serve
<1>2. Len(toServer) >= 1
  BY <1>1, Lengths
<1>3. toServer[1] \in CommandLines
  BY <1>2, Lengths
<1>4. /\ Head(toServer) = toServer[1] /\ Len(toServer') = Len(toServer) - 1
      /\ \A i \in 1 .. Len(toServer') : toServer'[i] = toServer[i + 1]
  BY <1>1, HeadTailProperties, LenProperties
<1> QED BY <1>2, <1>3, <1>4 DEF Serve

LEMMA WrittenLine ==
    ASSUME SInv, NEW line, toClient' = Append(toClient, line)
    PROVE  /\ Len(toClient') = Len(toClient) + 1 /\ toClient'[Len(toClient) + 1] = line
           /\ \A i \in 1 .. Len(toClient) : toClient'[i] = toClient[i]
<1>1. toClient \in Seq(ReplyLines)
  BY DEF SInv, ConnectionInv
<1>2. toClient \in Seq(ReplyLines \cup {line})
  BY <1>1, SeqMonotonic
<1> QED BY <1>2, AppendProperties, LenProperties

\* The server answers the next command, unless that is EHLO, with one line.
LEMMA ServedCommand ==
    ASSUME SInv, Serve, NEW c, c = toServer[1], c.cmd # "ehlo", server.mode = "data" => c.cmd = "body"
    PROVE  /\ Lines = Len(toClient) /\ Lines' = Len(toClient') /\ Len(toClient') = Len(toClient) + 1
           /\ \A i \in 1 .. Len(toClient) : toClient'[i] = toClient[i]
           /\ toClient'[Len(toClient')].cmd = c.cmd /\ ~toClient'[Len(toClient')].cont
           /\ \/ /\ server' = AfterAccepting(c) /\ InOrder(c)
                 /\ toClient'[Len(toClient')].class = PositiveClass(c)
              \/ /\ server' = AfterRefusing(c) /\ (~InOrder(c) \/ MayRefuse(c))
                 /\ toClient'[Len(toClient')].class = "5"
<1>1. c \in CommandLines /\ server.mode # "closing" /\ c = Head(toServer)
  BY TakenCommand
<1>2. Accept(c) \/ Refuse(c)
  BY <1>1 DEF Serve
<1>3. CASE Accept(c)
  <2>1. toClient' = Append(toClient, Reply(c, PositiveClass(c), FALSE, {}))
    BY <1>3 DEF Accept
  <2>2. /\ Len(toClient') = Len(toClient) + 1
        /\ toClient'[Len(toClient) + 1] = Reply(c, PositiveClass(c), FALSE, {})
        /\ \A i \in 1 .. Len(toClient) : toClient'[i] = toClient[i]
    BY <2>1, WrittenLine
  <2>3. server' = AfterAccepting(c) /\ InOrder(c)
    BY <1>3 DEF Accept
  <2>4. server'.mode # "closing"
    BY <1>1, <2>3, AcceptedServer DEF CommandLines, Commands
  <2> QED BY <1>1, <2>2, <2>3, <2>4 DEF Lines, Reply
<1>4. CASE Refuse(c)
  <2>1. toClient' = Append(toClient, Reply(c, "5", FALSE, {}))
    BY <1>4 DEF Refuse
  <2>2. /\ Len(toClient') = Len(toClient) + 1
        /\ toClient'[Len(toClient) + 1] = Reply(c, "5", FALSE, {})
        /\ \A i \in 1 .. Len(toClient) : toClient'[i] = toClient[i]
    BY <2>1, WrittenLine
  <2>3. server' = AfterRefusing(c) /\ (~InOrder(c) \/ MayRefuse(c))
    BY <1>4 DEF Refuse
  <2>4. server'.mode # "closing"
    BY <1>1, <2>3, RefusedServer
  <2> QED BY <1>1, <2>2, <2>3, <2>4 DEF Lines, Reply
<1> QED BY <1>2, <1>3, <1>4

\* The same when the command is the only thing in flight.
LEMMA ServedAlone ==
    ASSUME SInv, Serve, NEW name, Awaits(name), name # "ehlo", server.mode = "data" => name = "body"
    PROVE  /\ Lines = 0 /\ Len(toServer) = 1 /\ toServer[1].cmd = name /\ toServer[1] \in CommandLines
           /\ Lines' = 1 /\ Awaits(name)'
           /\ \/ /\ server' = AfterAccepting(toServer[1]) /\ InOrder(toServer[1])
                 /\ toClient'[1].class = PositiveClass(toServer[1])
              \/ /\ server' = AfterRefusing(toServer[1])
                 /\ ~InOrder(toServer[1]) \/ MayRefuse(toServer[1])
                 /\ toClient'[1].class = "5"
<1>1. Lines = 0 /\ Len(toServer) = 1 /\ toServer[1].cmd = name /\ toServer[1] \in CommandLines
      /\ Len(toServer') = 0 /\ Len(toClient) = 0
  BY TakenCommand, Lengths DEF Awaits
<1> DEFINE c == toServer[1]
<1>2. /\ Lines' = Len(toClient') /\ Len(toClient') = Len(toClient) + 1
      /\ toClient'[Len(toClient')].cmd = c.cmd /\ ~toClient'[Len(toClient')].cont
      /\ \/ /\ server' = AfterAccepting(c) /\ InOrder(c)
            /\ toClient'[Len(toClient')].class = PositiveClass(c)
         \/ /\ server' = AfterRefusing(c) /\ (~InOrder(c) \/ MayRefuse(c))
            /\ toClient'[Len(toClient')].class = "5"
  BY <1>1, ServedCommand
<1>3. Lines' = 1 /\ Len(toClient') = 1
  BY <1>1, <1>2
<1>4. Awaits(name)'
  BY <1>1, <1>2, <1>3 DEF Awaits
<1> QED BY <1>1, <1>2, <1>3, <1>4

LEMMA CurrentMail ==
    ASSUME SInv, state \in {"MailToSent", "RcptAckPending", "SendingBody", "BodySent"}
    PROVE  First \in 1 .. MaxMails
<1>1. pending \in Seq(Mails) /\ pending # <<>>
  BY DEF SInv, QueueInv, FirstMailExists
<1>2. Head(pending) \in Mails
  BY <1>1, HeadTailProperties
<1> QED BY <1>2 DEF First, Mails

\* EHLO is answered by one line, or by the greeting and the extensions.
LEMMA ServedEhlo ==
    ASSUME SInv, Serve, Awaits("ehlo"), server.mode # "data"
    PROVE  /\ Len(toServer') = 0 /\ server'.mode # "data" /\ (server.mail = 0 => server'.mail = 0)
           /\ \/ Awaits("ehlo")'
              \/ /\ Lines' = 2
                 /\ toClient'[1].cmd = "ehlo" /\ toClient'[1].class = "2" /\ toClient'[1].cont
                 /\ toClient'[2].cmd = "ehlo" /\ toClient'[2].class = "2" /\ ~toClient'[2].cont
<1> DEFINE c == toServer[1]
<1>1. /\ c \in CommandLines /\ c.cmd = "ehlo" /\ c = Head(toServer) /\ server.mode # "closing"
      /\ Len(toServer') = 0 /\ Len(toClient) = 0 /\ toClient = <<>>
  BY TakenCommand, Lengths DEF Awaits
<1> HIDE DEF c
<1>2. Accept(c) \/ Refuse(c)
  BY <1>1 DEF Serve
<1>3. ASSUME NEW class, server'.mode # "closing", toClient' = Append(toClient, Reply(c, class, FALSE, {}))
      PROVE  Awaits("ehlo")'
  <2>1. Len(toClient') = 1 /\ toClient'[1] = Reply(c, class, FALSE, {})
    BY <1>1, <1>3, WrittenLine
  <2> QED BY <1>1, <1>3, <2>1 DEF Awaits, Lines, Reply
<1>4. CASE Refuse(c)
  <2>1. server'.mail = server.mail /\ server'.mode = server.mode
    BY <1>1, <1>4, RefusedServer DEF Refuse
  <2> QED BY <1>1, <1>3, <1>4, <2>1 DEF Refuse
<1>5. CASE Accept(c)
  <2>1. server'.mail = 0 /\ server'.mode = "command"
    BY <1>1, <1>5, AcceptedServer DEF Accept
  <2>2. PICK exts : toClient' = toClient \o
                       IF exts = {} THEN <<Reply(c, "2", FALSE, {})>>
                       ELSE <<Reply(c, "2", TRUE, {}), Reply(c, "2", FALSE, exts)>>
    BY <1>1, <1>5 DEF Accept
  <2>3. CASE exts = {}
    <3>1. \A x : <<>> \o <<x>> = Append(<<>>, x)
      OBVIOUS
    <3>2. toClient' = Append(toClient, Reply(c, "2", FALSE, {}))
      BY <1>1, <2>2, <2>3, <3>1
    <3> QED BY <1>1, <1>3, <2>1, <3>2
  <2>4. CASE exts # {}
    <3>1. \A x, y : <<>> \o <<x, y>> = <<x, y>>
      OBVIOUS
    <3>2. toClient' = <<Reply(c, "2", TRUE, {}), Reply(c, "2", FALSE, exts)>>
      BY <1>1, <2>2, <2>4, <3>1
    <3> QED BY <1>1, <2>1, <3>2 DEF Reply, Lines
  <2> QED BY <1>1, <2>1, <2>3, <2>4
<1> QED BY <1>2, <1>4, <1>5

\* What the server does to a group of commands, and to the parts of a mail.
LEMMA ServedPipeline ==
    ASSUME SmtpAssumption, NoRefusalInPipeline, SInv, Serve, Pipelined, PipelineInStep,
           recipients > 0, state = "RcptAckPending"
    PROVE  PipelineInStep'
<1> DEFINE c == toServer[1]
<1>1. /\ c \in CommandLines /\ Len(toServer) >= 1 /\ Len(toServer') = Len(toServer) - 1
      /\ \A i \in 1 .. Len(toServer') : toServer'[i] = toServer[i + 1]
      /\ Len(toServer) \in Nat /\ Len(toClient) \in Nat
  BY TakenCommand, Lengths
<1>2. /\ server.mode # "data" /\ Len(toServer) + Lines + rcptNumber = recipients + 1
      /\ c.id = First /\ c.cmd = IF Len(toServer) = recipients + 1 THEN "mail" ELSE "rcpt"
  BY <1>1 DEF PipelineInStep
<1>3. First \in 1 .. MaxMails /\ recipients \in Nat /\ rcptNumber \in Nat
      /\ server \in ServerStates /\ (server.mail = 0 => server.rcpts = 0)
  <2>1. First \in 1 .. MaxMails
    BY CurrentMail
  <2> QED BY <2>1 DEF SInv, QueueInv, ConnectionInv, ServerInv, ServerStates, SmtpAssumption
<1>4. UNCHANGED <<rcptNumber, recipients, First>>
  BY DEF Serve, clientVars, mailVars, rcptVars, First
<1>5. ~MayRefuse(c)
  BY <1>2 DEF MayRefuse, NoRefusalInPipeline, Pipelined
<1>6. InOrder(c)
  BY <1>2, <1>3 DEF InOrder, PipelineInStep
<1>7. /\ Lines = Len(toClient) /\ Lines' = Len(toClient') /\ Len(toClient') = Len(toClient) + 1
      /\ \A i \in 1 .. Len(toClient) : toClient'[i] = toClient[i]
      /\ toClient'[Len(toClient')].cmd = c.cmd /\ toClient'[Len(toClient')].class = PositiveClass(c)
      /\ server' = AfterAccepting(c)
  <2>1. c.cmd # "ehlo"
    BY <1>2
  <2> HIDE DEF c
  <2> QED BY <1>2, <1>5, <1>6, <2>1, ServedCommand DEF c
<1>8. PositiveClass(c) = "2"
  BY <1>2 DEF PositiveClass
<1>9. \A i \in 1 .. Lines' : toClient'[i].cmd \in {"mail", "rcpt"} /\ toClient'[i].class = "2"
  <2> SUFFICES ASSUME NEW i \in 1 .. Lines'
               PROVE  toClient'[i].cmd \in {"mail", "rcpt"} /\ toClient'[i].class = "2"
    OBVIOUS
  <2>1. CASE i = Len(toClient')
    BY <1>2, <1>7, <1>8, <2>1
  <2>2. CASE i # Len(toClient')
    <3>1. i \in 1 .. Len(toClient)
      BY <1>1, <1>7, <2>2
    <3> QED BY <1>7, <3>1 DEF PipelineInStep
  <2> QED BY <2>1, <2>2
<1>10. \A i \in 1 .. Len(toServer') : toServer'[i].id = First /\ toServer'[i].cmd = "rcpt"
  <2> SUFFICES ASSUME NEW i \in 1 .. Len(toServer')
               PROVE  toServer'[i].id = First /\ toServer'[i].cmd = "rcpt"
    OBVIOUS
  <2>1. i + 1 \in 1 .. Len(toServer) /\ i + 1 # 1 /\ toServer'[i] = toServer[i + 1]
    BY <1>1
  <2> QED BY <2>1 DEF PipelineInStep
<1>11. Len(toServer) <= recipients + 1
  BY <1>1, <1>2, <1>3, <1>7
<1>12. server'.mode # "data" /\ server'.mail = First /\ server'.rcpts + Len(toServer') = recipients
  <2>1. CASE c.cmd = "mail"
    <3>1. server'.mail = c.id /\ server'.rcpts = server.rcpts /\ server'.mode = server.mode
      BY <1>1, <1>7, <2>1, AcceptedServer
    <3>2. server.mail = 0 /\ Len(toServer) = recipients + 1
      BY <1>2, <2>1 DEF PipelineInStep
    <3> QED BY <1>1, <1>2, <1>3, <3>1, <3>2
  <2>2. CASE c.cmd = "rcpt"
    <3>1. server'.mail = server.mail /\ server'.rcpts = server.rcpts + 1 /\ server'.mode = server.mode
      BY <1>1, <1>7, <2>2, AcceptedServer
    <3>2. server.mail = First /\ server.rcpts + Len(toServer) = recipients
      BY <1>2, <2>2 DEF PipelineInStep
    <3>3. server.rcpts \in Nat
      BY <1>3 DEF ServerStates
    <3> HIDE DEF c
    <3> QED BY <1>1, <1>2, <1>3, <3>1, <3>2, <3>3
  <2> QED BY <1>2, <2>1, <2>2
<1> HIDE DEF c
<1>13. Len(toServer') + Lines' + rcptNumber = recipients + 1 /\ Len(toServer') # recipients + 1
  BY <1>1, <1>2, <1>3, <1>7, <1>11
<1> QED BY <1>4, <1>9, <1>10, <1>12, <1>13 DEF PipelineInStep

LEMMA ServedMail ==
    ASSUME SmtpAssumption, SInv, Serve, MailInStep, state = "MailToSent"
    PROVE  MailInStep'
<1> DEFINE c == toServer[1]
<1>1. /\ Lines = 0 /\ Len(toServer) = 1 /\ c \in CommandLines /\ Lines' = 1
      /\ IF rcptNumber = 0 THEN c.cmd = "mail" /\ Awaits("mail")'
                           ELSE c.cmd = "rcpt" /\ Awaits("rcpt")'
      /\ \/ server' = AfterAccepting(c) /\ InOrder(c)
         \/ server' = AfterRefusing(c) /\ toClient'[1].class = "5"
  <2>1. CASE rcptNumber = 0
    BY <2>1, ServedAlone DEF MailInStep
  <2>2. CASE rcptNumber # 0
    BY <2>2, ServedAlone DEF MailInStep
  <2> QED BY <2>1, <2>2
<1>2. UNCHANGED <<rcptNumber, First>> /\ rcptNumber \in Nat
  BY DEF Serve, clientVars, mailVars, rcptVars, First, SInv, QueueInv, SmtpAssumption
<1>3. c.id = First /\ server.mode # "data"
      /\ (rcptNumber > 0 => server.mail = First /\ server.rcpts + 1 = rcptNumber)
  BY <1>1 DEF MailInStep
<1>4. CASE server' = AfterAccepting(c) /\ InOrder(c) /\ c.cmd = "mail"
  <2>1. server'.mail = c.id /\ server'.rcpts = server.rcpts /\ server'.mode = server.mode
    BY <1>1, <1>4, AcceptedServer
  <2>2. server.mail = 0 /\ server.rcpts = 0
    BY <1>4 DEF InOrder, SInv, ConnectionInv, ServerInv, ServerStates
  <2>3. rcptNumber = 0
    BY <1>1, <1>4
  <2> QED BY <1>1, <1>2, <1>3, <2>1, <2>2, <2>3 DEF MailInStep
<1>5. CASE server' = AfterAccepting(c) /\ c.cmd = "rcpt"
  <2>1. server'.mail = server.mail /\ server'.rcpts = server.rcpts + 1 /\ server'.mode = server.mode
    BY <1>1, <1>5, AcceptedServer
  <2>2. rcptNumber > 0
    BY <1>1, <1>2, <1>5
  <2> QED BY <1>1, <1>2, <1>3, <2>1, <2>2 DEF MailInStep
<1>6. CASE server' = AfterRefusing(c) /\ toClient'[1].class = "5"
  <2>1. server'.mode = server.mode
    BY <1>1, <1>6, RefusedServer
  <2> QED BY <1>1, <1>2, <1>3, <1>6, <2>1 DEF MailInStep
<1> QED BY <1>1, <1>4, <1>5, <1>6

LEMMA ServedData ==
    ASSUME SmtpAssumption, NoRefusalInPipeline, SInv, Serve, DataInStep, recipients > 0,
           state = "SendingBody"
    PROVE  DataInStep'
<1> DEFINE c == toServer[1]
<1>1. Awaits("data") /\ server.mail = First /\ server.rcpts = recipients /\ Lines = 0
  BY TakenCommand DEF DataInStep, Awaits
<1>2. c.id = First /\ server.mode # "data"
  BY <1>1 DEF DataInStep
<1>3. /\ c.cmd = "data" /\ c \in CommandLines /\ Lines' = 1 /\ Awaits("data")'
      /\ \/ server' = AfterAccepting(c) /\ toClient'[1].class = PositiveClass(c)
         \/ server' = AfterRefusing(c) /\ toClient'[1].class = "5" /\ (~InOrder(c) \/ MayRefuse(c))
  BY <1>1, <1>2, ServedAlone
<1>4. UNCHANGED <<recipients, ext, First>>
  BY DEF Serve, clientVars, mailVars, rcptVars, loginVars, First
<1>5. CASE server' = AfterAccepting(c) /\ toClient'[1].class = PositiveClass(c)
  <2>1. server'.mail = server.mail /\ server'.rcpts = server.rcpts /\ server'.mode = "data"
    BY <1>3, <1>5, AcceptedServer
  <2>2. PositiveClass(c) = "3"
    BY <1>3 DEF PositiveClass
  <2> QED BY <1>1, <1>3, <1>4, <1>5, <2>1, <2>2 DEF DataInStep
<1>6. CASE server' = AfterRefusing(c) /\ toClient'[1].class = "5" /\ (~InOrder(c) \/ MayRefuse(c))
  <2>1. server'.mail = server.mail /\ server'.rcpts = server.rcpts /\ server'.mode = server.mode
    BY <1>3, <1>6, RefusedServer
  <2>2. InOrder(c)
    BY <1>1, <1>3 DEF InOrder
  <2>3. ~Pipelined
    BY <1>3, <1>6, <2>2 DEF MayRefuse, NoRefusalInPipeline, Pipelined
  <2> QED BY <1>1, <1>2, <1>3, <1>4, <1>6, <2>1, <2>3 DEF DataInStep, Pipelined
<1> QED BY <1>3, <1>5, <1>6

LEMMA ServedBody ==
    ASSUME SmtpAssumption, SInv, Serve, BodyInStep, state = "BodySent"
    PROVE  BodyInStep'
<1>1. Len(toServer) >= 1 /\ ext' = ext
  BY TakenCommand DEF Serve, clientVars, loginVars
<1>2. CASE Awaits("rset") /\ ~Pipelined /\ server.mode # "data"
  <2>1. /\ toServer[1].cmd = "rset" /\ toServer[1] \in CommandLines /\ Awaits("rset")'
        /\ server' = AfterAccepting(toServer[1]) \/ server' = AfterRefusing(toServer[1])
    BY <1>2, ServedAlone
  <2>2. server'.mode # "data"
    BY <1>2, <2>1, AcceptedServer, RefusedServer
  <2> QED BY <1>1, <1>2, <2>1, <2>2 DEF BodyInStep, Pipelined
<1>3. CASE Lines = 0 /\ Len(toServer) = 1 /\ toServer[1].cmd = "body"
  <2>1. Awaits("body")
    BY <1>3 DEF Awaits
  <2>2. /\ toServer[1] \in CommandLines /\ Lines' = 1 /\ Awaits("body")'
        /\ server' = AfterAccepting(toServer[1]) \/ server' = AfterRefusing(toServer[1])
    BY <2>1, ServedAlone
  <2>3. server'.mail = 0 /\ server'.mode = "command"
    BY <1>3, <2>2, AcceptedServer, RefusedServer
  <2> QED BY <2>2, <2>3 DEF BodyInStep, Awaits
<1> QED BY <1>1, <1>2, <1>3 DEF BodyInStep

LEMMA ServedReset ==
    ASSUME SInv, Serve, ResetInStep
    PROVE  ResetInStep'
<1>1. Awaits("rset") /\ server.mode # "data"
  BY TakenCommand DEF ResetInStep
<1>2. /\ toServer[1].cmd = "rset" /\ toServer[1] \in CommandLines /\ Awaits("rset")'
      /\ \/ server' = AfterAccepting(toServer[1])
         \/ server' = AfterRefusing(toServer[1]) /\ toClient'[1].class = "5"
  BY <1>1, ServedAlone
<1>3. server'.mode # "data" /\ (server'.mail = 0 \/ toClient'[1].class = "5")
  BY <1>1, <1>2, AcceptedServer, RefusedServer
<1> QED BY <1>2, <1>3 DEF ResetInStep

LEMMA ServedLogin ==
    ASSUME SInv, Serve, LoginInStep, state \in LoginStates
    PROVE  LoginInStep'
<1>1. Len(toServer) >= 1 /\ state' = state /\ server.mode # "data" /\ server.mail = 0
  BY TakenCommand DEF Serve, clientVars, LoginInStep
<1>2. CASE state = "EhloSent"
  <2>1. Awaits("ehlo")
    BY <1>1, <1>2 DEF LoginInStep
  <2> QED BY <1>1, <1>2, <2>1, ServedEhlo DEF LoginInStep
<1>3. ASSUME NEW name \in {"helo", "starttls", "auth", "cred"}, Awaits(name)
      PROVE  Awaits(name)' /\ server'.mode # "data" /\ server'.mail = 0
  <2>1. /\ toServer[1].cmd = name /\ toServer[1] \in CommandLines /\ Awaits(name)'
        /\ server' = AfterAccepting(toServer[1]) \/ server' = AfterRefusing(toServer[1])
    BY <1>1, <1>3, ServedAlone
  <2>2. server'.mode # "data" /\ server'.mail = 0
    BY <1>1, <2>1, AcceptedServer, RefusedServer
  <2> QED BY <2>1, <2>2
<1>4. CASE state = "HeloSent"
  BY <1>1, <1>3, <1>4 DEF LoginInStep
<1>5. CASE state = "StartTLSSent"
  BY <1>1, <1>3, <1>5 DEF LoginInStep
<1>6. CASE state = "AuthRequestSent"
  BY <1>1, <1>3, <1>6 DEF LoginInStep
<1>7. CASE state \in {"AuthUsernameSent", "AuthSent"}
  BY <1>1, <1>3, <1>7 DEF LoginInStep
<1>8. state \notin {"StartState", "EhloGreetReceived"}
  BY <1>1 DEF LoginInStep
<1> QED BY <1>2, <1>4, <1>5, <1>6, <1>7, <1>8 DEF LoginStates

LEMMA ServeInStep ==
    ASSUME SmtpAssumption, NoRefusalInPipeline, SInv, Lockstep, Serve
    PROVE  Lockstep'
<1>1. /\ link = "up" /\ link' = "up" /\ server.mode # "closing" /\ Len(toServer) >= 1
      /\ Connected /\ InStep /\ StateFits
  BY TakenCommand DEF Lockstep, Connected
<1>2. UNCHANGED <<state, ext, recipients>>
  BY DEF Serve, clientVars, loginVars, mailVars, rcptVars
<1>3. StateFits' /\ state \in States
  BY <1>1, <1>2 DEF StateFits, Pipelined, SInv, QueueInv
<1>4. InStep'
  <2>1. CASE state \in LoginStates
    <3>1. LoginInStep'
      BY <1>1, <2>1, ServedLogin DEF InStep
    <3> QED BY <1>2, <2>1, <3>1 DEF InStep, LoginStates
  <2>2. CASE state = "MailToSent"
    <3>1. MailInStep'
      BY <1>1, <2>2, ServedMail DEF InStep
    <3> QED BY <1>2, <2>2, <3>1 DEF InStep, LoginStates
  <2>3. CASE state = "RcptAckPending"
    <3>1. PipelineInStep'
      BY <1>1, <2>3, ServedPipeline DEF InStep, StateFits
    <3> QED BY <1>2, <2>3, <3>1 DEF InStep, LoginStates
  <2>4. CASE state = "SendingBody"
    <3>1. DataInStep'
      BY <1>1, <2>4, ServedData DEF InStep, StateFits
    <3> QED BY <1>2, <2>4, <3>1 DEF InStep, LoginStates
  <2>5. CASE state = "BodySent"
    <3>1. BodyInStep'
      BY <1>1, <2>5, ServedBody DEF InStep
    <3> QED BY <1>2, <2>5, <3>1 DEF InStep, LoginStates
  <2>6. CASE state = "Resetting"
    <3>1. ResetInStep'
      BY <1>1, <2>6, ServedReset DEF InStep
    <3> QED BY <1>2, <2>6, <3>1 DEF InStep, LoginStates
  <2>7. state \notin {"Disconnected", "Waiting"}
    BY <1>1 DEF InStep, IdleInStep
  <2> QED BY <1>3, <2>1, <2>2, <2>3, <2>4, <2>5, <2>6, <2>7 DEF States, LoginStates
<1>5. server'.mode # "closing"
  <2> DEFINE c == toServer[1]
  <2>1. c \in CommandLines /\ c = Head(toServer)
    BY TakenCommand
  <2> HIDE DEF c
  <2>2. UNCHANGED server \/ server' = AfterAccepting(c) \/ server' = AfterRefusing(c)
    BY <2>1 DEF Serve, Accept, Refuse, serverVars
  <2>3. server' = AfterAccepting(c) => server'.mode # "closing"
    BY <1>1, <2>1, AcceptedServer DEF CommandLines, Commands
  <2>4. server' = AfterRefusing(c) => server'.mode # "closing"
    BY <1>1, <2>1, RefusedServer
  <2> QED BY <1>1, <2>2, <2>3, <2>4
<1>6. Connected'
  BY <1>4, <1>5 DEF Connected
<1> QED BY <1>1, <1>2, <1>3, <1>6 DEF Lockstep, InStep

LEMMA WelcomeInStep ==
    ASSUME SInv, Lockstep, Welcome
    PROVE  Lockstep'
<1>1. state = "StartState" /\ UNCHANGED <<state, ext, recipients>> /\ toServer' = <<>>
  BY DEF Lockstep, Welcome, clientVars, loginVars, mailVars, rcptVars
<1>2. server'.mode = "command" /\ server'.mail = 0
  BY DEF Welcome, NewServer
<1>3. Len(toClient') = 1 /\ toClient'[1].cmd = "greeting"
  BY DEF Welcome, Reply, Cmd
<1>4. LoginInStep'
  BY <1>1, <1>2, <1>3 DEF LoginInStep, Lines
<1>5. Connected'
  BY <1>1, <1>2, <1>4 DEF Connected, InStep, LoginStates
<1>6. StateFits' /\ link' = "up"
  BY <1>1 DEF StateFits, Welcome
<1> QED BY <1>1, <1>5, <1>6 DEF Lockstep

\* The farewell is one line more, and none that counts.
LEMMA ShutdownInStep ==
    ASSUME SInv, Lockstep, Shutdown
    PROVE  Lockstep'
<1> DEFINE line == Reply(Cmd("shutdown", 0), "5", FALSE, {})
<1>1. /\ link = "up" /\ link' = "up" /\ server.mode = "command" /\ toServer = <<>> /\ toServer' = <<>>
      /\ server' = [server EXCEPT !.mode = "closing"] /\ toClient' = Append(toClient, line)
      /\ server \in ServerStates /\ Len(toClient) \in Nat
  BY Lengths DEF Shutdown, SInv, ConnectionInv, ServerInv
<1>2. UNCHANGED <<state, ext, recipients, rcptNumber, pending>>
  BY DEF Shutdown, clientVars, loginVars, mailVars, rcptVars
<1>3. line.cmd = "shutdown" /\ line.class = "5"
  BY DEF Reply, Cmd
<1> HIDE DEF line
<1>4. /\ Len(toClient') = Len(toClient) + 1 /\ toClient'[Len(toClient) + 1] = line
      /\ \A i \in 1 .. Len(toClient) : toClient'[i] = toClient[i]
  BY <1>1, WrittenLine
<1>5. server'.mode = "closing" /\ server'.mail = server.mail /\ server'.rcpts = server.rcpts
  BY <1>1 DEF ServerStates
<1>6. Lines = Len(toClient) /\ Lines' = Lines /\ (\A i \in 1 .. Lines : toClient'[i] = toClient[i])
  BY <1>1, <1>4, <1>5 DEF Lines
<1>7. LastIsShutdown' /\ StateFits' /\ InStep
  BY <1>1, <1>2, <1>3, <1>4 DEF LastIsShutdown, Lockstep, StateFits, Connected, Pipelined
<1>8. Lines \in Nat /\ Len(toServer) = 0 /\ Len(toServer') = 0 /\ server.mode # "data" /\ server'.mode # "data"
  BY <1>1, <1>5, <1>6
<1>9. /\ \A c : Awaits(c) => Awaits(c)'
      /\ Lines = 1 => toClient'[1] = toClient[1]
  <2>1. Lines = 1 => toClient'[1] = toClient[1]
    BY <1>6, <1>8
  <2> QED BY <1>6, <1>8, <2>1 DEF Awaits
<1>10. InStep'
  <2>1. state \in LoginStates /\ LoginInStep => LoginInStep'
    BY <1>2, <1>5, <1>6, <1>8, <1>9 DEF LoginInStep
  <2>2. state = "MailToSent" /\ MailInStep => MailInStep'
    <3>1. Awaits("mail") => Awaits("mail")'
      BY <1>9
    <3>2. Awaits("rcpt") => Awaits("rcpt")'
      BY <1>9
    <3> QED BY <1>2, <1>5, <1>6, <1>8, <1>9, <3>1, <3>2 DEF MailInStep, First
  <2>3. state = "RcptAckPending" /\ PipelineInStep => PipelineInStep'
    BY <1>2, <1>5, <1>6, <1>8 DEF PipelineInStep, First
  <2>4. state = "SendingBody" /\ DataInStep => DataInStep'
    <3>1. Awaits("data") => Awaits("data")'
      BY <1>9
    <3>2. DataInStep => Lines = 1
      BY <1>8 DEF DataInStep, Awaits
    <3> QED BY <1>2, <1>5, <1>6, <1>8, <1>9, <3>1, <3>2 DEF DataInStep, First, Pipelined
  <2>5. state = "BodySent" /\ BodyInStep => BodyInStep'
    <3>1. Awaits("rset") => Awaits("rset")'
      BY <1>9
    <3> QED BY <1>2, <1>5, <1>6, <1>8, <3>1 DEF BodyInStep, First, Pipelined
  <2>6. state = "Resetting" /\ ResetInStep => ResetInStep'
    <3>1. Awaits("rset") => Awaits("rset")'
      BY <1>9
    <3> QED BY <1>2, <1>5, <1>6, <1>8, <3>1 DEF ResetInStep
  <2>7. state = "Waiting" /\ IdleInStep => IdleInStep'
    BY <1>2, <1>5, <1>6, <1>8 DEF IdleInStep, Pipelined
  <2> QED BY <1>2, <1>7, <2>1, <2>2, <2>3, <2>4, <2>5, <2>6, <2>7 DEF InStep
<1>11. Connected'
  BY <1>5, <1>7, <1>8, <1>10 DEF Connected
<1> QED BY <1>1, <1>2, <1>7, <1>11 DEF Lockstep

-----------------------------------------------------------------------------
LEMMA LockstepStep ==
    ASSUME SmtpAssumption, NoRefusalInPipeline, SInv, SInv', Lockstep, [Next]_vars
    PROVE  Lockstep'
<1>1. CASE \E n \in 0 .. MaxRecipients : Send(n)
  BY <1>1, SendInStep
<1>2. CASE ConnectToHost \/ LoseConnection \/ Hangup
  BY <1>2, ConnectionInStep
<1>3. CASE SocketRead
  <2>1. CASE ReadGreeting \/ ReadEhlo \/ ReadStartTLS
    BY <2>1, GreetingInStep, EhloInStep, StartTLSInStep
  <2>2. CASE ReadAuth \/ ReadAuthResult
    BY <2>2, AuthInStep, AuthResultInStep
  <2>3. CASE ReadRcptAnswer
    BY <2>3, RefusedInStep, AcknowledgedInStep, PipelineAcknowledged DEF ReadRcptAnswer
  <2>4. CASE ReadDataAnswer \/ ReadBodyAnswer \/ ReadResetAnswer \/ IgnoreLine
    BY <2>4, DataAnswerInStep, BodyAnswerInStep, ResetAnswerInStep, IgnoredInStep
  <2> QED BY <1>3, <2>1, <2>2, <2>3, <2>4 DEF SocketRead
<1>4. CASE Serve \/ Welcome \/ Shutdown
  BY <1>4, ServeInStep, WelcomeInStep, ShutdownInStep
<1>5. CASE UNCHANGED vars
  <2>1. UNCHANGED <<state, ext, rcptVars, pending, link, toServer, toClient, server>>
    BY <1>5 DEF vars, loginVars, mailVars, netVars, serverVars
  <2>2. UNCHANGED <<Lines, Pipelined, First, recipients, rcptNumber>>
    BY <2>1 DEF Lines, Pipelined, First, rcptVars
  <2>3. \A c : Awaits(c)' <=> Awaits(c)
    BY <2>1, <2>2 DEF Awaits
  <2>4. InStep => InStep'
    BY <2>1, <2>2, <2>3
       DEF InStep, LoginInStep, MailInStep, PipelineInStep, DataInStep, BodyInStep, ResetInStep, IdleInStep
  <2>5. (StateFits => StateFits') /\ (LastIsShutdown => LastIsShutdown')
    BY <2>1, <2>2 DEF StateFits, LastIsShutdown
  <2> QED BY <2>1, <2>2, <2>4, <2>5 DEF Lockstep, Connected
<1> QED BY <1>1, <1>2, <1>3, <1>4, <1>5 DEF Next, Application, Server

LEMMA LockstepHolds ==
    ASSUME NoRefusalInPipeline
    PROVE  Spec => [](SInv /\ Lockstep)
<1>1. Init => Lockstep
  BY DEF Init, Lockstep, StateFits
<1>2. SInv /\ Lockstep /\ SInv' /\ [Next]_vars => Lockstep'
  BY LockstepStep, SmtpAssumption
<1> QED BY <1>1, <1>2, SInvHolds, PTL DEF Spec

LEMMA LineAnswersState == SInv /\ Lockstep => ReplyMatchesState
<1> SUFFICES ASSUME SInv, Lockstep, toClient # <<>>
             PROVE  Line.cmd \in Expected \cup {"shutdown"}
  BY DEF ReplyMatchesState
<1>1. Line = toClient[1]
  BY HeadTailProperties DEF Line, SInv, ConnectionInv
<1>2. CASE Lines < 1
  BY <1>1, <1>2, CurrentLine
<1>3. CASE Lines >= 1
  <2>1. InStep /\ state \in States /\ 1 \in 1 .. Lines
    BY <1>3, CurrentLine, Lengths DEF SInv, QueueInv
  <2>2. \A c : Awaits(c) => toClient[1].cmd = c
    BY <1>3 DEF Awaits
  <2>3. CASE state \in LoginStates
    <3>1. LoginInStep
      BY <2>1, <2>3 DEF InStep
    <3>2. CASE state \in {"StartState", "EhloSent", "EhloGreetReceived"}
      BY <1>1, <2>2, <3>1, <3>2 DEF LoginInStep, Expected
    <3>3. CASE state \in {"HeloSent", "StartTLSSent", "AuthRequestSent"}
      BY <1>1, <2>2, <3>1, <3>3 DEF LoginInStep, Expected
    <3>4. CASE state \in {"AuthUsernameSent", "AuthSent"}
      BY <1>1, <2>2, <3>1, <3>4 DEF LoginInStep, Expected
    <3> QED BY <2>3, <3>2, <3>3, <3>4 DEF LoginStates
  <2>4. CASE state = "MailToSent"
    BY <1>1, <2>1, <2>2, <2>4 DEF InStep, MailInStep, Expected
  <2>5. CASE state = "RcptAckPending"
    BY <1>1, <2>1, <2>5 DEF InStep, PipelineInStep, Expected
  <2>6. CASE state = "SendingBody"
    BY <1>1, <2>1, <2>2, <2>6 DEF InStep, DataInStep, Expected
  <2>7. CASE state = "BodySent"
    <3>1. BodyInStep
      BY <2>1, <2>7 DEF InStep
    <3>2. toClient[1].cmd \in {"body", "rset"}
      BY <1>3, <2>2, <3>1 DEF BodyInStep
    <3> QED BY <1>1, <2>7, <3>2 DEF Expected
  <2>8. CASE state = "Resetting"
    BY <1>1, <1>3, <2>1, <2>2, <2>8 DEF InStep, ResetInStep, Expected
  <2>9. state \notin {"Disconnected", "Waiting"}
    BY <1>3, <2>1 DEF InStep, IdleInStep
  <2> QED BY <2>1, <2>3, <2>4, <2>5, <2>6, <2>7, <2>8, <2>9 DEF States, LoginStates
<1> QED BY <1>2, <1>3, Lengths

LEMMA BodyIsExpected == SInv /\ Lockstep => BodyFitsEnvelope
<1> SUFFICES ASSUME SInv, Lockstep, toServer # <<>>, Head(toServer).cmd = "body", server.mode # "closing"
             PROVE  server.mode = "data" /\ server.mail = Head(toServer).id /\ server.rcpts = recipients
  BY DEF BodyFitsEnvelope
<1>1. Head(toServer) = toServer[1] /\ toServer[1].cmd = "body" /\ Len(toServer) >= 1
  BY HeadTailProperties, Lengths DEF SInv, QueueInv
<1>2. InStep /\ state \in States
  BY DEF Lockstep, Connected, SInv, QueueInv
<1>3. \A c : Awaits(c) => c = "body"
  BY <1>1 DEF Awaits
<1>4. state \notin LoginStates
  BY <1>1, <1>2, <1>3 DEF InStep, LoginInStep, LoginStates
<1>5. state \notin {"MailToSent", "SendingBody", "Resetting", "Waiting", "Disconnected"}
  BY <1>1, <1>2, <1>3 DEF InStep, MailInStep, DataInStep, ResetInStep, IdleInStep
<1>6. state # "RcptAckPending"
  BY <1>1, <1>2, Lengths DEF InStep, PipelineInStep
<1>7. state = "BodySent" /\ BodyInStep
  BY <1>2, <1>4, <1>5, <1>6 DEF InStep, States, LoginStates
<1> QED BY <1>1, <1>3, <1>7 DEF BodyInStep

\* socketRead() takes every line for the answer to a command of the kind its
\* state stands for, or it is the server's farewell: the client never falls out
\* of step, however the application queues mails and the server answers, if a
\* server that pipelines takes every sender, recipient and DATA.
THEOREM RepliesMatchState ==
    ASSUME NoRefusalInPipeline
    PROVE  Spec => []ReplyMatchesState
<1>1. SInv /\ Lockstep => ReplyMatchesState
  BY LineAnswersState
<1> QED BY <1>1, LockstepHolds, PTL

\* sendBody() writes a body when the server waits for one, of the mail whose
\* sender it has, to all of that mail's recipients: under the same condition.
THEOREM BodiesFitEnvelope ==
    ASSUME NoRefusalInPipeline
    PROVE  Spec => []BodyFitsEnvelope
<1>1. SInv /\ Lockstep => BodyFitsEnvelope
  BY BodyIsExpected
<1> QED BY <1>1, LockstepHolds, PTL

-----------------------------------------------------------------------------
(* No mail is lost.  Every mail has its own ID, and a body is reported sent *)
(* only when nothing is on its way to the server: its line is the answer to *)
(* it, which is where lockstep comes in.                                    *)

Distinct(queue) == \A i, j \in DOMAIN queue : queue[i].id = queue[j].id => i = j

MailIDs ==
    /\ Distinct(pending)
    /\ IdsOf(pending) \subseteq 1 .. nextID /\ sent \subseteq 1 .. nextID
    /\ \A id \in 1 .. nextID : id \in IdsOf(pending) \cup sent \cup failed
    /\ \A id \in sent : id \notin IdsOf(pending) /\ id \notin IdsOf(toServer)

\* The tails of a queue of distinct mails.
LEMMA PartOfQueue ==
    ASSUME NEW queue \in Seq(Mails), Distinct(queue), NEW m \in 1 .. Len(queue)
    PROVE  /\ Distinct(SubSeq(queue, m, Len(queue)))
           /\ IdsOf(SubSeq(queue, m, Len(queue))) \subseteq IdsOf(queue)
<1> DEFINE part == SubSeq(queue, m, Len(queue))
<1>1. Len(queue) \in Nat /\ DOMAIN queue = 1 .. Len(queue) /\ \A i \in 1 .. Len(queue) : queue[i] \in Mails
  BY LenProperties, ElementOfSeq
<1>2. /\ part \in Seq(Mails) /\ Len(part) = Len(queue) - m + 1
      /\ \A i \in 1 .. Len(queue) - m + 1 : part[i] = queue[m + i - 1]
  BY <1>1, SubSeqProperties
<1> HIDE DEF part
<1>3. DOMAIN part = 1 .. Len(queue) - m + 1
  BY <1>2, LenProperties
<1>4. \A i \in DOMAIN part : m + i - 1 \in DOMAIN queue /\ part[i] = queue[m + i - 1]
  BY <1>1, <1>2, <1>3
<1>5. ASSUME NEW i \in DOMAIN part, NEW j \in DOMAIN part, part[i].id = part[j].id
      PROVE  i = j
  <2>1. m + i - 1 = m + j - 1
    BY <1>4, <1>5 DEF Distinct
  <2> QED BY <1>1, <1>3, <2>1
<1>6. Distinct(part)
  BY <1>5 DEF Distinct
<1>7. IdsOf(part) \subseteq IdsOf(queue)
  BY <1>4 DEF IdsOf
<1> QED BY <1>6, <1>7 DEF part

LEMMA EmptyQueue == IdsOf(<<>>) = {} /\ Distinct(<<>>)
  BY DEF IdsOf, Distinct

LEMMA KeptIDs ==
    ASSUME NEW queue \in Seq(Mails), Distinct(queue)
    PROVE  Distinct(Kept(queue)) /\ IdsOf(Kept(queue)) \subseteq IdsOf(queue)
<1>1. CASE Ready(queue) = {}
  BY <1>1, EmptyQueue DEF Kept
<1>2. CASE Ready(queue) # {}
  <2> DEFINE first == CHOOSE i \in Ready(queue) : \A j \in Ready(queue) : i <= j
  <2>1. Len(queue) \in Nat /\ DOMAIN queue = 1 .. Len(queue) /\ Ready(queue) \subseteq 1 .. Len(queue)
    BY LenProperties DEF Ready
  <2>2. \E i \in Ready(queue) : \A j \in Ready(queue) : i <= j
    BY <1>2, <2>1, LeastNumber
  <2>3. first \in 1 .. Len(queue)
    BY <2>1, <2>2
  <2> HIDE DEF first
  <2>4. Kept(queue) = SubSeq(queue, first, Len(queue))
    BY <1>2 DEF Kept, first
  <2> QED BY <2>3, <2>4, PartOfQueue
<1> QED BY <1>1, <1>2

LEMMA TailIDs ==
    ASSUME NEW queue \in Seq(Mails), queue # <<>>, Distinct(queue)
    PROVE  /\ Distinct(Tail(queue)) /\ Head(queue).id \notin IdsOf(Tail(queue))
           /\ IdsOf(queue) = IdsOf(Tail(queue)) \cup {Head(queue).id}
<1>1. /\ Len(queue) \in Nat /\ Len(queue) >= 1 /\ DOMAIN queue = 1 .. Len(queue)
      /\ Tail(queue) \in Seq(Mails) /\ Len(Tail(queue)) = Len(queue) - 1 /\ Head(queue) = queue[1]
      /\ \A i \in 1 .. Len(Tail(queue)) : Tail(queue)[i] = queue[i + 1]
  BY LenProperties, EmptySeq, HeadTailProperties
<1> DEFINE tail == Tail(queue)
<1>2. DOMAIN tail = 1 .. Len(queue) - 1
  BY <1>1, LenProperties
<1>3. \A i \in DOMAIN tail : i + 1 \in DOMAIN queue /\ i + 1 # 1 /\ tail[i] = queue[i + 1]
  BY <1>1, <1>2
<1>4. \A i \in DOMAIN queue : i = 1 \/ (i - 1 \in DOMAIN tail /\ tail[i - 1] = queue[i])
  BY <1>1, <1>2
<1>5. 1 \in DOMAIN queue
  BY <1>1
<1> HIDE DEF tail
<1>6. Distinct(tail)
  <2> SUFFICES ASSUME NEW i \in DOMAIN tail, NEW j \in DOMAIN tail, tail[i].id = tail[j].id
               PROVE  i = j
    BY DEF Distinct
  <2>1. i + 1 = j + 1
    BY <1>3 DEF Distinct
  <2> QED BY <1>2, <2>1
<1>7. Head(queue).id \notin IdsOf(tail)
  BY <1>1, <1>3, <1>5 DEF IdsOf, Distinct
<1>8. IdsOf(queue) = IdsOf(tail) \cup {Head(queue).id}
  <2>1. IdsOf(queue) \subseteq IdsOf(tail) \cup {Head(queue).id}
    BY <1>1, <1>4 DEF IdsOf
  <2>2. IdsOf(tail) \subseteq IdsOf(queue) /\ Head(queue).id \in IdsOf(queue)
    BY <1>1, <1>3, <1>5 DEF IdsOf
  <2> QED BY <2>1, <2>2
<1> QED BY <1>6, <1>7, <1>8 DEF tail

\* The mails that commands belong to.
LEMMA TransmittedIDs ==
    ASSUME SInv, NEW cmds \in Seq(CommandLines), NEW ids, IdsOf(cmds) \subseteq ids, Transmit(cmds)
    PROVE  IdsOf(toServer') \subseteq IdsOf(toServer) \cup ids
<1>1. toServer \in Seq(CommandLines)
  BY DEF SInv, QueueInv
<1>2. CASE toServer' = toServer
  BY <1>2
<1>3. CASE toServer' = toServer \o cmds
  <2>1. /\ toServer' \in Seq(CommandLines) /\ Len(toServer') = Len(toServer) + Len(cmds)
        /\ \A i \in 1 .. Len(toServer) + Len(cmds) :
              toServer'[i] = IF i <= Len(toServer) THEN toServer[i] ELSE cmds[i - Len(toServer)]
    BY <1>1, <1>3, ConcatProperties
  <2>2. /\ DOMAIN toServer = 1 .. Len(toServer) /\ DOMAIN cmds = 1 .. Len(cmds)
        /\ DOMAIN toServer' = 1 .. Len(toServer) + Len(cmds)
        /\ Len(toServer) \in Nat /\ Len(cmds) \in Nat
    BY <1>1, <2>1, LenProperties
  <2>3. \A i \in DOMAIN toServer' : \/ i \in DOMAIN toServer /\ toServer'[i] = toServer[i]
                                    \/ i - Len(toServer) \in DOMAIN cmds /\ toServer'[i] = cmds[i - Len(toServer)]
    BY <2>1, <2>2
  <2> QED BY <2>3 DEF IdsOf
<1> QED BY <1>2, <1>3 DEF Transmit

LEMMA SaidIDs ==
    ASSUME SInv, NEW c \in Commands \ {"mail"}, NEW id \in 0 .. MaxMails, Transmit(<<Cmd(c, id)>>)
    PROVE  IdsOf(toServer') \subseteq IdsOf(toServer) \cup {id}
<1>1. Cmd(c, id) \in CommandLines /\ Cmd(c, id).id = id
  BY DEF Cmd, CommandLines
<1>2. ASSUME NEW x \in CommandLines PROVE <<x>> \in Seq(CommandLines) /\ IdsOf(<<x>>) = {x.id}
  BY DEF IdsOf
<1>3. <<Cmd(c, id)>> \in Seq(CommandLines) /\ IdsOf(<<Cmd(c, id)>>) = {id}
  BY <1>1, <1>2
<1> QED BY <1>3, TransmittedIDs

\* The commands that start a mail are all that mail's.
LEMMA StartedIDs ==
    ASSUME SmtpAssumption, SInv, NEW m \in Mails, StartMail(m)
    PROVE  IdsOf(toServer') \subseteq IdsOf(toServer) \cup {m.id}
<1> DEFINE mail == <<Cmd("mail", m.id)>>
           rcpts == [i \in 1 .. m.rcpts |-> Cmd("rcpt", m.id)]
<1>1. mail \in Seq(CommandLines) /\ mail \o rcpts \in Seq(CommandLines)
  BY CommandTypes
<1>2. /\ Len(mail) = 1 /\ mail[1].id = m.id
      /\ DOMAIN mail = 1 .. 1
  BY DEF Cmd
<1>3. IdsOf(mail) \subseteq {m.id}
  BY <1>2 DEF IdsOf
<1>4. IdsOf(mail \o rcpts) \subseteq {m.id}
  <2>1. m.rcpts \in Nat /\ Cmd("rcpt", m.id) \in CommandLines /\ Cmd("rcpt", m.id).id = m.id
    BY DEF Mails, SmtpAssumption, Cmd, CommandLines, Commands
  <2>2. rcpts \in [1 .. m.rcpts -> CommandLines]
    BY <2>1
  <2>3. \A i \in 1 .. m.rcpts : rcpts[i].id = m.id
    BY <2>1
  <2> HIDE DEF rcpts
  <2>4. rcpts \in Seq(CommandLines) /\ Len(rcpts) = m.rcpts
    BY <2>1, <2>2, SeqDef, LenProperties
  <2> HIDE DEF mail
  <2>5. /\ Len(mail \o rcpts) = 1 + m.rcpts
        /\ \A i \in 1 .. 1 + m.rcpts : (mail \o rcpts)[i] = IF i <= 1 THEN mail[i] ELSE rcpts[i - 1]
    <3> DEFINE both == mail \o rcpts
    <3>1. /\ Len(both) = Len(mail) + Len(rcpts)
          /\ \A i \in 1 .. Len(mail) + Len(rcpts) :
                both[i] = IF i <= Len(mail) THEN mail[i] ELSE rcpts[i - Len(mail)]
      BY <1>1, <2>4, ConcatProperties
    <3>2. Len(mail) = 1 /\ Len(rcpts) = m.rcpts
      BY <1>2, <2>4
    <3> HIDE DEF both
    <3>3. /\ Len(both) = 1 + m.rcpts
          /\ \A i \in 1 .. 1 + m.rcpts : both[i] = IF i <= 1 THEN mail[i] ELSE rcpts[i - 1]
      BY <3>1, <3>2
    <3> QED BY <3>3 DEF both
  <2>6. DOMAIN (mail \o rcpts) = 1 .. 1 + m.rcpts
    BY <1>1, <2>5, LenProperties
  <2>7. \A i \in 1 .. 1 + m.rcpts : (mail \o rcpts)[i].id = m.id
    <3> SUFFICES ASSUME NEW i \in 1 .. 1 + m.rcpts PROVE (mail \o rcpts)[i].id = m.id
      OBVIOUS
    <3>1. CASE i <= 1
      <4>1. i = 1 /\ (mail \o rcpts)[i] = mail[1]
        BY <2>1, <2>5, <3>1
      <4> QED BY <1>2, <4>1
    <3>2. CASE i > 1
      <4>1. i - 1 \in 1 .. m.rcpts /\ (mail \o rcpts)[i] = rcpts[i - 1]
        BY <2>1, <2>5, <3>2
      <4> QED BY <2>3, <4>1
    <3>3. i <= 1 \/ i > 1
      BY <2>1
    <3> QED BY <3>1, <3>2, <3>3
  <2> QED BY <2>6, <2>7 DEF IdsOf
<1>5. Transmit(mail) \/ Transmit(mail \o rcpts)
  BY DEF StartMail
<1> HIDE DEF mail, rcpts
<1> QED BY <1>1, <1>3, <1>4, <1>5, TransmittedIDs

LEMMA SendNextIDs ==
    ASSUME SmtpAssumption, SInv, NEW from, NEW queue \in Seq(Mails), Distinct(queue), NEW fails,
           SendNext(from, queue, fails)
    PROVE  /\ Distinct(pending') /\ IdsOf(pending') \subseteq IdsOf(queue)
           /\ failed \subseteq failed' /\ fails \subseteq failed'
           /\ IdsOf(queue) \subseteq IdsOf(pending') \cup failed'
           /\ IdsOf(toServer') \subseteq IdsOf(toServer) \cup {0} \cup IdsOf(pending')
<1> DEFINE rest == IF from = "Waiting" THEN Kept(queue) ELSE queue
<1>1. rest \in Seq(Mails) /\ Distinct(rest) /\ IdsOf(rest) \subseteq IdsOf(queue)
  BY KeptMails, KeptIDs
<1>2. pending' = rest /\ failed' = failed \cup fails \cup (IdsOf(queue) \ IdsOf(rest))
  BY DEF SendNext
<1>3. \/ Transmit(<<>>)
      \/ Transmit(<<Cmd("rset", 0)>>)
      \/ rest # <<>> /\ StartMail(Head(rest))
  BY DEF SendNext
<1> HIDE DEF rest
<1>4. IdsOf(toServer') \subseteq IdsOf(toServer) \cup {0} \cup IdsOf(pending')
  <2>1. CASE Transmit(<<>>)
    BY <2>1, SaidNothing
  <2>2. CASE Transmit(<<Cmd("rset", 0)>>)
    <3>1. "rset" \in Commands \ {"mail"} /\ 0 \in 0 .. MaxMails
      BY DEF Commands, SmtpAssumption
    <3> QED BY <2>2, <3>1, SaidIDs
  <2>3. CASE rest # <<>> /\ StartMail(Head(rest))
    <3>1. Head(rest) \in Mails /\ Head(rest).id \in IdsOf(rest)
      BY <1>1, <2>3, HeadTailProperties, TailIDs
    <3> QED BY <1>2, <2>3, <3>1, StartedIDs
  <2> QED BY <1>3, <2>1, <2>2, <2>3
<1> QED BY <1>1, <1>2, <1>4

\* A step after which every mail that left the queue has failed, and that writes
\* commands of queued mails only.
LEMMA QuietStep ==
    ASSUME SInv, MailIDs, UNCHANGED <<nextID, sent>>, Distinct(pending'),
           IdsOf(pending') \subseteq IdsOf(pending), failed \subseteq failed',
           IdsOf(pending) \subseteq IdsOf(pending') \cup failed',
           IdsOf(toServer') \subseteq IdsOf(toServer) \cup {0} \cup IdsOf(pending)
    PROVE  MailIDs'
<1>1. nextID \in Nat /\ 0 \notin 1 .. nextID
  BY SmtpAssumption DEF SInv, ConnectionInv
<1>2. \A id \in sent : id # 0 /\ id \notin IdsOf(pending)
  BY <1>1 DEF MailIDs
<1> QED BY <1>2 DEF MailIDs

LEMMA SaidInMail ==
    ASSUME SInv, NEW c \in Commands \ {"mail"},
           state \in {"MailToSent", "RcptAckPending", "SendingBody", "BodySent"}, Transmit(<<Cmd(c, First)>>)
    PROVE  IdsOf(toServer') \subseteq IdsOf(toServer) \cup {0} \cup IdsOf(pending)
<1>1. pending \in Seq(Mails) /\ pending # <<>> /\ First \in 1 .. MaxMails /\ First \in 0 .. MaxMails
  BY FirstMail DEF SInv, QueueInv, FirstMailExists
<1>2. First \in IdsOf(pending)
  <2>1. Head(pending) = pending[1] /\ 1 \in DOMAIN pending
    BY <1>1, HeadTailProperties, LenProperties, EmptySeq
  <2> QED BY <2>1 DEF First, IdsOf
<1> DEFINE id == First
<1>3. IdsOf(toServer') \subseteq IdsOf(toServer) \cup {id}
  <2>1. Transmit(<<Cmd(c, id)>>) /\ id \in 0 .. MaxMails
    BY <1>1
  <2> HIDE DEF id
  <2> QED BY <2>1, SaidIDs
<1> QED BY <1>2, <1>3

LEMMA SaidPlain ==
    ASSUME SmtpAssumption, SInv, NEW c \in Commands \ {"mail"}, Transmit(<<Cmd(c, 0)>>)
    PROVE  IdsOf(toServer') \subseteq IdsOf(toServer) \cup {0} \cup IdsOf(pending)
<1>1. 0 \in 0 .. MaxMails
  BY DEF SmtpAssumption
<1> QED BY <1>1, SaidIDs

LEMMA SendNextQuiet ==
    ASSUME SmtpAssumption, SInv, MailIDs, UNCHANGED <<nextID, sent>>, NEW from, NEW fails,
           SendNext(from, pending, fails)
    PROVE  MailIDs'
<1>1. pending \in Seq(Mails) /\ Distinct(pending)
  BY DEF SInv, QueueInv, MailIDs
<1> QED BY <1>1, SendNextIDs, QuietStep

LEMMA SamePending ==
    ASSUME SInv, MailIDs, UNCHANGED <<nextID, sent, pending>>, failed \subseteq failed',
           IdsOf(toServer') \subseteq IdsOf(toServer) \cup {0} \cup IdsOf(pending)
    PROVE  MailIDs'
  BY QuietStep DEF MailIDs

LEMMA AuthenticateQuiet ==
    ASSUME SmtpAssumption, SInv, MailIDs, UNCHANGED <<nextID, sent>>, NEW exts, Authenticate(exts)
    PROVE  MailIDs'
<1>1. CASE Transmit(<<Cmd("auth", 0)>>) /\ UNCHANGED <<pending, failed>>
  BY <1>1, SaidPlain, SamePending DEF Commands
<1>2. CASE SendNext("Authenticated", pending, {})
  BY <1>2, SendNextQuiet
<1> QED BY <1>1, <1>2 DEF Authenticate

LEMMA SendKeepsMails ==
    ASSUME SmtpAssumption, SInv, MailIDs, NEW n \in 0 .. MaxRecipients, Send(n)
    PROVE  MailIDs'
<1> DEFINE mail == [id |-> nextID + 1, rcpts |-> n]
           queue == Append(pending, mail)
<1>1. nextID \in Nat /\ nextID' = nextID + 1 /\ sent' = sent /\ pending \in Seq(Mails)
  BY SmtpAssumption DEF Send, SInv, QueueInv, ConnectionInv
<1>2. mail \in Mails /\ mail.id = nextID + 1
  BY DEF Send, SInv, ConnectionInv, SmtpAssumption, Mails
<1> HIDE DEF mail
<1>3. /\ queue \in Seq(Mails) /\ Len(queue) = Len(pending) + 1 /\ queue[Len(pending) + 1] = mail
      /\ \A i \in 1 .. Len(pending) : queue[i] = pending[i]
      /\ Len(pending) \in Nat /\ DOMAIN pending = 1 .. Len(pending)
  BY <1>1, <1>2, AppendProperties, LenProperties
<1>4. DOMAIN queue = 1 .. Len(pending) + 1
  BY <1>3, LenProperties
<1> HIDE DEF queue
<1>5. \A i \in DOMAIN queue : \/ i \in DOMAIN pending /\ queue[i] = pending[i]
                              \/ i = Len(pending) + 1 /\ queue[i] = mail
  BY <1>3, <1>4
<1>6. \A i \in DOMAIN pending : i \in DOMAIN queue /\ pending[i].id \in 1 .. nextID
  BY <1>3, <1>4 DEF MailIDs, IdsOf
<1>7. nextID + 1 \notin 1 .. nextID /\ 1 .. nextID + 1 = 1 .. nextID \cup {nextID + 1} /\ 0 \notin 1 .. nextID + 1
  BY <1>1
<1>8. Distinct(queue)
  BY <1>2, <1>5, <1>6, <1>7 DEF Distinct, MailIDs
<1>9. IdsOf(queue) = IdsOf(pending) \cup {nextID + 1}
  <2>1. IdsOf(queue) \subseteq IdsOf(pending) \cup {nextID + 1}
    BY <1>2, <1>5 DEF IdsOf
  <2>2. IdsOf(pending) \subseteq IdsOf(queue)
    BY <1>3, <1>6 DEF IdsOf
  <2>3. nextID + 1 \in IdsOf(queue)
    <3>1. Len(pending) + 1 \in DOMAIN queue
      BY <1>3, <1>4
    <3> QED BY <1>2, <1>3, <3>1 DEF IdsOf
  <2> QED BY <2>1, <2>2, <2>3
<1>10. /\ Distinct(pending') /\ IdsOf(pending') \subseteq IdsOf(queue) /\ failed \subseteq failed'
       /\ IdsOf(queue) \subseteq IdsOf(pending') \cup failed'
       /\ IdsOf(toServer') \subseteq IdsOf(toServer) \cup {0} \cup IdsOf(pending')
  <2>1. CASE SendNext("Waiting", queue, {})
    BY <1>3, <1>8, <2>1, SendNextIDs
  <2>2. CASE pending' = queue /\ UNCHANGED <<failed, toServer>>
    BY <1>8, <2>2
  <2> QED BY <2>1, <2>2 DEF Send, queue, mail
<1>11. \A id \in sent : id \in 1 .. nextID /\ id # nextID + 1 /\ id # 0 /\ id \notin IdsOf(pending)
                        /\ id \notin IdsOf(toServer)
  BY <1>7 DEF MailIDs
<1> QED BY <1>1, <1>7, <1>9, <1>10, <1>11 DEF MailIDs

\* The line that reports a mail sent finds no command on its way.
LEMMA BodyAnswerKeepsMails ==
    ASSUME SmtpAssumption, SInv, Lockstep, MailIDs, ReadBodyAnswer
    PROVE  MailIDs'
<1>1. /\ pending \in Seq(Mails) /\ pending # <<>> /\ Distinct(pending) /\ nextID' = nextID
      /\ toClient # <<>> /\ state = "BodySent" /\ Consume
  BY DEF ReadBodyAnswer, SInv, QueueInv, FirstMailExists, MailIDs
<1>2. /\ Remaining = Tail(pending) /\ Answered = {First} /\ Tail(pending) \in Seq(Mails)
      /\ Distinct(Tail(pending)) /\ First \notin IdsOf(Tail(pending))
      /\ IdsOf(pending) = IdsOf(Tail(pending)) \cup {First}
  BY <1>1, TailIDs, HeadTailProperties DEF Remaining, Answered, First
<1> DEFINE fails == IF Ok THEN {} ELSE Answered
<1>3. SendNext("BodySent", Tail(pending), fails) /\ sent' = IF Ok THEN sent \cup {First} ELSE sent
  BY <1>2 DEF ReadBodyAnswer
<1>4. /\ Distinct(pending') /\ IdsOf(pending') \subseteq IdsOf(Tail(pending))
      /\ failed \subseteq failed' /\ fails \subseteq failed'
      /\ IdsOf(Tail(pending)) \subseteq IdsOf(pending') \cup failed'
      /\ IdsOf(toServer') \subseteq IdsOf(toServer) \cup {0} \cup IdsOf(pending')
  <2> DEFINE tail == Tail(pending)
  <2>1. tail \in Seq(Mails) /\ Distinct(tail) /\ SendNext("BodySent", tail, fails)
    BY <1>2, <1>3
  <2> HIDE DEF tail, fails
  <2>2. /\ Distinct(pending') /\ IdsOf(pending') \subseteq IdsOf(tail)
        /\ failed \subseteq failed' /\ fails \subseteq failed'
        /\ IdsOf(tail) \subseteq IdsOf(pending') \cup failed'
        /\ IdsOf(toServer') \subseteq IdsOf(toServer) \cup {0} \cup IdsOf(pending')
    BY <2>1, SendNextIDs
  <2> QED BY <2>2 DEF tail
<1>5. CASE ~Ok
  <2>1. UNCHANGED <<nextID, sent>> /\ First \in failed'
    BY <1>1, <1>2, <1>3, <1>4, <1>5
  <2> QED BY <1>2, <1>4, <2>1, QuietStep
<1>6. CASE Ok
  <2>1. IdsOf(toServer) = {}
    <3>1. Line = toClient[1] /\ Line.class = "2"
      BY <1>1, <1>6, ReadLine DEF Ok
    <3>2. Lines >= 1 /\ InStep
      BY <1>1, <3>1, CurrentLine, Lengths
    <3>3. BodyInStep
      BY <1>1, <3>2 DEF InStep
    <3>4. toServer = <<>>
      BY <3>2, <3>3, Lengths DEF BodyInStep, Awaits
    <3> QED BY <3>4, EmptyQueue
  <2>2. nextID \in Nat /\ 0 \notin 1 .. nextID
    BY SmtpAssumption DEF SInv, ConnectionInv
  <2> QED BY <1>1, <1>2, <1>3, <1>4, <1>6, <2>1, <2>2 DEF MailIDs
<1> QED BY <1>5, <1>6

LEMMA MailIDsStep ==
    ASSUME SmtpAssumption, SInv, Lockstep, MailIDs, [Next]_vars
    PROVE  MailIDs'
<1>1. CASE \E n \in 0 .. MaxRecipients : Send(n)
  BY <1>1, SendKeepsMails
<1>2. CASE ReadBodyAnswer
  BY <1>2, BodyAnswerKeepsMails
<1>3. ASSUME UNCHANGED <<nextID, sent, pending, failed>>, toServer' = toServer \/ toServer' = <<>>
      PROVE  MailIDs'
  BY <1>3, SamePending, EmptyQueue
<1>4. ASSUME UNCHANGED <<nextID, sent, pending, failed>>, NEW c \in Commands \ {"mail"}, Transmit(<<Cmd(c, 0)>>)
      PROVE  MailIDs'
  BY <1>4, SamePending, SaidPlain
<1>5. CASE ConnectToHost \/ LoseConnection \/ Hangup \/ Welcome \/ Shutdown \/ IgnoreLine
  <2>1. UNCHANGED <<nextID, sent, pending, failed>> /\ (toServer' = toServer \/ toServer' = <<>>)
    BY <1>5 DEF ConnectToHost, LoseConnection, Hangup, Welcome, Shutdown, IgnoreLine, Close, clientVars, mailVars
  <2> QED BY <1>3, <2>1
<1>6. CASE Serve
  <2>1. UNCHANGED <<nextID, sent, pending, failed>>
    BY <1>6 DEF Serve, clientVars, mailVars
  <2>2. IdsOf(toServer') \subseteq IdsOf(toServer)
    <3>1. /\ \A i \in 1 .. Len(toServer') : toServer'[i] = toServer[i + 1]
          /\ Len(toServer') = Len(toServer) - 1 /\ Len(toServer) \in Nat
      BY <1>6, TakenCommand, Lengths
    <3>2. toServer \in Seq(CommandLines) /\ toServer' \in Seq(CommandLines)
      BY <1>6, HeadTailProperties DEF SInv, QueueInv, Serve
    <3>3. DOMAIN toServer = 1 .. Len(toServer) /\ DOMAIN toServer' = 1 .. Len(toServer) - 1
      BY <3>1, <3>2, LenProperties
    <3>4. \A i \in DOMAIN toServer' : i + 1 \in DOMAIN toServer /\ toServer'[i] = toServer[i + 1]
      BY <3>1, <3>3
    <3> QED BY <3>4 DEF IdsOf
  <2> QED BY <2>1, <2>2, SamePending
<1>7. CASE ReadGreeting
  <2>1. UNCHANGED <<nextID, sent, pending, failed>>
    BY <1>7 DEF ReadGreeting, mailVars
  <2>2. CASE Transmit(<<Cmd("ehlo", 0)>>)
    BY <1>4, <2>1, <2>2 DEF Commands
  <2>3. CASE Close
    BY <1>3, <2>1, <2>3 DEF Close
  <2> QED BY <1>7, <2>2, <2>3 DEF ReadGreeting, SayEhlo
<1>8. CASE ReadEhlo
  <2>1. UNCHANGED <<nextID, sent>>
    BY <1>8 DEF ReadEhlo
  <2>2. CASE Transmit(<<Cmd("helo", 0)>>) /\ UNCHANGED <<pending, failed>>
    BY <1>4, <2>1, <2>2 DEF Commands
  <2>3. CASE Transmit(<<Cmd("starttls", 0)>>) /\ UNCHANGED <<pending, failed>>
    BY <1>4, <2>1, <2>3 DEF Commands
  <2>4. CASE Close /\ UNCHANGED <<pending, failed>>
    BY <1>3, <2>1, <2>4 DEF Close
  <2>5. CASE Transmit(<<>>) /\ UNCHANGED <<pending, failed>>
    BY <1>3, <2>1, <2>5, SaidNothing
  <2> DEFINE exts == IF state = "EhloGreetReceived" THEN Line.ext ELSE {}
  <2>6. CASE Authenticate(exts)
    <3> HIDE DEF exts
    <3> QED BY <2>1, <2>6, AuthenticateQuiet
  <2> QED BY <1>8, <2>2, <2>3, <2>4, <2>5, <2>6 DEF ReadEhlo
<1>9. CASE ReadStartTLS
  <2>1. UNCHANGED <<nextID, sent>>
    BY <1>9 DEF ReadStartTLS
  <2>2. CASE Transmit(<<Cmd("ehlo", 0)>>) /\ UNCHANGED <<pending, failed>>
    BY <1>4, <2>1, <2>2 DEF Commands
  <2>3. CASE Authenticate(ext)
    BY <2>1, <2>3, AuthenticateQuiet
  <2> QED BY <1>9, <2>2, <2>3 DEF ReadStartTLS, SayEhlo
<1>10. CASE ReadAuth
  <2>1. UNCHANGED <<nextID, sent, pending, failed>> /\ Transmit(<<Cmd("cred", 0)>>)
    BY <1>10 DEF ReadAuth, mailVars
  <2> QED BY <1>4, <2>1 DEF Commands
<1>11. CASE ReadAuthResult
  <2>1. UNCHANGED <<nextID, sent>>
    BY <1>11 DEF ReadAuthResult
  <2>2. CASE SendNext("Authenticated", pending, {})
    BY <2>1, <2>2, SendNextQuiet
  <2>3. CASE Close /\ UNCHANGED <<pending, failed>>
    BY <1>3, <2>1, <2>3 DEF Close
  <2> QED BY <1>11, <2>2, <2>3 DEF ReadAuthResult
<1>12. CASE ReadRcptAnswer
  <2>1. UNCHANGED <<nextID, sent, pending>> /\ failed \subseteq failed' /\ state \in {"MailToSent", "RcptAckPending"}
    BY <1>12 DEF ReadRcptAnswer, Refused, Acknowledged
  <2>2. IdsOf(toServer') \subseteq IdsOf(toServer) \cup {0} \cup IdsOf(pending)
    <3>1. CASE Transmit(<<>>)
      BY <3>1, SaidNothing
    <3>2. CASE Transmit(<<Cmd("rset", 0)>>)
      BY <3>2, SaidPlain DEF Commands
    <3>3. CASE Transmit(<<Cmd("data", First)>>) \/ Transmit(<<Cmd("rcpt", First)>>)
      BY <2>1, <3>3, SaidInMail DEF Commands
    <3> QED BY <1>12, <3>1, <3>2, <3>3 DEF ReadRcptAnswer, Refused, Acknowledged
  <2> QED BY <2>1, <2>2, SamePending
<1>13. CASE ReadDataAnswer
  <2>1. UNCHANGED <<nextID, sent>> /\ state = "SendingBody"
    BY <1>13 DEF ReadDataAnswer
  <2>2. CASE Transmit(<<Cmd("body", First)>>) /\ UNCHANGED <<pending, failed>>
    <3>1. IdsOf(toServer') \subseteq IdsOf(toServer) \cup {0} \cup IdsOf(pending)
      BY <2>1, <2>2, SaidInMail DEF Commands
    <3> QED BY <2>1, <2>2, <3>1, SamePending
  <2>3. CASE SendNext("SendingBody", Tail(pending), {First})
    <3> DEFINE tail == Tail(pending)
               fails == {First}
    <3>1. pending \in Seq(Mails) /\ pending # <<>> /\ Distinct(pending)
      BY <2>1 DEF SInv, QueueInv, FirstMailExists, MailIDs
    <3>2. tail \in Seq(Mails) /\ Distinct(tail) /\ IdsOf(pending) = IdsOf(tail) \cup fails
      BY <3>1, TailIDs, HeadTailProperties DEF First
    <3>3. SendNext("SendingBody", tail, fails)
      BY <2>3
    <3> HIDE DEF tail, fails
    <3>4. /\ Distinct(pending') /\ IdsOf(pending') \subseteq IdsOf(tail)
          /\ failed \subseteq failed' /\ fails \subseteq failed'
          /\ IdsOf(tail) \subseteq IdsOf(pending') \cup failed'
          /\ IdsOf(toServer') \subseteq IdsOf(toServer) \cup {0} \cup IdsOf(pending')
      BY <3>2, <3>3, SendNextIDs
    <3> QED BY <2>1, <3>2, <3>4, QuietStep
  <2> QED BY <1>13, <2>2, <2>3 DEF ReadDataAnswer
<1>14. CASE ReadResetAnswer
  <2>1. UNCHANGED <<nextID, sent>>
    BY <1>14 DEF ReadResetAnswer
  <2>2. CASE SendNext("Waiting", pending, {})
    BY <2>1, <2>2, SendNextQuiet
  <2>3. CASE Transmit(<<>>) /\ UNCHANGED <<pending, failed>>
    BY <1>3, <2>1, <2>3, SaidNothing
  <2> QED BY <1>14, <2>2, <2>3 DEF ReadResetAnswer
<1>15. CASE UNCHANGED vars
  BY <1>3, <1>15 DEF vars, mailVars, netVars
<1> QED BY <1>1, <1>2, <1>5, <1>6, <1>7, <1>8, <1>9, <1>10, <1>11, <1>12, <1>13, <1>14, <1>15
        DEF Next, Application, Server, SocketRead

\* sendNext() and the answers never lose a mail: each is in the queue or was
\* reported on.  And a mail that was reported sent is not sent again: it is not
\* in the queue, nor is a command of it on its way.  The hypothesis is that of
\* the lockstep: without it the answer to one body is taken for that to the next,
\* and a mail is reported sent whose commands are still on their way.
THEOREM NothingStaysLost ==
    ASSUME NoRefusalInPipeline
    PROVE  Spec => []NothingIsLost
<1>1. Init => MailIDs
  BY EmptyQueue, SmtpAssumption DEF Init, MailIDs
<1>2. SInv /\ Lockstep /\ MailIDs /\ [Next]_vars => MailIDs'
  BY MailIDsStep, SmtpAssumption
<1>3. MailIDs => NothingIsLost
  BY DEF MailIDs, NothingIsLost, IdsOf
<1> QED BY <1>1, <1>2, <1>3, LockstepHolds, PTL DEF Spec
=============================================================================
