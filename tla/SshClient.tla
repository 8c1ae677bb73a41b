------------------------------ MODULE SshClient ------------------------------
(***************************************************************************)
(* QxtSshClient with one QxtSshChannel, on libssh2 and a TCP connection.   *)
(*                                                                         *)
(* d_readyRead() drives everything: it is called when data arrives, by     *)
(* single-shot timers, and by itself; d_state says which call of libssh2   *)
(* is repeated until it no longer returns EAGAIN.  A call that needs an    *)
(* answer of the server returns EAGAIN at first.  The slots connected to   *)
(* the client's signals run in the middle of d_readyRead() and may call    *)
(* back into the client.                                                   *)
(*                                                                         *)
(* d_readyRead() is a function from a client to the next one.  "slot" says *)
(* what the slots of connected(), error() and authenticationRequired() do. *)
(***************************************************************************)
EXTENDS Naturals, Sequences, SequencesExt

CONSTANTS
    MaxSessions,   \* bound: sessions made by d_reset()
    MaxSets        \* bound: calls of setPassphrase() and setKeyFiles()

ASSUME SshClientAssumption == MaxSessions \in Nat /\ MaxSets \in Nat

VARIABLES
    client,   \* QxtSshClientPrivate and its session
    tcp,      \* the QTcpSocket: "closed", "connecting" or "open"
    posted,   \* single-shot timers: "readyRead" and "error"
    channel,  \* a QxtSshChannelPrivate
    misused,  \* a channel was used that was deleted, or on a session that was freed
    left      \* history: a slot of connected() left a server that needs no authentication

vars == <<client, tcp, posted, channel, misused, left>>

Methods == {"publickey", "password"}
Reactions == {"none", "pass", "key", "leave"}

NoChannel ==
    [kind |-> "none", state |-> 0, session |-> 0, next |-> <<>>,
     pty |-> "no"]   \* history: "asked" before any program, "given"

Init ==
    /\ \E junk \in Methods \cup {"junk"} :   \* d_currentAuthTry is not initialized
          client = [state |-> 0, available |-> {}, failed |-> {}, try |-> junk,
                    pass |-> 0, key |-> 0,  \* 0: not set; else the number of the call that set it
                    known |-> FALSE,        \* known hosts are loaded
                    session |-> 1,          \* which session d_session is
                    \* libssh2's part of the session
                    trying |-> FALSE,       \* a call for authentication got EAGAIN
                    verified |-> FALSE,     \* the host key was found to match
                    authenticated |-> FALSE,
                    \* history
                    sets |-> 0,             \* calls of setPassphrase(), setKeyFiles()
                    tried |-> {},           \* what the server was offered in this session
                    late |-> {},            \* methods whose credentials changed during a try
                    leaked |-> FALSE,       \* a secret was sent to an unverified server
                    repeated |-> FALSE,     \* something refused was offered again
                    rash |-> FALSE,         \* authenticationRequired() with something left to try
                    timers |-> <<>>]        \* single-shot timers started by the running call
    /\ tcp = "closed"
    /\ posted = <<>>
    /\ channel = NoChannel
    /\ misused = FALSE
    /\ left = FALSE

-----------------------------------------------------------------------------
(* What the application calls, from outside or from a slot.                *)

KeepMethods(c) == \* faulty: what the server offered is kept
    [c EXCEPT !.state = 0, !.failed = {}, !.known = FALSE,
              !.session = @ + 1, !.trying = FALSE, !.verified = FALSE,
              !.authenticated = FALSE, !.tried = {}, !.late = {}]

\* d_reset(): a new session, and a new list of known hosts.
Reset(c) ==
    [c EXCEPT !.state = 0, !.failed = {}, !.available = {}, !.known = FALSE,
              !.session = @ + 1, !.trying = FALSE, !.verified = FALSE,
              !.authenticated = FALSE, !.tried = {}, !.late = {}]

\* Faulty: only a client that is trying tries again.
StartTimerLate(c) == IF c.state > 4 THEN [c EXCEPT !.timers = Append(@, "readyRead")] ELSE c

StartTimer(c) == IF c.state > 1 THEN [c EXCEPT !.timers = Append(@, "readyRead")] ELSE c

\* The methods in ms have new credentials.
Renew(c, ms) ==
    [StartTimer(c) EXCEPT !.failed = @ \ ms, !.sets = @ + 1,
                          !.late = IF c.state = 5 THEN @ \cup ms ELSE @ \ ms]

SetPassphrase(c) == [Renew(c, Methods) EXCEPT !.pass = c.sets + 1]

SetKeyFiles(c) == [Renew(c, {"publickey"}) EXCEPT !.key = c.sets + 1]

\* The slot of a signal.
React(c, reaction) ==
    CASE reaction = "pass" /\ c.sets < MaxSets -> SetPassphrase(c)
      [] reaction = "key" /\ c.sets < MaxSets -> SetKeyFiles(c)
      [] reaction = "leave" -> Reset(c)
      [] OTHER -> c

-----------------------------------------------------------------------------
(* d_readyRead()                                                           *)

HasCredentials(c, m) == IF m = "password" THEN c.pass > 0 ELSE c.key > 0

\* What the server is offered by a try of m.
Offer(c, m) == IF m = "password" THEN <<m, c.pass, 0>> ELSE <<m, c.pass, c.key>>

Untried(c) == {m \in c.available \ c.failed : HasCredentials(c, m)}

\* libssh2_userauth_password() or ..._publickey_fromfile(), called anew.
Begin(c, m) ==
    [c EXCEPT !.state = 5, !.try = m, !.trying = TRUE,
              !.tried = @ \cup {Offer(c, m)},
              !.leaked = @ \/ ~c.verified,
              !.repeated = @ \/ Offer(c, m) \in c.tried]

AuthenticationRequired(c, slot) ==
    React([c EXCEPT !.rash = @ \/ \E m \in c.available \ c.late :
                                     HasCredentials(c, m) /\ Offer(c, m) \notin c.tried],
          slot.required)

ForgetFailed(c, slot) == [React([c EXCEPT !.trying = FALSE], slot.error) EXCEPT !.state = 4] \* faulty

\* A try failed; d_state is 4 next, even when the slot has reset the client.
Refused(c, slot) ==
    LET d == React([c EXCEPT !.trying = FALSE], slot.error)
    IN  [d EXCEPT !.failed = @ \cup {c.try}, !.state = 4]

\* d_state 4.  Private key files that cannot be read are refused at once.
LookForMethod(c, slot, readable) ==
    LET password(b) == IF "password" \in Untried(b) THEN Begin(b, "password")
                       ELSE AuthenticationRequired(b, slot)
    IN  IF "publickey" \notin Untried(c) THEN password(c)
        ELSE IF readable THEN Begin(c, "publickey")
        ELSE password(Refused(Begin(c, "publickey"), slot))

\* d_state 2: libssh2_session_startup(), and the check of the host key.
Startup(c, answer, slot) ==
    CASE answer = "failed" -> Reset(React(c, slot.error))
      [] answer = "known" /\ c.known -> [c EXCEPT !.state = 3, !.verified = TRUE]
      [] answer = "stranger" -> [Reset(c) EXCEPT !.timers = Append(@, "error")]
      [] OTHER -> c

\* d_state 3: libssh2_userauth_list().  A server may be content with no
\* authentication at all; d_state is 5 next, even when the slot has reset the
\* client.
ListMethods(c, answer, methods, slot, readable) ==
    CASE answer = "failed" -> Reset(React(c, slot.error))
      [] answer = "none needed" ->
            [React([c EXCEPT !.authenticated = TRUE], slot.connected) EXCEPT !.state = 5]
      [] answer = "list" -> LookForMethod([c EXCEPT !.state = 4, !.available = @ \cup methods],
                                          slot, readable)
      [] OTHER -> c

\* Faulty: EAGAIN is taken for success.
AuthenticateHastily(c, answer, slot, readable) ==
    IF c.try \notin Methods THEN [c EXCEPT !.state = 6]
    ELSE IF ~c.trying THEN Begin(c, c.try)
    ELSE IF answer = "accepted" THEN [c EXCEPT !.state = 6, !.trying = FALSE, !.authenticated = TRUE]
    ELSE IF answer = "refused" THEN LookForMethod(Refused(c, slot), slot, readable)
    ELSE [c EXCEPT !.state = 6, !.trying = FALSE]

\* d_state 5.  After "none needed" nothing is being tried yet, and d_currentAuthTry
\* is whatever it was.
Authenticate(c, answer, slot, readable) ==
    IF c.try \notin Methods THEN [c EXCEPT !.state = 6]
    ELSE IF ~c.trying THEN Begin(c, c.try)
    ELSE IF answer = "accepted"
    THEN React([c EXCEPT !.state = 6, !.trying = FALSE, !.authenticated = TRUE], slot.connected)
    ELSE IF answer = "refused" THEN LookForMethod(Refused(c, slot), slot, readable)
    ELSE c

Answers(c) ==
    CASE c.state = 2 -> {"again", "failed", "known", "stranger"}
      [] c.state = 3 -> {"again", "failed", "none needed", "list"}
      [] c.state = 5 -> {"again", "accepted", "refused"}
      [] OTHER -> {"none"}

\* The methods a server lists, and what the slots do, where that matters:
\* connected() is not emitted in the same call as another signal.
MethodSets(answer) == IF answer = "list" THEN SUBSET Methods ELSE {{}}

KeysReadable(answer) == IF answer \in {"list", "refused", "none"} THEN BOOLEAN ELSE {TRUE}

Slots(c, answer) ==
    IF answer = "again" \/ c.state \notin 2 .. 5
    THEN [connected : {"none"}, error : {"none"}, required : {"none"}]
    ELSE [connected : {"none"}, error : Reactions, required : Reactions]
         \cup [connected : Reactions, error : {"none"}, required : {"none"}]

ClientReadyRead(c, answer, methods, slot, readable) ==
    CASE c.state = 2 -> Startup(c, answer, slot)
      [] c.state = 3 -> ListMethods(c, answer, methods, slot, readable)
      [] c.state = 4 -> LookForMethod(c, slot, readable)
      [] c.state = 5 -> Authenticate(c, answer, slot, readable)
      [] OTHER -> c

-----------------------------------------------------------------------------
(* Channels.                                                               *)

\* d_state of a channel: 1 the channel is being opened, 2 idle, 3 exec, 4 shell,
\* 5 pty, 10 TCP; 66 and 9999 a program runs or the TCP channel is open.
IsOpen(ch) == ch.state \in {66, 9999}

\* d_state 2: the next thing that was asked for.
Settle(ch) ==
    IF ch.next = <<>> THEN [ch EXCEPT !.state = 2]
    ELSE [ch EXCEPT !.state = Head(ch.next), !.next = Tail(@)]

\* activate(), when libssh2 has the answer; with EAGAIN, or after a failure,
\* the channel stays as it is.
Activate(ch) ==
    CASE ch.state = 1 -> Settle(ch)
      [] ch.state = 2 -> Settle(ch)
      [] ch.state = 5 -> Settle([ch EXCEPT !.pty = IF @ = "asked" THEN "given" ELSE @])
      [] ch.state = 3 -> [ch EXCEPT !.state = 66]
      [] ch.state \in {4, 10} -> [ch EXCEPT !.state = 9999]
      [] OTHER -> ch

\* Faulty: a request does not wait for the one before it.
AskAtOnce(ch, what) ==
    IF ch.state > 5 THEN ch
    ELSE IF ch.state \in {2, 5} THEN [ch EXCEPT !.state = what]
    ELSE IF what \in Range(ch.next) THEN ch
    ELSE [ch EXCEPT !.next = Append(@, what)]

\* requestPty(), start() and startShell(): now, or once what is going on is done.
Ask(ch, what) ==
    IF ch.state > 5 THEN ch
    ELSE IF ch.state = 2 THEN [ch EXCEPT !.state = what]
    ELSE IF what \in Range(ch.next) THEN ch
    ELSE [ch EXCEPT !.next = Append(@, what)]

Fine == ~misused

\* openProcessChannel() and openTcpSocket()
OpenChannel(kind) ==
    /\ Fine /\ client.state = 6 /\ channel = NoChannel
    /\ channel' = [NoChannel EXCEPT !.kind = kind, !.session = client.session,
                                    !.state = IF kind = "process" THEN 1 ELSE 10]
    /\ UNCHANGED <<client, tcp, posted, misused, left>>

Programs == {3, 4}

AskChannel(what) ==
    /\ Fine /\ channel.kind = "process"
    /\ channel' = [Ask(channel, what) EXCEPT
                      !.pty = IF @ = "no" /\ what = 5 /\ channel.state \notin Programs
                                 /\ ~IsOpen(channel) /\ Range(channel.next) \cap Programs = {}
                              THEN "asked" ELSE @]
    /\ misused' = (channel.state = 2 /\ channel.session # client.session)
    /\ UNCHANGED <<client, tcp, posted, left>>

\* d_channelDestroyed() gets an object that is no QxtSshChannel any more and so
\* leaves it in the list of channels.
DeleteChannel ==
    /\ Fine /\ channel.kind \in {"process", "tcp"}
    /\ channel' = [NoChannel EXCEPT !.kind = "deleted"]
    /\ UNCHANGED <<client, tcp, posted, misused, left>>

\* d_state 6 of the client.
ActivateChannel ==
    /\ channel # NoChannel
    /\ IF channel.kind = "deleted"
       THEN misused' = TRUE /\ UNCHANGED channel
       ELSE IF channel.session # client.session
       THEN /\ misused' = (channel.state # 66 /\ (channel.state = 2 => channel.next # <<>>))
            /\ UNCHANGED channel
       ELSE /\ channel' \in {channel, Activate(channel)}
            /\ UNCHANGED misused

-----------------------------------------------------------------------------
\* The running call ends; its timers are queued behind the others.
Become(c, timers) ==
    /\ c.session <= MaxSessions
    /\ client' = [c EXCEPT !.timers = <<>>]
    /\ posted' = timers \o c.timers

LeftAtOnce(c, answer, slot) ==
    c.state = 3 /\ answer = "none needed" /\ slot.connected = "leave"

\* d_readyRead(), called by the socket or by a timer.  After a host key that is
\* not known the socket is told to close.
RunReadyRead(timers) ==
    /\ \E answer \in Answers(client) :
       \E methods \in MethodSets(answer), slot \in Slots(client, answer), readable \in KeysReadable(answer) :
          /\ Become(ClientReadyRead(client, answer, methods, slot, readable), timers)
          /\ tcp' \in IF client.state = 2 /\ answer = "stranger" THEN {tcp, "closed"} ELSE {tcp}
          /\ left' = (left \/ LeftAtOnce(client, answer, slot))
    /\ IF client.state = 6 /\ channel # NoChannel THEN ActivateChannel ELSE UNCHANGED <<channel, misused>>

DataArrives ==
    /\ Fine /\ tcp = "open"
    /\ RunReadyRead(posted)

TimerFires ==
    /\ Fine /\ posted # <<>>
    /\ \/ Head(posted) = "readyRead" /\ RunReadyRead(Tail(posted))
       \/ /\ Head(posted) = "error"   \* d_delaydErrorEmit()
          /\ \E reaction \in Reactions : Become(React(client, reaction), Tail(posted))
          /\ UNCHANGED <<tcp, channel, misused, left>>

\* QTcpSocket ignores the call unless it is closed.
ConnectToHost ==
    /\ Fine
    /\ client' = [client EXCEPT !.state = 1]
    /\ tcp' = IF tcp = "closed" THEN "connecting" ELSE tcp
    /\ UNCHANGED <<posted, channel, misused, left>>

\* d_connected() calls d_readyRead(), which sends a greeting.
Connected ==
    /\ Fine /\ tcp = "connecting"
    /\ tcp' = "open"
    /\ client' = [client EXCEPT !.state = 2]
    /\ UNCHANGED <<posted, channel, misused, left>>

\* Nothing is connected to the socket's error().
ConnectionFails ==
    /\ Fine /\ tcp = "connecting"
    /\ tcp' = "closed"
    /\ UNCHANGED <<client, posted, channel, misused, left>>

\* d_disconnected()
ConnectionIsLost ==
    /\ Fine /\ tcp = "open"
    /\ tcp' = "closed"
    /\ Become(IF client.state = 0 THEN client ELSE Reset(client), posted)
    /\ UNCHANGED <<channel, misused, left>>

\* setPassphrase(), setKeyFiles(), disconnectFromHost(), loadKnownHosts()
Configure ==
    /\ Fine
    /\ \/ \E reaction \in Reactions \ {"none"} : Become(React(client, reaction), posted)
       \/ Become([client EXCEPT !.known = TRUE], posted)
    /\ UNCHANGED <<tcp, channel, misused, left>>

Next ==
    \/ DataArrives \/ TimerFires
    \/ ConnectToHost \/ Connected \/ ConnectionFails \/ ConnectionIsLost
    \/ Configure
    \/ \E kind \in {"process", "tcp"} : OpenChannel(kind)
    \/ \E what \in {3, 4, 5} : AskChannel(what)
    \/ DeleteChannel

Spec == Init /\ [][Next]_vars

-----------------------------------------------------------------------------
\* Passwords and keys go only to a server whose host key was found among the
\* known hosts in the same session, whatever slots do in the middle of it - save
\* a slot of connected() that disconnects from a server without authentication.
SecretsGoToKnownHosts == client.leaked => left

\* The same credentials are not offered again to a server that refused them: a
\* password, or a key with its passphrase (after setPassphrase() a key that was
\* refused is tried once more).  The exception is that of SecretsGoToKnownHosts.
RefusedIsNotRepeated == client.repeated => left

\* authenticationRequired() asks for credentials only when all there are were
\* refused - save those that were changed while a try was under way, which the
\* refusal of that try marks as failed - and credentials given in state 4 are
\* tried: a call of d_readyRead() is coming.
CredentialsAreUsed ==
    /\ ~client.rash
    /\ client.state = 4 /\ Untried(client) # {} => "readyRead" \in Range(posted)

\* Channels can be opened only once the server has authenticated the user.
ReadyMeansAuthenticated == client.state = 6 => client.authenticated \/ left

\* A terminal that was requested before any program is there when one starts.
TerminalComesFirst ==
    channel.pty = "asked" => ~IsOpen(channel) /\ channel.state \notin Programs

\* disconnectFromHost(): "Any open channels will be closed."
OpenChannelsHaveSession == IsOpen(channel) => channel.session = client.session
=============================================================================
