----------------------------- MODULE Pop3Proofs -----------------------------
(***************************************************************************)
(* Proofs about Pop3, for every number of commands and connections, every  *)
(* server and every pattern of cancellations: the types, that a Busy       *)
(* client runs a reply and a Ready one has none waiting, and how often     *)
(* finished() is emitted.  For applications that cancel nothing but what   *)
(* waits in the queue also that client and server keep in step, so that    *)
(* answers, results and passwords go where they belong.                    *)
(***************************************************************************)
EXTENDS Pop3, SequenceTheorems, TLAPS

Steps == {"Start", "StlsSent", "TlsOk", "UserSent", "PassSent", "Sent", "ListSent",
          "OkReceived", "SizeSent", "RetrSent", "QuitSent"}

\* A reply, which emitted finished() as often as FinishedOnce allows.
Replies ==
    {r \in [kind : Kinds \cup {"auth"}, step : Steps,
            status : {"Pending", "Running", "Completed", "Error"},
            signals : Nat, cancelled : BOOLEAN] :
        /\ r.step \in StepsOf(r.kind) \cup {"Start"}
        /\ r.signals <= IF r.cancelled THEN 2 ELSE 1}

\* A reply that emitted finished() only if it was cancelled.
Unfinished(r) == r.signals <= IF r.cancelled THEN 1 ELSE 0

\* Of the replies rs, those in the queue: no reply is there twice, and none was
\* started before.
Queued(rs, queue) ==
    /\ queue \in Seq(1 .. Len(rs))
    /\ \A i, j \in DOMAIN queue : queue[i] = queue[j] => i = j
    /\ \A i \in DOMAIN queue : rs[queue[i]].step = "Start" /\ Unfinished(rs[queue[i]])

QueueInv ==
    /\ state \in {"Disconnected", "StartState", "Busy", "Ready"}
    /\ replies \in Seq(Replies)
    /\ Queued(replies, pending)
    /\ current \in 0 .. Len(replies)
    /\ current # 0 => replies[current].step # "Start" /\ Unfinished(replies[current])
    /\ NoneWaitsInVain

CommandLines(n) == [cmd : Commands, reply : 1 .. n]
AnswerLines(n) == [class : {"+OK", "-ERR", "text", "."}, reply : 0 .. n]

\* The other variables.
LinkInv ==
    /\ disableStartTLS \in BOOLEAN
    /\ link \in {"down", "connecting", "up", "closing"}
    /\ tls \in {"no", "handshake", "yes"}
    /\ connects \in 0 .. MaxConnects
    /\ toServer \in Seq(CommandLines(Len(replies)))
    /\ toClient \in Seq(AnswerLines(Len(replies)))
    /\ server \in [user : BOOLEAN, authed : BOOLEAN, rejected : BOOLEAN, quit : BOOLEAN]
    /\ served \subseteq 1 .. Len(replies)

PInv == QueueInv /\ LinkInv

-----------------------------------------------------------------------------
\* The first step of each kind of reply, and the steps after it.
LEMMA Beginnings ==
    ASSUME NEW kind \in Kinds \cup {"auth"}
    PROVE  /\ Begin(kind).step \in StepsOf(kind) /\ Begin(kind).step \in Steps \ {"Start"}
           /\ Begin(kind).cmd \in Commands
  BY DEF Begin, Goes, StepsOf, Steps, Kinds, Commands

LEMMA Answers ==
    ASSUME NEW r \in Replies, r.step # "Start", NEW line
    PROVE  LET answer == Answer(r.step, line) IN
           /\ answer.step \in StepsOf(r.kind) /\ answer.step \in Steps \ {"Start"}
           /\ answer.cmd \in Commands \cup {"none"}
           /\ answer.code \in {"none", "OK", "Failed"}
<1>1. r.step \in StepsOf(r.kind) /\ r.kind \in Kinds \cup {"auth"}
  BY DEF Replies
<1>2. CASE r.kind = "auth"
  BY <1>1, <1>2 DEF Answer, AfterStls, Goes, Ends, StepsOf, Steps, Commands
<1>3. CASE r.kind = "single"
  BY <1>1, <1>3 DEF Answer, Goes, Ends, StepsOf, Steps, Commands
<1>4. CASE r.kind = "list"
  BY <1>1, <1>4 DEF Answer, AfterList, Goes, Ends, StepsOf, Steps, Commands
<1>5. CASE r.kind = "retr"
  BY <1>1, <1>5 DEF Answer, Goes, Ends, StepsOf, Steps, Commands
<1>6. CASE r.kind = "quit"
  BY <1>1, <1>6 DEF Answer, Goes, Ends, StepsOf, Steps, Commands
<1> QED BY <1>1, <1>2, <1>3, <1>4, <1>5, <1>6 DEF Kinds

\* Changing one reply.
LEMMA ReplyChanged ==
    ASSUME NEW rs \in Seq(Replies), NEW r \in 1 .. Len(rs), NEW new \in Replies
    PROVE  LET after == [rs EXCEPT ![r] = new] IN
           /\ after \in Seq(Replies) /\ Len(after) = Len(rs)
           /\ \A q \in 1 .. Len(rs) : after[q] = IF q = r THEN new ELSE rs[q]
  BY ExceptSeq

\* The queue does not mind changes to a reply that was started.
LEMMA QueueKept ==
    ASSUME NEW rs \in Seq(Replies), NEW after \in Seq(Replies), NEW queue, Queued(rs, queue),
           NEW r \in 1 .. Len(rs), rs[r].step # "Start", Len(after) = Len(rs),
           \A q \in 1 .. Len(rs) : q # r => after[q] = rs[q]
    PROVE  Queued(after, queue)
<1>1. \A i \in DOMAIN queue : queue[i] \in 1 .. Len(rs)
  BY LenProperties, ElementOfSeq DEF Queued
<1>2. \A i \in DOMAIN queue : after[queue[i]] = rs[queue[i]]
  BY <1>1 DEF Queued
<1> QED BY <1>2 DEF Queued

LEMMA TailQueued ==
    ASSUME NEW rs \in Seq(Replies), NEW queue, Queued(rs, queue), queue # <<>>
    PROVE  /\ Head(queue) \in 1 .. Len(rs)
           /\ rs[Head(queue)].step = "Start" /\ Unfinished(rs[Head(queue)])
           /\ Queued(rs, Tail(queue))
           /\ \A i \in DOMAIN Tail(queue) : Tail(queue)[i] # Head(queue)
<1>1. queue \in Seq(1 .. Len(rs))
  BY DEF Queued
<1>2. /\ Head(queue) \in 1 .. Len(rs)
      /\ Tail(queue) \in Seq(1 .. Len(rs))
      /\ Len(Tail(queue)) = Len(queue) - 1
      /\ \A i \in 1 .. Len(Tail(queue)) : Tail(queue)[i] = queue[i + 1]
  BY <1>1, HeadTailProperties
<1>3. /\ Len(queue) \in Nat /\ Len(queue) # 0
      /\ DOMAIN queue = 1 .. Len(queue) /\ DOMAIN Tail(queue) = 1 .. Len(queue) - 1
  BY <1>1, <1>2, LenProperties, EmptySeq
<1>4. Head(queue) = queue[1] /\ 1 \in DOMAIN queue
  BY <1>1, <1>3
<1>5. \A i \in DOMAIN Tail(queue) : i + 1 \in DOMAIN queue /\ Tail(queue)[i] = queue[i + 1] /\ i + 1 # 1
  BY <1>2, <1>3
<1>6. rs[Head(queue)].step = "Start" /\ Unfinished(rs[Head(queue)])
  BY <1>4 DEF Queued
<1>7. \A i, j \in DOMAIN Tail(queue) : Tail(queue)[i] = Tail(queue)[j] => i = j
  <2> TAKE i, j \in DOMAIN Tail(queue)
  <2> HAVE Tail(queue)[i] = Tail(queue)[j]
  <2>1. queue[i + 1] = queue[j + 1] => i + 1 = j + 1
    BY <1>5 DEF Queued
  <2>2. i \in Int /\ j \in Int
    BY <1>3
  <2> QED BY <1>5, <2>1, <2>2
<1>8. \A i \in DOMAIN Tail(queue) : rs[Tail(queue)[i]].step = "Start" /\ Unfinished(rs[Tail(queue)[i]])
  BY <1>5 DEF Queued
<1>9. \A i \in DOMAIN Tail(queue) : Tail(queue)[i] # Head(queue)
  BY <1>4, <1>5 DEF Queued
<1> QED BY <1>2, <1>6, <1>7, <1>8, <1>9 DEF Queued

\* The head of a queue is started.
LEMMA StartedHead ==
    ASSUME NEW rs \in Seq(Replies), NEW queue, Queued(rs, queue), queue # <<>>
    PROVE  LET h == Head(queue)
               after == [rs EXCEPT ![h].status = "Running", ![h].step = Begin(rs[h].kind).step]
           IN  /\ after \in Seq(Replies) /\ Len(after) = Len(rs)
               /\ Queued(after, Tail(queue))
               /\ h \in 1 .. Len(rs)
               /\ after[h].step # "Start" /\ Unfinished(after[h]) /\ after[h].status = "Running"
               /\ after = [rs EXCEPT ![h] = [rs[h] EXCEPT !.status = "Running", !.step = Begin(rs[h].kind).step]]
<1> DEFINE h == Head(queue)
           new == [rs[h] EXCEPT !.status = "Running", !.step = Begin(rs[h].kind).step]
           after == [rs EXCEPT ![h] = new]
<1>1. h \in 1 .. Len(rs) /\ rs[h].step = "Start" /\ Unfinished(rs[h])
  BY TailQueued
<1>2. rs[h] \in Replies
  BY <1>1, ElementOfSeq
<1>3. /\ new \in Replies /\ new.step # "Start" /\ new.status = "Running"
      /\ new.signals = rs[h].signals /\ new.cancelled = rs[h].cancelled
  BY <1>2, Beginnings DEF Replies
<1>4. after = [rs EXCEPT ![h].status = "Running", ![h].step = Begin(rs[h].kind).step]
  OBVIOUS
<1> HIDE DEF new
<1>5. /\ after \in Seq(Replies) /\ Len(after) = Len(rs)
      /\ \A q \in 1 .. Len(rs) : after[q] = IF q = h THEN new ELSE rs[q]
  BY <1>1, <1>3, ReplyChanged
<1> HIDE DEF after
<1>6. Queued(after, Tail(queue))
  <2>1. Queued(rs, Tail(queue)) /\ \A i \in DOMAIN Tail(queue) : Tail(queue)[i] # h
    BY TailQueued
  <2>2. \A i \in DOMAIN Tail(queue) : Tail(queue)[i] \in 1 .. Len(rs)
    BY <2>1, LenProperties, ElementOfSeq DEF Queued
  <2>3. \A i \in DOMAIN Tail(queue) : after[Tail(queue)[i]] = rs[Tail(queue)[i]]
    BY <1>5, <2>1, <2>2
  <2> QED BY <1>5, <2>1, <2>3 DEF Queued
<1>7. after[h] = new /\ Unfinished(after[h])
  BY <1>1, <1>3, <1>5 DEF Unfinished
<1> QED BY <1>1, <1>3, <1>4, <1>5, <1>6, <1>7 DEF after, new

\* dequeue() in state Ready.
LEMMA StartStep ==
    ASSUME NEW rs \in Seq(Replies), NEW queue, Queued(rs, queue), Start(rs, queue)
    PROVE  QueueInv' /\ Len(replies') = Len(rs)
<1>1. CASE queue = <<>>
  BY <1>1 DEF Start, QueueInv, NoneWaitsInVain
<1>2. CASE queue # <<>>
  <2> DEFINE h == Head(queue)
             after == [rs EXCEPT ![h].status = "Running", ![h].step = Begin(rs[h].kind).step]
  <2>1. replies' = after /\ pending' = Tail(queue) /\ current' = h /\ state' = "Busy"
    BY <1>2 DEF Start
  <2>2. /\ after \in Seq(Replies) /\ Len(after) = Len(rs) /\ Queued(after, Tail(queue))
        /\ h \in 1 .. Len(rs)
        /\ after[h].step # "Start" /\ Unfinished(after[h]) /\ after[h].status = "Running"
    BY <1>2, StartedHead
  <2> HIDE DEF h, after
  <2>3. h # 0 /\ h \in 0 .. Len(after)
    BY <2>2
  <2> QED BY <2>1, <2>2, <2>3 DEF QueueInv, NoneWaitsInVain
<1> QED BY <1>1, <1>2

\* What may be in flight when there are more replies.
LEMMA Grows ==
    ASSUME NEW n \in Nat, NEW m \in Nat, n <= m
    PROVE  /\ \A q \in Seq(CommandLines(n)) : q \in Seq(CommandLines(m))
           /\ \A q \in Seq(AnswerLines(n)) : q \in Seq(AnswerLines(m))
<1>1. CommandLines(n) \subseteq CommandLines(m) /\ AnswerLines(n) \subseteq AnswerLines(m)
  BY DEF CommandLines, AnswerLines
<1> QED BY <1>1, SeqMonotonic

LEMMA ReplyCount ==
    ASSUME PInv
    PROVE  Len(replies) \in Nat /\ DOMAIN replies = 1 .. Len(replies)
  BY LenProperties DEF PInv, QueueInv

\* What is written by a reply, if anything.
LEMMA Commanded ==
    ASSUME NEW n \in Nat, toServer \in Seq(CommandLines(n)),
           NEW cmd \in Commands \cup {"none"}, NEW r \in 1 .. n, Write(CommandOf(cmd, r))
    PROVE  toServer' \in Seq(CommandLines(n))
<1>1. CommandOf(cmd, r) \in Seq(CommandLines(n))
  <2>1. CASE cmd = "none"
    BY <2>1, EmptySeq DEF CommandOf
  <2>2. CASE cmd # "none"
    <3>1. [cmd |-> cmd, reply |-> r] \in CommandLines(n)
      BY <2>2 DEF CommandLines
    <3>2. \A c \in CommandLines(n) : <<c>> \in Seq(CommandLines(n))
      OBVIOUS
    <3> QED BY <2>2, <3>1, <3>2 DEF CommandOf
  <2> QED BY <2>1, <2>2
<1> QED BY <1>1, ConcatProperties DEF Write

\* dequeue() with what the reply writes.
LEMMA DequeueStep ==
    ASSUME NEW rs \in Seq(Replies), NEW queue, Queued(rs, queue), Dequeue(rs, queue),
           toServer \in Seq(CommandLines(Len(rs)))
    PROVE  QueueInv' /\ Len(replies') = Len(rs) /\ toServer' \in Seq(CommandLines(Len(replies')))
<1>1. QueueInv' /\ Len(replies') = Len(rs)
  BY StartStep DEF Dequeue
<1>2. Len(rs) \in Nat
  BY LenProperties
<1>3. toServer' \in Seq(CommandLines(Len(rs)))
  <2>1. CASE queue = <<>>
    BY <2>1, EmptySeq, ConcatProperties DEF Dequeue, Written, Write
  <2>2. CASE queue # <<>>
    <3>1. Head(queue) \in 1 .. Len(rs) /\ rs[Head(queue)] \in Replies
      BY <2>2, TailQueued, ElementOfSeq
    <3>2. Begin(rs[Head(queue)].kind).cmd \in Commands
      BY <3>1, Beginnings DEF Replies
    <3>3. Write(CommandOf(Begin(rs[Head(queue)].kind).cmd, Head(queue)))
      BY <2>2 DEF Dequeue, Written
    <3> QED BY <1>2, <3>1, <3>2, <3>3, Commanded
  <2> QED BY <2>1, <2>2
<1> QED BY <1>1, <1>3

\* A reply that joins the queue.
LEMMA Joined ==
    ASSUME QueueInv, NEW kind \in Kinds \cup {"auth"}
    PROVE  LET rs == Append(replies, NewReply(kind))
               queue == Append(pending, Len(rs))
           IN  /\ rs \in Seq(Replies) /\ Len(rs) = Len(replies) + 1 /\ Len(replies) \in Nat
               /\ \A r \in 1 .. Len(replies) : rs[r] = replies[r]
               /\ Queued(rs, queue) /\ queue # <<>>
<1> DEFINE rs == Append(replies, NewReply(kind))
           n == Len(replies)
           queue == Append(pending, Len(rs))
<1>1. NewReply(kind) \in Replies /\ NewReply(kind).step = "Start" /\ Unfinished(NewReply(kind))
  BY DEF NewReply, Replies, Steps, Unfinished
<1>2. /\ rs \in Seq(Replies) /\ Len(rs) = n + 1 /\ n \in Nat
      /\ \A r \in 1 .. n : rs[r] = replies[r]
      /\ rs[n + 1] = NewReply(kind)
  BY <1>1, AppendProperties, LenProperties DEF QueueInv
<1>3. /\ pending \in Seq(1 .. n) /\ DOMAIN pending = 1 .. Len(pending) /\ Len(pending) \in Nat
      /\ \A i \in DOMAIN pending : pending[i] \in 1 .. n
  BY LenProperties, ElementOfSeq DEF QueueInv, Queued
<1> HIDE DEF rs, n
<1>4. pending \in Seq(1 .. Len(rs)) /\ Len(rs) \in 1 .. Len(rs)
  <2>1. 1 .. n \subseteq 1 .. Len(rs)
    BY <1>2
  <2> QED BY <1>2, <1>3, <2>1, SeqMonotonic
<1>5. /\ queue \in Seq(1 .. Len(rs)) /\ queue # <<>>
      /\ Len(queue) = Len(pending) + 1
      /\ \A i \in 1 .. Len(pending) : queue[i] = pending[i]
      /\ queue[Len(pending) + 1] = n + 1
  BY <1>2, <1>4, AppendProperties
<1>6. DOMAIN queue = 1 .. Len(pending) + 1
  BY <1>5, LenProperties
<1> HIDE DEF queue
<1>7. \A i \in DOMAIN queue : \/ i \in DOMAIN pending /\ queue[i] = pending[i] /\ queue[i] \in 1 .. n
                              \/ i = Len(pending) + 1 /\ queue[i] = n + 1
  BY <1>3, <1>5, <1>6
<1>8. \A i, j \in DOMAIN queue : queue[i] = queue[j] => i = j
  BY <1>2, <1>7 DEF QueueInv, Queued
<1>9. \A i \in DOMAIN queue : rs[queue[i]].step = "Start" /\ Unfinished(rs[queue[i]])
  <2> TAKE i \in DOMAIN queue
  <2>1. CASE i \in DOMAIN pending /\ queue[i] = pending[i] /\ queue[i] \in 1 .. n
    <3>1. rs[queue[i]] = replies[pending[i]]
      BY <1>2, <2>1
    <3> QED BY <2>1, <3>1 DEF QueueInv, Queued
  <2>2. CASE queue[i] = n + 1
    BY <1>1, <1>2, <2>2
  <2> QED BY <1>7, <2>1, <2>2
<1>10. Queued(rs, queue)
  BY <1>5, <1>8, <1>9 DEF Queued
<1> QED BY <1>2, <1>5, <1>10 DEF rs, n, queue

LEMMA EnqueueStep ==
    ASSUME PInv, NEW kind \in Kinds \cup {"auth"}, Enqueue(kind)
    PROVE  /\ QueueInv' /\ Len(replies) \in Nat /\ Len(replies') = Len(replies) + 1
           /\ toServer' \in Seq(CommandLines(Len(replies')))
<1> DEFINE rs == Append(replies, NewReply(kind))
           queue == Append(pending, Len(rs))
<1>1. /\ rs \in Seq(Replies) /\ Len(rs) = Len(replies) + 1 /\ Len(replies) \in Nat
      /\ \A r \in 1 .. Len(replies) : rs[r] = replies[r]
      /\ Queued(rs, queue) /\ queue # <<>>
  BY Joined DEF PInv
<1>2. toServer \in Seq(CommandLines(Len(rs)))
  <2> HIDE DEF rs
  <2> QED BY <1>1, Grows DEF PInv, LinkInv
<1>3. CASE Dequeue(rs, queue)
  <2> HIDE DEF rs, queue
  <2> QED BY <1>1, <1>2, <1>3, DequeueStep
<1>4. CASE ~MayDequeue
  <2>1. /\ replies' = rs /\ pending' = queue
        /\ state' = state /\ current' = current /\ toServer' = toServer
    BY <1>4 DEF Enqueue
  <2> HIDE DEF rs, queue
  <2>2. current # 0 => current \in 1 .. Len(replies) /\ rs[current] = replies[current]
    BY <1>1 DEF PInv, QueueInv
  <2>3. QueueInv'
    BY <1>1, <1>4, <2>1, <2>2 DEF MayDequeue, PInv, QueueInv, NoneWaitsInVain
  <2> QED BY <1>1, <1>2, <2>1, <2>3
<1> QED BY <1>3, <1>4 DEF Enqueue

\* A reply's record once it emitted finished(), and once it was cancelled.
LEMMA FinishedReply ==
    ASSUME NEW r \in Replies, NEW status \in {"Completed", "Error"}
    PROVE  LET new == [r EXCEPT !.status = status, !.signals = @ + 1]
               dropped == [r EXCEPT !.status = status, !.signals = @ + 1, !.cancelled = TRUE]
               Records == [kind : Kinds \cup {"auth"}, step : Steps,
                           status : {"Pending", "Running", "Completed", "Error"},
                           signals : Nat, cancelled : BOOLEAN]
           IN  /\ new.kind = r.kind /\ new.step = r.step /\ new.status = status
               /\ new.signals = r.signals + 1 /\ new.cancelled = r.cancelled
               /\ new \in Records
               /\ dropped.kind = r.kind /\ dropped.step = r.step
               /\ dropped.signals = r.signals + 1 /\ dropped.cancelled = TRUE
               /\ dropped \in Records
<1>1. r \in [kind : Kinds \cup {"auth"}, step : Steps,
             status : {"Pending", "Running", "Completed", "Error"},
             signals : Nat, cancelled : BOOLEAN]
  BY DEF Replies
<1>2. r.signals + 1 \in Nat
  BY <1>1
<1>3. \A n \in Nat : LET new == [r EXCEPT !.status = status, !.signals = n] IN
          /\ new.kind = r.kind /\ new.step = r.step /\ new.status = status
          /\ new.signals = n /\ new.cancelled = r.cancelled
          /\ new \in [kind : Kinds \cup {"auth"}, step : Steps,
                      status : {"Pending", "Running", "Completed", "Error"},
                      signals : Nat, cancelled : BOOLEAN]
  BY <1>1
<1>4. \A n \in Nat : LET new == [r EXCEPT !.status = status, !.signals = n, !.cancelled = TRUE] IN
          /\ new.kind = r.kind /\ new.step = r.step
          /\ new.signals = n /\ new.cancelled = TRUE
          /\ new \in [kind : Kinds \cup {"auth"}, step : Steps,
                      status : {"Pending", "Running", "Completed", "Error"},
                      signals : Nat, cancelled : BOOLEAN]
  BY <1>1
<1> QED BY <1>2, <1>3, <1>4

\* The replies after one of them, which was started, emitted finished().
LEMMA FinishedReplies ==
    ASSUME PInv, NEW r \in 1 .. Len(replies), replies[r].step # "Start", Unfinished(replies[r]),
           NEW status \in {"Completed", "Error"}
    PROVE  /\ Finished(r, status) \in Seq(Replies) /\ Len(Finished(r, status)) = Len(replies)
           /\ \A q \in 1 .. Len(replies) : q # r => Finished(r, status)[q] = replies[q]
           /\ Queued(Finished(r, status), pending)
<1> DEFINE new == [replies[r] EXCEPT !.status = status, !.signals = @ + 1]
           after == [replies EXCEPT ![r] = new]
<1>1. replies \in Seq(Replies) /\ replies[r] \in Replies /\ Queued(replies, pending)
  BY ElementOfSeq DEF PInv, QueueInv
<1>2. new \in Replies
  <2>1. /\ replies[r].signals \in Nat /\ replies[r].cancelled \in BOOLEAN
        /\ replies[r].signals <= IF replies[r].cancelled THEN 1 ELSE 0
    BY <1>1 DEF Replies, Unfinished
  <2>2. /\ new.kind = replies[r].kind /\ new.step = replies[r].step /\ new.status = status
        /\ new.signals = replies[r].signals + 1 /\ new.cancelled = replies[r].cancelled
        /\ new \in [kind : Kinds \cup {"auth"}, step : Steps,
                    status : {"Pending", "Running", "Completed", "Error"},
                    signals : Nat, cancelled : BOOLEAN]
    BY <1>1, FinishedReply, ZenonT(30)
  <2> HIDE DEF new
  <2>3. new.signals <= IF new.cancelled THEN 2 ELSE 1
    <3>1. CASE replies[r].cancelled
      BY <2>1, <2>2, <3>1
    <3>2. CASE ~replies[r].cancelled
      BY <2>1, <2>2, <3>2
    <3> QED BY <3>1, <3>2
  <2>4. new.step \in StepsOf(new.kind) \cup {"Start"}
    BY <1>1, <2>2 DEF Replies
  <2> QED BY <2>2, <2>3, <2>4 DEF Replies
<1>3. Finished(r, status) = after
  BY DEF Finished
<1> HIDE DEF new
<1>4. /\ after \in Seq(Replies) /\ Len(after) = Len(replies)
      /\ \A q \in 1 .. Len(replies) : after[q] = IF q = r THEN new ELSE replies[q]
  BY <1>1, <1>2, ReplyChanged
<1> HIDE DEF after
<1>5. Queued(after, pending)
  BY <1>1, <1>4, QueueKept
<1> QED BY <1>3, <1>4, <1>5

\* The reply that a line is given to.
LEMMA Running ==
    ASSUME PInv, state = "Busy" \/ current # 0
    PROVE  /\ current \in 1 .. Len(replies) /\ replies[current] \in Replies
           /\ replies[current].step # "Start" /\ Unfinished(replies[current])
<1>1. current \in 1 .. Len(replies)
  BY ReplyCount DEF PInv, QueueInv, NoneWaitsInVain
<1> QED BY <1>1, ElementOfSeq DEF PInv, QueueInv

LEMMA DialogStep ==
    ASSUME PInv, state = "Busy", NEW line, Dialog(line)
    PROVE  QueueInv' /\ Len(replies') = Len(replies) /\ toServer' \in Seq(CommandLines(Len(replies')))
<1> DEFINE answer == Answer(replies[current].step, line)
<1>1. /\ current \in 1 .. Len(replies) /\ replies[current] \in Replies
      /\ replies[current].step # "Start" /\ Unfinished(replies[current])
  BY Running
<1>2. /\ answer.step \in StepsOf(replies[current].kind) /\ answer.step \in Steps \ {"Start"}
      /\ answer.cmd \in Commands \cup {"none"}
      /\ answer.code \in {"none", "OK", "Failed"}
  BY <1>1, Answers
<1>3. /\ Len(replies) \in Nat /\ toServer \in Seq(CommandLines(Len(replies)))
      /\ replies \in Seq(Replies) /\ Queued(replies, pending)
  BY ReplyCount DEF PInv, LinkInv, QueueInv
<1>4. CASE answer.code = "none"
  <2> DEFINE new == [replies[current] EXCEPT !.step = answer.step]
             after == [replies EXCEPT ![current] = new]
  <2>1. /\ replies' = after /\ Write(CommandOf(answer.cmd, current))
        /\ UNCHANGED <<state, current, pending>>
    BY <1>4 DEF Dialog
  <2> HIDE DEF answer
  <2>2. /\ new \in Replies /\ new.step # "Start" /\ Unfinished(new)
        /\ new.status = replies[current].status
    BY <1>1, <1>2 DEF Replies, Unfinished
  <2> HIDE DEF new
  <2>3. /\ after \in Seq(Replies) /\ Len(after) = Len(replies)
        /\ \A q \in 1 .. Len(replies) : after[q] = IF q = current THEN new ELSE replies[q]
    BY <1>1, <1>3, <2>2, ReplyChanged
  <2> HIDE DEF after
  <2>4. Queued(after, pending)
    BY <1>1, <1>3, <2>3, QueueKept
  <2>5. after[current] = new
    BY <1>1, <2>3
  <2>6. QueueInv'
    BY <2>1, <2>2, <2>3, <2>4, <2>5 DEF PInv, QueueInv, NoneWaitsInVain
  <2>7. toServer' \in Seq(CommandLines(Len(replies)))
    BY <1>1, <1>2, <1>3, <2>1, Commanded
  <2> QED BY <2>1, <2>3, <2>6, <2>7
<1>5. CASE answer.code # "none"
  <2> DEFINE rs == Finished(current, Status(answer.code))
  <2>1. Dequeue(rs, pending)
    BY <1>5 DEF Dialog, Terminate
  <2>2. Status(answer.code) \in {"Completed", "Error"}
    BY DEF Status
  <2>3. rs \in Seq(Replies) /\ Len(rs) = Len(replies) /\ Queued(rs, pending)
    BY <1>1, <2>2, FinishedReplies
  <2> HIDE DEF rs
  <2> QED BY <1>3, <2>1, <2>3, DequeueStep
<1> QED BY <1>4, <1>5

-----------------------------------------------------------------------------
(* One step for each action.                                               *)

\* The variables of the connection, once the replies are known.
LEMMA LinkStep ==
    ASSUME PInv, Len(replies') \in Nat, Len(replies) <= Len(replies'),
           UNCHANGED <<disableStartTLS, connects, serverVars>>,
           link' \in {"down", "connecting", "up", "closing"}, tls' \in {"no", "handshake", "yes"},
           toServer' \in Seq(CommandLines(Len(replies'))),
           toClient' \in Seq(AnswerLines(Len(replies)))
    PROVE  LinkInv'
<1>1. Len(replies) \in Nat
  BY ReplyCount
<1>2. toClient' \in Seq(AnswerLines(Len(replies')))
  BY <1>1, Grows
<1>3. served' \subseteq 1 .. Len(replies')
  BY <1>1 DEF PInv, LinkInv, serverVars
<1> QED BY <1>2, <1>3 DEF PInv, LinkInv, serverVars

LEMMA Consumed ==
    ASSUME PInv, toClient # <<>>
    PROVE  Tail(toClient) \in Seq(AnswerLines(Len(replies)))
  BY HeadTailProperties DEF PInv, LinkInv

LEMMA IssueStep ==
    ASSUME PInv, NEW kind \in Kinds, Enqueue(kind),
           UNCHANGED <<disableStartTLS, link, tls, connects, toClient, serverVars>>
    PROVE  PInv'
<1>1. /\ QueueInv' /\ Len(replies) \in Nat /\ Len(replies') = Len(replies) + 1
      /\ toServer' \in Seq(CommandLines(Len(replies')))
  BY EnqueueStep
<1>2. LinkInv'
  BY <1>1, LinkStep DEF PInv, LinkInv
<1> QED BY <1>1, <1>2 DEF PInv

\* cancel() of a reply in the queue, of the one that runs, or of another.
LEMMA CancelStep ==
    ASSUME PInv, NEW r \in DOMAIN replies, Cancel(r)
    PROVE  PInv'
<1> DEFINE new == [replies[r] EXCEPT !.status = "Error", !.signals = @ + 1, !.cancelled = TRUE]
           rs == [Finished(r, "Error") EXCEPT ![r].cancelled = TRUE]
           after == [replies EXCEPT ![r] = new]
<1>1. /\ r \in 1 .. Len(replies) /\ Len(replies) \in Nat /\ replies \in Seq(Replies)
      /\ replies[r] \in Replies /\ ~replies[r].cancelled /\ Queued(replies, pending)
  BY ReplyCount, ElementOfSeq DEF PInv, QueueInv, Cancel
<1>2. replies[r].signals \in Nat /\ replies[r].signals <= 1
  BY <1>1 DEF Replies
<1>3. /\ new \in Replies /\ new.step = replies[r].step /\ new.cancelled
      /\ new.signals = replies[r].signals + 1 /\ new.kind = replies[r].kind
  <2>1. /\ new.kind = replies[r].kind /\ new.step = replies[r].step
        /\ new.signals = replies[r].signals + 1 /\ new.cancelled = TRUE
        /\ new \in [kind : Kinds \cup {"auth"}, step : Steps,
                    status : {"Pending", "Running", "Completed", "Error"},
                    signals : Nat, cancelled : BOOLEAN]
    BY <1>1, FinishedReply
  <2> HIDE DEF new
  <2>2. new.step \in StepsOf(new.kind) \cup {"Start"}
    BY <1>1, <2>1 DEF Replies
  <2>3. new.cancelled /\ new.signals <= IF new.cancelled THEN 2 ELSE 1
    BY <1>2, <2>1
  <2> QED BY <2>1, <2>2, <2>3 DEF Replies
<1>4. rs = after
  BY <1>1 DEF Finished
<1> HIDE DEF new
<1>5. /\ after \in Seq(Replies) /\ Len(after) = Len(replies)
      /\ \A q \in 1 .. Len(replies) : after[q] = IF q = r THEN new ELSE replies[q]
  BY <1>1, <1>3, ReplyChanged
<1>6. toServer \in Seq(CommandLines(Len(after)))
  BY <1>5 DEF PInv, LinkInv
<1>7. CASE replies[r].step = "Start"
  <2>1. replies' = after /\ UNCHANGED <<state, current, pending, toServer>>
    BY <1>4, <1>7 DEF Cancel
  <2> HIDE DEF after, rs
  <2>2. current # 0 => current \in 1 .. Len(replies) /\ current # r
    BY <1>7 DEF PInv, QueueInv
  <2>3. Queued(after, pending)
    <3>1. \A i \in DOMAIN pending : /\ pending[i] \in 1 .. Len(replies)
                                    /\ replies[pending[i]].step = "Start" /\ Unfinished(replies[pending[i]])
      BY <1>1, LenProperties, ElementOfSeq DEF Queued
    <3>2. Unfinished(replies[r]) => Unfinished(new)
      <4>1. Unfinished(replies[r]) => replies[r].signals <= 0
        BY <1>1 DEF Unfinished
      <4>2. replies[r].signals <= 0 => new.signals <= 1
        BY <1>2, <1>3
      <4> QED BY <1>3, <4>1, <4>2 DEF Unfinished
    <3>3. \A i \in DOMAIN pending : after[pending[i]].step = "Start" /\ Unfinished(after[pending[i]])
      BY <1>3, <1>5, <3>1, <3>2
    <3> QED BY <1>1, <1>5, <3>3 DEF Queued
  <2>4. current # 0 => after[current] = replies[current]
    BY <1>5, <2>2
  <2>5. QueueInv'
    BY <1>5, <2>1, <2>3, <2>4 DEF PInv, QueueInv, NoneWaitsInVain
  <2>6. LinkInv'
    BY <1>1, <1>5, <1>6, <2>1, LinkStep DEF Cancel, PInv, LinkInv
  <2> QED BY <2>5, <2>6 DEF PInv
<1>8. CASE replies[r].step # "Start"
  <2>1. Dequeue(after, pending)
    BY <1>4, <1>8 DEF Cancel, Terminate
  <2> HIDE DEF after, rs
  <2>2. Queued(after, pending)
    BY <1>1, <1>5, <1>8, QueueKept
  <2>3. QueueInv' /\ Len(replies') = Len(replies) /\ toServer' \in Seq(CommandLines(Len(replies')))
    BY <1>5, <1>6, <2>1, <2>2, DequeueStep
  <2>4. LinkInv'
    BY <1>1, <2>3, LinkStep DEF Cancel, PInv, LinkInv
  <2> QED BY <2>3, <2>4 DEF PInv
<1> QED BY <1>7, <1>8

\* The queue, when only the state changes to one in which nothing is run.
LEMMA Idle ==
    ASSUME PInv, UNCHANGED <<current, pending, replies>>, state' \in {"Disconnected", "StartState", state}
    PROVE  QueueInv'
  BY DEF PInv, QueueInv, NoneWaitsInVain

LEMMA Closed ==
    ASSUME Close, NEW n \in Nat, NEW m \in Nat
    PROVE  /\ link' \in {"down", "connecting", "up", "closing"} /\ tls' \in {"no", "handshake", "yes"}
           /\ toServer' \in Seq(CommandLines(n)) /\ toClient' \in Seq(AnswerLines(m))
  BY EmptySeq DEF Close

LEMMA ConnectStep ==
    ASSUME Pop3Assumption, PInv, ConnectToHost
    PROVE  PInv'
<1>1. QueueInv'
  BY Idle DEF ConnectToHost
<1>2. LinkInv'
  BY DEF ConnectToHost, serverVars, PInv, LinkInv, Pop3Assumption
<1> QED BY <1>1, <1>2 DEF PInv

LEMMA LoseConnectionStep ==
    ASSUME PInv, LoseConnection
    PROVE  PInv'
<1>1. QueueInv'
  BY Idle DEF LoseConnection
<1>2. LinkInv'
  BY ReplyCount, Closed, LinkStep DEF LoseConnection
<1> QED BY <1>1, <1>2 DEF PInv

LEMMA ReadGreetingStep ==
    ASSUME PInv, ReadGreeting
    PROVE  PInv'
<1> DEFINE rs == Append(replies, NewReply("auth"))
           queue == Append(pending, Len(rs))
<1>1. rs \in Seq(Replies) /\ Len(rs) = Len(replies) + 1 /\ Len(replies) \in Nat /\ Queued(rs, queue)
  BY Joined DEF PInv
<1>2. toServer \in Seq(CommandLines(Len(rs)))
  <2> HIDE DEF rs
  <2> QED BY <1>1, Grows DEF PInv, LinkInv
<1>3. CASE Dequeue(rs, queue) /\ Consume /\ UNCHANGED <<link, tls>>
  <2> HIDE DEF rs, queue
  <2>1. QueueInv' /\ Len(replies') = Len(rs) /\ toServer' \in Seq(CommandLines(Len(replies')))
    BY <1>1, <1>2, <1>3, DequeueStep
  <2>2. LinkInv'
    BY <1>1, <1>3, <2>1, Consumed, LinkStep DEF ReadGreeting, Consume, PInv, LinkInv
  <2> QED BY <2>1, <2>2 DEF PInv
<1>4. CASE Start(rs, queue) /\ Close
  <2> HIDE DEF rs, queue
  <2>1. QueueInv' /\ Len(replies') = Len(rs)
    BY <1>1, <1>4, StartStep
  <2>2. LinkInv'
    BY <1>1, <1>4, <2>1, Closed, LinkStep DEF ReadGreeting
  <2> QED BY <2>1, <2>2 DEF PInv
<1> QED BY <1>3, <1>4 DEF ReadGreeting

LEMMA ReadLineStep ==
    ASSUME PInv, ReadLine
    PROVE  PInv'
<1>1. QueueInv' /\ Len(replies') = Len(replies) /\ toServer' \in Seq(CommandLines(Len(replies')))
  <2>1. CASE state = "Busy"
    BY <2>1, DialogStep DEF ReadLine
  <2>2. CASE state # "Busy"
    <3>1. UNCHANGED <<queueVars, toServer>>
      BY <2>2 DEF ReadLine
    <3> QED BY <3>1, Idle DEF queueVars, PInv, LinkInv
  <2> QED BY <2>1, <2>2
<1>2. tls' \in {"no", "handshake", "yes"} /\ toClient' \in Seq(AnswerLines(Len(replies)))
  BY Consumed DEF ReadLine, Consume, PInv, LinkInv
<1>3. LinkInv'
  BY <1>1, <1>2, ReplyCount, LinkStep DEF ReadLine, PInv, LinkInv
<1> QED BY <1>1, <1>3 DEF PInv

LEMMA ReadStlsRefusalStep ==
    ASSUME PInv, ReadStlsRefusal
    PROVE  PInv'
<1> DEFINE rs == Finished(current, "Error")
<1>1. current \in 1 .. Len(replies) /\ replies[current].step # "Start" /\ Unfinished(replies[current])
  BY Running DEF ReadStlsRefusal, StlsRefused
<1>2. rs \in Seq(Replies) /\ Len(rs) = Len(replies) /\ Queued(rs, pending) /\ Len(replies) \in Nat
  BY <1>1, FinishedReplies, ReplyCount
<1>3. CASE /\ Close /\ state' = "Disconnected" /\ current' = 0 /\ replies' = rs /\ UNCHANGED pending
  <2> HIDE DEF rs
  <2>1. QueueInv'
    BY <1>2, <1>3 DEF QueueInv, NoneWaitsInVain
  <2>2. LinkInv'
    BY <1>2, <1>3, Closed, LinkStep DEF ReadStlsRefusal
  <2> QED BY <2>1, <2>2 DEF PInv
<1>4. CASE Dequeue(rs, pending) /\ link' = "closing" /\ Consume /\ UNCHANGED tls
  <2> HIDE DEF rs
  <2>1. QueueInv' /\ Len(replies') = Len(rs) /\ toServer' \in Seq(CommandLines(Len(replies')))
    BY <1>2, <1>4, DequeueStep DEF PInv, LinkInv
  <2>2. LinkInv'
    BY <1>2, <1>4, <2>1, Consumed, LinkStep DEF ReadStlsRefusal, Consume, PInv, LinkInv
  <2> QED BY <2>1, <2>2 DEF PInv
<1> QED BY <1>3, <1>4 DEF ReadStlsRefusal, Terminate

LEMMA EncryptedStep ==
    ASSUME PInv, Encrypted
    PROVE  PInv'
<1>1. QueueInv' /\ Len(replies') = Len(replies) /\ toServer' \in Seq(CommandLines(Len(replies')))
  <2>1. CASE state = "Busy"
    BY <2>1, DialogStep DEF Encrypted
  <2>2. CASE state # "Busy"
    <3>1. UNCHANGED <<queueVars, toServer>>
      BY <2>2 DEF Encrypted
    <3> QED BY <3>1, Idle DEF queueVars, PInv, LinkInv
  <2> QED BY <2>1, <2>2
<1>2. LinkInv'
  BY <1>1, ReplyCount, LinkStep DEF Encrypted, PInv, LinkInv
<1> QED BY <1>1, <1>2 DEF PInv

\* The reply that was current is finished, and the next one is started, though
\* the connection is down.
LEMMA HandshakeFailsStep ==
    ASSUME PInv, HandshakeFails
    PROVE  PInv'
<1> DEFINE rs == Finished(current, "Error")
           h == Head(pending)
           new == [rs[h] EXCEPT !.status = "Running", !.step = Begin(rs[h].kind).step]
           after == [rs EXCEPT ![h].status = "Running", ![h].step = Begin(rs[h].kind).step]
<1>1. current \in 1 .. Len(replies) /\ replies[current].step # "Start" /\ Unfinished(replies[current])
  BY Running DEF HandshakeFails
<1>2. /\ rs \in Seq(Replies) /\ Len(rs) = Len(replies) /\ Queued(rs, pending)
      /\ \A q \in 1 .. Len(replies) : q # current => rs[q] = replies[q]
  BY <1>1, FinishedReplies
<1>3. /\ Len(replies) \in Nat /\ DOMAIN replies = 1 .. Len(replies) /\ DOMAIN rs = 1 .. Len(replies)
      /\ replies \in Seq(Replies)
  BY <1>2, ReplyCount, LenProperties DEF PInv, QueueInv
<1>4. replies' = [r \in 1 .. Len(replies) |->
          IF r = current THEN rs[r]
          ELSE IF r = current' THEN [replies[r] EXCEPT !.status = "Running",
                                                       !.step = Begin(replies[r].kind).step]
          ELSE replies[r]]
  BY <1>3 DEF HandshakeFails
<1>5. QueueInv' /\ Len(replies') = Len(replies)
  <2>1. CASE pending = <<>>
    <3>1. state' = "Disconnected" /\ current' = 0 /\ pending' = <<>>
      BY <2>1 DEF HandshakeFails
    <3> HIDE DEF rs
    <3>2. replies' = rs
      <4>1. replies' = [r \in 1 .. Len(replies) |-> rs[r]]
        <5>1. \A r \in 1 .. Len(replies) : r # current => r # current' /\ rs[r] = replies[r]
          BY <1>2, <3>1
        <5> QED BY <1>4, <5>1
      <4>2. rs = [r \in 1 .. Len(replies) |-> rs[r]]
        BY <1>2, LenProperties
      <4> QED BY <4>1, <4>2
    <3> QED BY <1>2, <2>1, <3>1, <3>2 DEF QueueInv, NoneWaitsInVain
  <2>2. CASE pending # <<>>
    <3>1. state' = "Disconnected" /\ current' = h /\ pending' = Tail(pending)
      BY <2>2 DEF HandshakeFails
    <3>2. h \in 1 .. Len(replies) /\ replies[h].step = "Start"
      BY <1>3, <2>2, TailQueued DEF PInv, QueueInv
    <3>3. h # current /\ rs[h] = replies[h]
      BY <1>1, <1>2, <3>2
    <3>4. /\ after \in Seq(Replies) /\ Len(after) = Len(rs) /\ Queued(after, Tail(pending))
          /\ after[h].step # "Start" /\ Unfinished(after[h])
          /\ after = [rs EXCEPT ![h] = new]
      BY <1>2, <2>2, StartedHead
    <3>5. replies' = after
      <4> HIDE DEF rs, h, after, new
      <4>1. replies' = [r \in 1 .. Len(replies) |-> IF r = h THEN new ELSE rs[r]]
        BY <1>2, <1>4, <3>1, <3>3 DEF new
      <4>2. rs \in [1 .. Len(replies) -> Replies]
        BY <1>2, LenProperties
      <4> QED BY <1>2, <3>4, <4>1, <4>2
    <3> HIDE DEF rs
    <3>6. h \in 0 .. Len(after)
      BY <1>2, <3>2, <3>4
    <3> HIDE DEF after, h
    <3> QED BY <1>2, <3>1, <3>4, <3>5, <3>6 DEF QueueInv, NoneWaitsInVain
  <2> QED BY <2>1, <2>2
<1>6. LinkInv'
  <2>1. Close /\ UNCHANGED <<disableStartTLS, connects, serverVars>>
    BY DEF HandshakeFails
  <2>2. /\ link' \in {"down", "connecting", "up", "closing"} /\ tls' \in {"no", "handshake", "yes"}
        /\ toServer' \in Seq(CommandLines(Len(replies'))) /\ toClient' \in Seq(AnswerLines(Len(replies)))
    BY <1>3, <1>5, <2>1, Closed
  <2> QED BY <1>3, <1>5, <2>1, <2>2, LinkStep
<1> QED BY <1>5, <1>6 DEF PInv

\* The server leaves the queue alone, and answers whom it was asked by.
LEMMA Said ==
    ASSUME PInv, NEW classes \in Seq({"+OK", "-ERR", "text", "."}),
           NEW r \in 0 .. Len(replies), Says(classes, r)
    PROVE  toClient' \in Seq(AnswerLines(Len(replies)))
<1> DEFINE lines == [i \in DOMAIN classes |-> [class |-> classes[i], reply |-> r]]
<1>1. /\ Len(classes) \in Nat /\ DOMAIN classes = 1 .. Len(classes)
      /\ \A i \in DOMAIN classes : classes[i] \in {"+OK", "-ERR", "text", "."}
  BY LenProperties, ElementOfSeq
<1>2. \A i \in DOMAIN classes : [class |-> classes[i], reply |-> r] \in AnswerLines(Len(replies))
  BY <1>1 DEF AnswerLines
<1>3. lines \in [1 .. Len(classes) -> AnswerLines(Len(replies))]
  BY <1>1, <1>2
<1> HIDE DEF lines
<1>4. lines \in Seq(AnswerLines(Len(replies)))
  BY <1>1, <1>3, SeqDef
<1> QED BY <1>4, ConcatProperties DEF Says, lines, PInv, LinkInv

LEMMA ServeStep ==
    ASSUME Pop3Assumption, PInv, Serve
    PROVE  PInv'
<1> DEFINE c == Head(toServer)
<1>1. c \in CommandLines(Len(replies)) /\ Tail(toServer) \in Seq(CommandLines(Len(replies)))
  BY HeadTailProperties DEF Serve, PInv, LinkInv
<1> HIDE DEF c
<1>2. c.cmd \in Commands /\ c.reply \in 1 .. Len(replies) /\ c.reply \in 0 .. Len(replies)
  BY <1>1, ReplyCount DEF CommandLines
<1>3. /\ toClient' \in Seq(AnswerLines(Len(replies)))
      /\ server' \in [user : BOOLEAN, authed : BOOLEAN, rejected : BOOLEAN, quit : BOOLEAN]
      /\ served' \subseteq 1 .. Len(replies)
  <2>1. CASE Accept(c)
    <3>1. /\ <<"+OK">> \in Seq({"+OK", "-ERR", "text", "."})
          /\ \A n \in 0 .. MaxLines : <<"+OK">> \o [i \in 1 .. n |-> "text"] \o <<".">>
                                          \in Seq({"+OK", "-ERR", "text", "."})
      <4>1. \A class \in {"+OK", "."} : <<class>> \in Seq({"+OK", "-ERR", "text", "."})
        OBVIOUS
      <4>2. \A n \in 0 .. MaxLines : [i \in 1 .. n |-> "text"] \in Seq({"+OK", "-ERR", "text", "."})
        <5> TAKE n \in 0 .. MaxLines
        <5>1. n \in Nat /\ [i \in 1 .. n |-> "text"] \in [1 .. n -> {"+OK", "-ERR", "text", "."}]
          BY DEF Pop3Assumption
        <5> QED BY <5>1, SeqDef
      <4> QED BY <4>1, <4>2, ConcatProperties
    <3>2. toClient' \in Seq(AnswerLines(Len(replies)))
      BY <1>2, <2>1, <3>1, Said DEF Accept
    <3>3. server' \in [user : BOOLEAN, authed : BOOLEAN, rejected : BOOLEAN, quit : BOOLEAN]
      BY <2>1 DEF Accept, PInv, LinkInv
    <3>4. served' \subseteq 1 .. Len(replies)
      BY <1>2, <2>1 DEF Accept, PInv, LinkInv
    <3> QED BY <3>2, <3>3, <3>4
  <2>2. CASE Refuse(c)
    <3>1. <<"-ERR">> \in Seq({"+OK", "-ERR", "text", "."})
      OBVIOUS
    <3>2. toClient' \in Seq(AnswerLines(Len(replies)))
      BY <1>2, <2>2, <3>1, Said DEF Refuse
    <3> QED BY <2>2, <3>2 DEF Refuse, PInv, LinkInv
  <2> QED BY <2>1, <2>2 DEF Serve, c
<1>4. QueueInv'
  BY Idle DEF Serve, queueVars
<1>5. LinkInv'
  BY <1>1, <1>3 DEF Serve, queueVars, c, PInv, LinkInv
<1> QED BY <1>4, <1>5 DEF PInv

LEMMA WelcomeStep ==
    ASSUME PInv, Welcome
    PROVE  PInv'
<1>1. QueueInv'
  BY Idle DEF Welcome, queueVars
<1>2. toClient' \in Seq(AnswerLines(Len(replies)))
  <2>1. \A class \in {"+OK", "-ERR"} : <<class>> \in Seq({"+OK", "-ERR", "text", "."})
    OBVIOUS
  <2>2. 0 \in 0 .. Len(replies)
    BY ReplyCount
  <2> QED BY <2>1, <2>2, Said DEF Welcome
<1>3. LinkInv'
  BY <1>2 DEF Welcome, queueVars, NewServer, PInv, LinkInv
<1> QED BY <1>1, <1>3 DEF PInv

LEMMA HangupStep ==
    ASSUME PInv, Hangup
    PROVE  PInv'
<1>1. QueueInv'
  BY Idle DEF Hangup
<1>2. LinkInv'
  BY ReplyCount, Closed, LinkStep DEF Hangup
<1> QED BY <1>1, <1>2 DEF PInv

-----------------------------------------------------------------------------
LEMMA PInvStep == PInv /\ [Next]_vars => PInv'
<1> SUFFICES ASSUME PInv, [Next]_vars PROVE PInv'
  OBVIOUS
<1>1. CASE \E kind \in Kinds : Issue(kind)
  BY <1>1, IssueStep DEF Issue
<1>2. CASE \E r \in OfApplication : Cancel(r)
  BY <1>2, CancelStep DEF OfApplication
<1>3. CASE ConnectToHost \/ LoseConnection
  BY <1>3, ConnectStep, LoseConnectionStep, Pop3Assumption
<1>4. CASE Socket
  BY <1>4, ReadGreetingStep, ReadLineStep, ReadStlsRefusalStep, EncryptedStep, HandshakeFailsStep
     DEF Socket
<1>5. CASE Serve \/ Welcome \/ Hangup
  BY <1>5, ServeStep, WelcomeStep, HangupStep, Pop3Assumption
<1>6. CASE UNCHANGED vars
  BY <1>6 DEF vars, queueVars, serverVars, PInv, QueueInv, LinkInv, NoneWaitsInVain
<1> QED BY <1>1, <1>2, <1>3, <1>4, <1>5, <1>6 DEF Next

LEMMA PInvInitially == Init => PInv
<1> SUFFICES ASSUME Init PROVE PInv
  OBVIOUS
<1>1. \A S : <<>> \in Seq(S)
  BY EmptySeq
<1>2. Queued(replies, pending)
  BY <1>1 DEF Init, Queued
<1>3. QueueInv
  BY <1>1, <1>2 DEF Init, QueueInv, NoneWaitsInVain
<1>4. LinkInv
  BY <1>1, Pop3Assumption DEF Init, NewServer, LinkInv, Pop3Assumption
<1> QED BY <1>3, <1>4 DEF PInv

LEMMA PInvHolds == Spec => []PInv
  BY PInvInitially, PInvStep, PTL DEF Spec

\* Every variable keeps its type: a reply only takes the steps of its own
\* dialog, whoever cancels what and whenever the connection is lost.
THEOREM TypeCorrect == Spec => []TypeOK
<1>1. PInv => TypeOK
  <2> SUFFICES ASSUME PInv PROVE TypeOK
    OBVIOUS
  <2>1. DOMAIN replies = 1 .. Len(replies) /\ Len(replies) \in Nat
    BY ReplyCount
  <2>2. \A r \in DOMAIN replies : replies[r] \in Replies
    BY <2>1, ElementOfSeq DEF PInv, QueueInv
  <2>3. /\ pending \in Seq(DOMAIN replies)
        /\ toServer \in Seq([cmd : Commands, reply : DOMAIN replies])
        /\ toClient \in Seq([class : {"+OK", "-ERR", "text", "."}, reply : 0 .. Len(replies)])
    BY <2>1 DEF PInv, QueueInv, Queued, LinkInv, CommandLines, AnswerLines
  <2>4. \A r \in DOMAIN replies :
            /\ replies[r].kind \in Kinds \cup {"auth"}
            /\ replies[r].step \in StepsOf(replies[r].kind) \cup {"Start"}
            /\ replies[r].status \in {"Pending", "Running", "Completed", "Error"}
            /\ replies[r].signals \in Nat /\ replies[r].cancelled \in BOOLEAN
    BY <2>2 DEF Replies
  <2> QED BY <2>1, <2>3, <2>4 DEF PInv, QueueInv, LinkInv, TypeOK
<1> QED BY <1>1, PInvHolds, PTL

\* A Busy client runs a reply, and a Ready one has none waiting, however
\* finished(), cancel() and the socket's signals call each other.
THEOREM NoneStaysInVain == Spec => []NoneWaitsInVain
<1>1. PInv => NoneWaitsInVain
  BY DEF PInv, QueueInv
<1> QED BY <1>1, PInvHolds, PTL

\* No reply emits finished() more than once, or twice if it was cancelled: it
\* is never started again.
THEOREM FinishedStaysOnce == Spec => []FinishedOnce
<1>1. PInv => FinishedOnce
  <2> SUFFICES ASSUME PInv PROVE FinishedOnce
    OBVIOUS
  <2>1. \A r \in DOMAIN replies : replies[r] \in Replies
    BY ReplyCount, ElementOfSeq DEF PInv, QueueInv
  <2> QED BY <2>1 DEF Replies, FinishedOnce
<1> QED BY <1>1, PInvHolds, PTL

-----------------------------------------------------------------------------
(* The client and the server in lockstep: what is in flight follows from    *)
(* the state and the step of the current reply.  It holds if only replies   *)
(* that wait in the queue are cancelled: when the current one is cancelled, *)
(* the next one is run and takes the answer to it for its own.              *)

OnlyQueuedAreCancelled == Cancellable \subseteq {"pending"}

IsConnected == link \in {"up", "closing"}
Silent == toServer = <<>> /\ toClient = <<>>

CommandAt == [StlsSent |-> "STLS", UserSent |-> "USER", PassSent |-> "PASS", Sent |-> "SINGLE",
              ListSent |-> "LIST", SizeSent |-> "SIZE", RetrSent |-> "RETR", QuitSent |-> "QUIT"]
AskingSteps == {"StlsSent", "UserSent", "PassSent", "Sent", "ListSent", "SizeSent", "RetrSent", "QuitSent"}
Step == replies[current].step

Asked ==
    /\ Len(toServer) = 1 /\ toServer[1].cmd = CommandAt[Step] /\ toServer[1].reply = current
    /\ toClient = <<>>

\* What is left of a listing or a message, from line m on.
TextFrom(m) == \A i \in m .. Len(toClient) : toClient[i].class = IF i = Len(toClient) THEN "." ELSE "text"

\* A refusal, a line, or all of a listing.
Answered ==
    /\ toServer = <<>> /\ Len(toClient) >= 1
    /\ \/ toClient[1].class = "-ERR" /\ Len(toClient) = 1
       \/ /\ toClient[1].class = "+OK" /\ Step \notin {"ListSent", "RetrSent"} /\ Len(toClient) = 1
          /\ Step \in {"PassSent", "Sent"} => current \in served
       \/ /\ toClient[1].class = "+OK" /\ Step \in {"ListSent", "RetrSent"} /\ Len(toClient) >= 2
          /\ TextFrom(2) /\ current \in served

DialogInStep ==
    /\ Step \in AskingSteps \cup {"TlsOk", "OkReceived"}
    /\ \A i \in 1 .. Len(toClient) : toClient[i].reply = current
    /\ Step \in AskingSteps => Asked \/ Answered \/ (Silent /\ Step \in {"UserSent", "PassSent"})
    /\ Step = "TlsOk" => Silent
    /\ Step = "OkReceived" => toServer = <<>> /\ Len(toClient) >= 1 /\ TextFrom(1) /\ current \in served
    /\ Step \in {"UserSent", "PassSent"} /\ ~disableStartTLS => tls = "yes"

Lockstep ==
    /\ ~IsConnected => Silent
    /\ state = "Disconnected" => link = "down"
    /\ link = "connecting" => state = "StartState"
    /\ state = "Ready" => Silent
    /\ state = "StartState" /\ IsConnected => toServer = <<>> /\ Len(toClient) = 1 /\ toClient[1].reply = 0
    /\ state = "Busy" /\ IsConnected => DialogInStep
    /\ tls = "handshake" => IsConnected /\ state = "Busy" /\ Step = "TlsOk"

\* What the replies rs say when the server obeyed the last commands of "done".
Verdicts(rs, done) ==
    \A r \in 1 .. Len(rs) :
        /\ rs[r].status = "Completed" /\ rs[r].kind # "quit" => r \in done
        /\ rs[r].status = "Pending" => rs[r].step = "Start"

-----------------------------------------------------------------------------
LEMMA Lines ==
    ASSUME PInv
    PROVE  /\ Len(toClient) \in Nat /\ Len(toServer) \in Nat
           /\ toClient = <<>> <=> Len(toClient) = 0
           /\ toServer = <<>> <=> Len(toServer) = 0
           /\ Line = toClient[1]
           /\ DOMAIN toServer = 1 .. Len(toServer)
<1>1. toClient \in Seq(AnswerLines(Len(replies))) /\ toServer \in Seq(CommandLines(Len(replies)))
  BY DEF PInv, LinkInv
<1>2. Len(toClient) \in Nat /\ Len(toServer) \in Nat /\ DOMAIN toServer = 1 .. Len(toServer)
  BY <1>1, LenProperties
<1> QED BY <1>1, <1>2, EmptySeq DEF Line

LEMMA ReadIt ==
    ASSUME PInv, toClient # <<>>, Consume
    PROVE  /\ Len(toClient') = Len(toClient) - 1
           /\ \A i \in 1 .. Len(toClient') : toClient'[i] = toClient[i + 1]
           /\ Len(toClient) = 1 => toClient' = <<>>
<1>1. toClient \in Seq(AnswerLines(Len(replies))) /\ toClient' = Tail(toClient)
  BY DEF PInv, LinkInv, Consume
<1>2. /\ Tail(toClient) \in Seq(AnswerLines(Len(replies)))
      /\ Len(Tail(toClient)) = Len(toClient) - 1
      /\ \A i \in 1 .. Len(Tail(toClient)) : Tail(toClient)[i] = toClient[i + 1]
  BY <1>1, HeadTailProperties
<1> QED BY <1>1, <1>2, EmptySeq

LEMMA WroteOne ==
    ASSUME IsConnected, toServer = <<>>, NEW cmd \in Commands, NEW r, Write(CommandOf(cmd, r))
    PROVE  Len(toServer') = 1 /\ toServer'[1].cmd = cmd /\ toServer'[1].reply = r
<1>1. CommandOf(cmd, r) = <<[cmd |-> cmd, reply |-> r]>>
  BY DEF CommandOf, Commands
<1>2. \A x : <<>> \o <<x>> = <<x>>
  OBVIOUS
<1>3. toServer' = <<[cmd |-> cmd, reply |-> r]>>
  BY <1>1, <1>2 DEF Write, IsConnected
<1> QED BY <1>3

LEMMA WroteNothing ==
    ASSUME PInv, Write(<<>>) \/ Write(CommandOf("none", current))
    PROVE  toServer' = toServer
<1>1. toServer \in Seq(CommandLines(Len(replies)))
  BY DEF PInv, LinkInv
<1> QED BY <1>1, ConcatEmptySeq DEF Write, CommandOf

\* The first command of a reply.
LEMMA FirstCommands ==
    ASSUME NEW kind \in Kinds \cup {"auth"}
    PROVE  /\ Begin(kind).step \in AskingSteps /\ Begin(kind).cmd = CommandAt[Begin(kind).step]
           /\ Begin(kind).step \in {"UserSent", "PassSent"} => disableStartTLS
  BY DEF Begin, Goes, AskingSteps, CommandAt, Kinds

\* dequeue(): the next reply asks its first question, or the client is Ready.
LEMMA StartsInStep ==
    ASSUME NEW rs \in Seq(Replies), NEW queue, Queued(rs, queue), Start(rs, queue),
           IF IsConnected' THEN toServer = <<>> /\ IsConnected /\ Write(Written(rs, queue)) ELSE toServer' = <<>>,
           toClient' = <<>>, tls' # "handshake", link' # "connecting", UNCHANGED disableStartTLS
    PROVE  Lockstep'
<1>1. CASE queue = <<>>
  <2>1. state' = "Ready"
    BY <1>1 DEF Start
  <2>2. toServer' = <<>>
    <3>1. <<>> \o <<>> = <<>>
      OBVIOUS
    <3> QED BY <1>1, <3>1 DEF Written, Write, IsConnected
  <2> QED BY <2>1, <2>2 DEF Lockstep, Silent
<1>2. CASE queue # <<>>
  <2> DEFINE h == Head(queue)
             first == Begin(rs[h].kind)
  <2>1. h \in 1 .. Len(rs) /\ rs[h] \in Replies
    BY <1>2, TailQueued, ElementOfSeq
  <2>2. state' = "Busy" /\ current' = h /\ Step' = first.step
    <3>1. /\ state' = "Busy" /\ current' = h
          /\ replies' = [rs EXCEPT ![h].status = "Running", ![h].step = first.step]
      BY <1>2 DEF Start
    <3> HIDE DEF first
    <3>2. replies'[h].step = first.step
      <4>1. rs \in [1 .. Len(rs) -> Replies]
        BY LenProperties
      <4>2. replies'[h] = [rs[h] EXCEPT !.status = "Running", !.step = first.step]
        BY <2>1, <3>1, <4>1
      <4> QED BY <2>1, <4>2 DEF Replies
    <3> QED BY <3>1, <3>2 DEF Step
  <2>3. /\ first.step \in AskingSteps /\ first.cmd = CommandAt[first.step] /\ first.cmd \in Commands
        /\ first.step \in {"UserSent", "PassSent"} => disableStartTLS
    BY <2>1, FirstCommands, Beginnings DEF Replies
  <2>4. ASSUME IsConnected' PROVE Asked'
    <3>1. Write(CommandOf(first.cmd, h)) /\ toServer = <<>> /\ IsConnected
      BY <1>2, <2>4 DEF Written
    <3> HIDE DEF first, h
    <3>2. Len(toServer') = 1 /\ toServer'[1].cmd = first.cmd /\ toServer'[1].reply = h
      BY <2>3, <3>1, WroteOne
    <3> QED BY <2>2, <2>3, <3>2 DEF Asked
  <2> HIDE DEF first, h
  <2>5. IsConnected' => DialogInStep'
    <3>1. Step' \notin {"TlsOk", "OkReceived"} /\ Len(toClient') = 0
      BY <2>2, <2>3 DEF AskingSteps
    <3> QED BY <2>2, <2>3, <2>4, <3>1 DEF DialogInStep
  <2> QED BY <2>2, <2>5 DEF Lockstep, Silent
<1> QED BY <1>1, <1>2

\* The reply that is current has the step that its dialog gave it.
LEMMA StepTaken ==
    ASSUME PInv, state = "Busy", NEW step, replies' = [replies EXCEPT ![current].step = step],
           UNCHANGED <<state, current>>
    PROVE  Step' = step /\ state' = "Busy"
<1>1. current \in 1 .. Len(replies) /\ replies[current] \in Replies /\ replies \in Seq(Replies)
  BY Running DEF PInv, QueueInv
<1>2. replies \in [1 .. Len(replies) -> Replies]
  BY <1>1, LenProperties
<1>3. replies'[current] = [replies[current] EXCEPT !.step = step]
  BY <1>1, <1>2
<1>4. replies'[current].step = step
  BY <1>1, <1>3 DEF Replies
<1> QED BY <1>4 DEF Step

\* A step that asks the server something.
LEMMA AsksInStep ==
    ASSUME PInv, state = "Busy", IsConnected, IsConnected', link' # "connecting",
           NEW step \in AskingSteps, replies' = [replies EXCEPT ![current].step = step],
           UNCHANGED <<state, current, disableStartTLS>>,
           \/ toServer = <<>> /\ Write(CommandOf(CommandAt[step], current))
           \/ step \in {"UserSent", "PassSent"} /\ toServer' = <<>>,
           toClient' = <<>>, tls' # "handshake",
           step \in {"UserSent", "PassSent"} /\ ~disableStartTLS => tls' = "yes"
    PROVE  Lockstep'
<1>1. Step' = step /\ state' = "Busy"
  BY StepTaken
<1>2. Asked' \/ (Silent' /\ step \in {"UserSent", "PassSent"})
  <2>1. CASE toServer' = <<>> /\ step \in {"UserSent", "PassSent"}
    BY <2>1 DEF Silent
  <2>2. CASE toServer = <<>> /\ Write(CommandOf(CommandAt[step], current))
    <3>1. CommandAt[step] \in Commands
      BY DEF AskingSteps, CommandAt, Commands
    <3> DEFINE cmd == CommandAt[step]
    <3> HIDE DEF cmd
    <3>2. Len(toServer') = 1 /\ toServer'[1].cmd = cmd /\ toServer'[1].reply = current
      BY <2>2, <3>1, WroteOne DEF cmd
    <3> QED BY <1>1, <3>2 DEF Asked, cmd
  <2> QED BY <2>1, <2>2
<1>3. Len(toClient') = 0 /\ step \notin {"TlsOk", "OkReceived"}
  BY DEF AskingSteps
<1>4. DialogInStep'
  BY <1>1, <1>2, <1>3 DEF DialogInStep
<1> QED BY <1>1, <1>4 DEF Lockstep, IsConnected

\* The answer to the reply that is current.
LEMMA AnswerAtHand ==
    ASSUME PInv, Lockstep, toClient # <<>>, state # "StartState"
    PROVE  /\ IsConnected /\ state = "Busy" /\ DialogInStep /\ toServer = <<>> /\ tls # "handshake"
           /\ Line = toClient[1] /\ Step # "TlsOk"
           /\ Step # "OkReceived" => Answered /\ Step \in AskingSteps
<1>1. IsConnected /\ state = "Busy" /\ DialogInStep
  BY DEF Lockstep, Silent, IsConnected, PInv, QueueInv
<1>2. Step # "TlsOk" /\ (Step # "OkReceived" => Answered /\ Step \in AskingSteps)
  BY <1>1 DEF DialogInStep, Asked, Silent
<1>3. toServer = <<>> /\ tls # "handshake"
  BY <1>1, <1>2 DEF Lockstep, DialogInStep, Answered
<1> QED BY <1>1, <1>2, <1>3, Lines

LEMMA LineInStep ==
    ASSUME PInv, Lockstep, ReadLine
    PROVE  Lockstep'
<1> DEFINE answer == Answer(Step, Line)
<1>1. /\ IsConnected /\ state = "Busy" /\ DialogInStep /\ toServer = <<>> /\ tls # "handshake"
      /\ Line = toClient[1] /\ Step # "TlsOk" /\ Len(toClient) \in Nat /\ Len(toClient) >= 1
      /\ Step # "OkReceived" => Answered /\ Step \in AskingSteps
      /\ Consume /\ toClient # <<>>
  BY AnswerAtHand, Lines DEF ReadLine
<1>2. /\ Dialog(Line) /\ tls' = IF Step = "StlsSent" THEN "handshake" ELSE tls
      /\ ~StlsRefused /\ UNCHANGED <<disableStartTLS, link>>
  BY <1>1 DEF ReadLine, Step
<1>3. /\ Len(toClient') = Len(toClient) - 1
      /\ \A i \in 1 .. Len(toClient') : toClient'[i] = toClient[i + 1]
      /\ Len(toClient) = 1 => toClient' = <<>>
  BY <1>1, ReadIt
<1>4. IsConnected' /\ link' # "connecting"
  BY <1>1, <1>2 DEF IsConnected
<1>5. Step \in AskingSteps \cup {"OkReceived"}
  BY <1>1 DEF DialogInStep
<1>6. CASE answer.code # "none"
  <2> DEFINE rs == Finished(current, Status(answer.code))
  <2>1. Start(rs, pending) /\ Write(Written(rs, pending))
    BY <1>2, <1>6 DEF Dialog, Terminate, Dequeue, Step
  <2>2. rs \in Seq(Replies) /\ Queued(rs, pending)
    <3>1. Status(answer.code) \in {"Completed", "Error"}
      BY DEF Status
    <3> QED BY <1>1, <3>1, FinishedReplies, Running
  <2>3. toClient' = <<>>
    <3>1. CASE Step = "OkReceived"
      <4>1. Line.class = "."
        BY <1>6, <3>1 DEF Answer, Goes
      <4>2. TextFrom(1) /\ 1 \in 1 .. Len(toClient)
        BY <1>1, <3>1 DEF DialogInStep
      <4>3. Len(toClient) = 1
        BY <1>1, <4>1, <4>2 DEF TextFrom
      <4> QED BY <1>3, <4>3
    <3>2. CASE Step # "OkReceived"
      <4>1. Answered
        BY <1>1, <3>2
      <4>2. Step \in {"ListSent", "RetrSent"} => ~IsAnswerOK(Line)
        BY <1>6 DEF Answer, AfterList, Goes
      <4>3. Len(toClient) = 1
        BY <1>1, <4>1, <4>2 DEF Answered, IsAnswerOK
      <4> QED BY <1>3, <4>3
    <3> QED BY <3>1, <3>2
  <2>4. tls' # "handshake"
    <3>1. Step # "StlsSent"
      BY <1>1, <1>2, <1>6 DEF StlsRefused, Step
    <3> QED BY <1>1, <1>2, <3>1
  <2> HIDE DEF rs
  <2> QED BY <1>1, <1>2, <1>4, <2>1, <2>2, <2>3, <2>4, StartsInStep
<1>7. CASE answer.code = "none"
  <2>1. /\ replies' = [replies EXCEPT ![current].step = answer.step]
        /\ Write(CommandOf(answer.cmd, current))
        /\ UNCHANGED <<state, current>>
    BY <1>2, <1>7 DEF Dialog, Step
  <2>2. Step' = answer.step /\ state' = "Busy"
    <3> HIDE DEF answer
    <3> QED BY <1>1, <2>1, StepTaken
  <2>3. answer.cmd = "none" => toServer' = <<>>
    BY <1>1, <2>1, WroteNothing
  <2>4. CASE Step = "StlsSent"
    <3>1. answer.step = "TlsOk" /\ answer.cmd = "none"
      BY <1>7, <2>4 DEF Answer, AfterStls, Goes, Ends
    <3>2. toClient' = <<>> /\ toServer' = <<>>
      BY <1>1, <1>3, <2>3, <2>4, <3>1 DEF Answered
    <3>3. DialogInStep'
      <4>1. Len(toClient') = 0
        BY <3>2
      <4> QED BY <2>2, <3>1, <3>2, <4>1 DEF DialogInStep, AskingSteps, Silent
    <3> QED BY <1>4, <2>2, <3>1, <3>3 DEF Lockstep
  <2>5. CASE Step \in {"UserSent", "PassSent"}
    <3>1. /\ answer.step \in {"UserSent", "PassSent"} /\ answer.step \in AskingSteps
          /\ answer.cmd = CommandAt[answer.step] \/ answer.cmd = "none"
      BY <1>7, <2>5 DEF Answer, Goes, Ends, CommandAt, AskingSteps
    <3>2. toClient' = <<>>
      BY <1>1, <1>3, <2>5 DEF Answered
    <3>3. ~disableStartTLS => tls' = "yes"
      BY <1>1, <1>2, <2>5 DEF DialogInStep
    <3>4. tls' # "handshake"
      BY <1>1, <1>2, <2>5
    <3>5. UNCHANGED <<state, current, disableStartTLS>>
      BY <1>2, <2>1
    <3> HIDE DEF answer
    <3>6. \/ toServer = <<>> /\ Write(CommandOf(CommandAt[answer.step], current))
          \/ answer.step \in {"UserSent", "PassSent"} /\ toServer' = <<>>
      BY <1>1, <2>1, <2>3, <3>1
    <3> QED BY <1>1, <1>4, <2>1, <3>1, <3>2, <3>3, <3>4, <3>5, <3>6, AsksInStep
  <2>6. CASE Step = "SizeSent"
    <3>1. answer.step = "RetrSent" /\ answer.cmd = "RETR"
      BY <1>7, <2>6 DEF Answer, Goes, Ends
    <3>2. toClient' = <<>>
      BY <1>1, <1>3, <2>6 DEF Answered
    <3>3. answer.cmd = CommandAt[answer.step] /\ answer.step \in AskingSteps
      BY <3>1 DEF CommandAt, AskingSteps
    <3>4. UNCHANGED <<state, current, disableStartTLS>> /\ tls' # "handshake" /\ answer.step \notin {"UserSent", "PassSent"}
      BY <1>1, <1>2, <2>1, <2>6, <3>1
    <3> HIDE DEF answer
    <3> QED BY <1>1, <1>4, <2>1, <3>2, <3>3, <3>4, AsksInStep
  <2>7. CASE Step \in {"ListSent", "RetrSent"}
    <3>1. answer.step = "OkReceived" /\ answer.cmd = "none" /\ IsAnswerOK(Line)
      BY <1>7, <2>7 DEF Answer, AfterList, Goes, Ends
    <3>2. Len(toClient) >= 2 /\ TextFrom(2) /\ current \in served
      BY <1>1, <2>7, <3>1 DEF Answered, IsAnswerOK
    <3>3. Len(toClient') >= 1 /\ TextFrom(1)'
      BY <1>1, <1>3, <3>2 DEF TextFrom
    <3>4. \A i \in 1 .. Len(toClient') : toClient'[i].reply = current'
      BY <1>1, <1>3, <2>1 DEF DialogInStep
    <3>5. toServer' = <<>> /\ served' = served
      BY <2>3, <3>1 DEF ReadLine, serverVars
    <3>6. DialogInStep'
      BY <2>1, <2>2, <3>1, <3>2, <3>3, <3>4, <3>5 DEF DialogInStep, AskingSteps
    <3>7. tls' # "handshake"
      BY <1>1, <1>2, <2>7
    <3> QED BY <1>4, <2>2, <3>6, <3>7 DEF Lockstep
  <2>8. CASE Step = "OkReceived"
    <3>1. answer.step = "OkReceived" /\ answer.cmd = "none" /\ Line.class # "."
      BY <1>7, <2>8 DEF Answer, Goes, Ends
    <3>2. TextFrom(1) /\ current \in served /\ 1 \in 1 .. Len(toClient)
      BY <1>1, <2>8 DEF DialogInStep
    <3>3. Len(toClient) >= 2
      BY <1>1, <3>1, <3>2 DEF TextFrom
    <3>4. Len(toClient') >= 1 /\ TextFrom(1)'
      BY <1>1, <1>3, <3>2, <3>3 DEF TextFrom
    <3>5. \A i \in 1 .. Len(toClient') : toClient'[i].reply = current'
      BY <1>1, <1>3, <2>1 DEF DialogInStep
    <3>6. toServer' = <<>> /\ served' = served
      BY <2>3, <3>1 DEF ReadLine, serverVars
    <3>7. DialogInStep'
      BY <2>1, <2>2, <3>1, <3>2, <3>4, <3>5, <3>6 DEF DialogInStep, AskingSteps
    <3>8. tls' # "handshake"
      BY <1>1, <1>2, <2>8
    <3> QED BY <1>4, <2>2, <3>7, <3>8 DEF Lockstep
  <2>9. Step \notin {"Sent", "QuitSent"}
    BY <1>7 DEF Answer, Ends
  <2> QED BY <1>5, <2>4, <2>5, <2>6, <2>7, <2>8, <2>9 DEF AskingSteps
<1> QED BY <1>6, <1>7

LEMMA GreetingInStep ==
    ASSUME PInv, Lockstep, ReadGreeting
    PROVE  Lockstep'
<1> DEFINE rs == Append(replies, NewReply("auth"))
           queue == Append(pending, Len(rs))
<1>1. rs \in Seq(Replies) /\ Queued(rs, queue)
  BY Joined DEF PInv
<1>2. /\ IsConnected /\ toServer = <<>> /\ Len(toClient) = 1 /\ toClient # <<>>
      /\ tls # "handshake" /\ UNCHANGED disableStartTLS
  BY DEF ReadGreeting, Lockstep, Silent
<1> HIDE DEF rs, queue
<1>3. CASE Start(rs, queue) /\ Write(Written(rs, queue)) /\ Consume /\ UNCHANGED <<link, tls>>
  <2>1. IsConnected' /\ toClient' = <<>> /\ tls' # "handshake" /\ link' # "connecting"
    BY <1>2, <1>3, ReadIt DEF IsConnected
  <2> QED BY <1>1, <1>2, <1>3, <2>1, StartsInStep
<1>4. CASE Start(rs, queue) /\ Close
  <2>1. ~IsConnected' /\ toServer' = <<>> /\ toClient' = <<>> /\ tls' # "handshake" /\ link' # "connecting"
    BY <1>4 DEF Close, IsConnected
  <2> QED BY <1>1, <1>2, <1>4, <2>1, StartsInStep
<1> QED BY <1>3, <1>4 DEF ReadGreeting, Dequeue, rs, queue

LEMMA StlsRefusalInStep ==
    ASSUME PInv, Lockstep, ReadStlsRefusal
    PROVE  Lockstep'
<1>1. /\ IsConnected /\ state = "Busy" /\ toServer = <<>> /\ tls # "handshake"
      /\ Step = "StlsSent" /\ Answered /\ toClient # <<>>
  BY AnswerAtHand DEF ReadStlsRefusal, StlsRefused, Step
<1> DEFINE rs == Finished(current, "Error")
<1>2. rs \in Seq(Replies) /\ Queued(rs, pending)
  BY <1>1, FinishedReplies, Running
<1>3. CASE Close /\ state' = "Disconnected"
  BY <1>3 DEF Close, Lockstep, Silent
<1>4. CASE Dequeue(rs, pending) /\ link' = "closing" /\ Consume /\ UNCHANGED tls
  <2>1. Len(toClient) = 1
    BY <1>1 DEF Answered
  <2>2. IsConnected' /\ toClient' = <<>> /\ tls' # "handshake" /\ link' # "connecting" /\ UNCHANGED disableStartTLS
    BY <1>1, <1>4, <2>1, ReadIt DEF IsConnected, ReadStlsRefusal
  <2> HIDE DEF rs
  <2> QED BY <1>1, <1>2, <1>4, <2>2, StartsInStep DEF Dequeue
<1> QED BY <1>3, <1>4 DEF ReadStlsRefusal, Terminate

LEMMA EncryptedInStep ==
    ASSUME PInv, Lockstep, Encrypted
    PROVE  Lockstep'
<1>1. IsConnected /\ state = "Busy" /\ Step = "TlsOk" /\ toServer = <<>> /\ toClient = <<>>
  BY DEF Encrypted, Lockstep, DialogInStep, Silent
<1>2. /\ tls' = "yes" /\ UNCHANGED <<disableStartTLS, link, toClient>>
      /\ Dialog([class |-> "none", reply |-> 0])
  BY <1>1 DEF Encrypted
<1>3. Answer(Step, [class |-> "none", reply |-> 0]) = Goes("UserSent", "USER")
  BY <1>1 DEF Answer
<1>4. /\ replies' = [replies EXCEPT ![current].step = "UserSent"]
      /\ Write(CommandOf("USER", current)) /\ UNCHANGED <<state, current>>
  BY <1>2, <1>3 DEF Dialog, Step, Goes
<1>5. "UserSent" \in AskingSteps /\ CommandAt["UserSent"] = "USER"
  BY DEF AskingSteps, CommandAt
<1>6. IsConnected' /\ link' # "connecting" /\ toClient' = <<>>
  BY <1>1, <1>2 DEF IsConnected
<1>7. Write(CommandOf(CommandAt["UserSent"], current))
  BY <1>4, <1>5
<1> QED BY <1>1, <1>2, <1>4, <1>5, <1>6, <1>7, AsksInStep

\* A connection that begins or ends.
LEMMA ConnectionInStep ==
    ASSUME PInv, Lockstep, ConnectToHost \/ LoseConnection \/ Hangup \/ HandshakeFails
    PROVE  Lockstep'
<1>1. CASE ConnectToHost
  BY <1>1 DEF ConnectToHost, Lockstep, IsConnected, Silent
<1>2. CASE LoseConnection
  BY <1>2 DEF LoseConnection, Lockstep, IsConnected, Silent, Close, PInv, LinkInv
<1>3. CASE Hangup
  BY <1>3 DEF Hangup, Lockstep, IsConnected, Silent, Close
<1>4. CASE HandshakeFails
  BY <1>4 DEF HandshakeFails, Lockstep, IsConnected, Silent, Close
<1> QED BY <1>1, <1>2, <1>3, <1>4

LEMMA SaidLines ==
    ASSUME toClient = <<>>, NEW classes \in Seq({"+OK", "-ERR", "text", "."}), NEW r, Says(classes, r)
    PROVE  /\ Len(toClient') = Len(classes)
           /\ \A i \in 1 .. Len(classes) : toClient'[i].class = classes[i] /\ toClient'[i].reply = r
<1> DEFINE lines == [i \in DOMAIN classes |-> [class |-> classes[i], reply |-> r]]
           Any == [class : {"+OK", "-ERR", "text", "."}, reply : {r}]
<1>1. /\ Len(classes) \in Nat /\ DOMAIN classes = 1 .. Len(classes)
      /\ \A i \in 1 .. Len(classes) : classes[i] \in {"+OK", "-ERR", "text", "."}
  BY LenProperties, ElementOfSeq
<1>2. lines \in [1 .. Len(classes) -> Any]
  BY <1>1
<1>3. \A i \in 1 .. Len(classes) : lines[i].class = classes[i] /\ lines[i].reply = r
  BY <1>1
<1> HIDE DEF lines, Any
<1>4. lines \in Seq(Any) /\ Len(lines) = Len(classes)
  BY <1>1, <1>2, SeqDef, LenProperties
<1>5. toClient' = lines
  BY <1>4, ConcatEmptySeq DEF Says, lines
<1> QED BY <1>3, <1>4, <1>5

LEMMA WelcomeInStep ==
    ASSUME PInv, Lockstep, Welcome
    PROVE  Lockstep'
<1>1. state = "StartState" /\ toClient = <<>> /\ toServer = <<>>
  BY DEF Welcome, Lockstep, IsConnected, Silent
<1>2. PICK class \in {"+OK", "-ERR"} : Says(<<class>>, 0)
  BY DEF Welcome
<1>3. <<class>> \in Seq({"+OK", "-ERR", "text", "."}) /\ Len(<<class>>) = 1
  OBVIOUS
<1>4. Len(toClient') = 1 /\ toClient'[1].reply = 0
  <2> DEFINE classes == <<class>>
  <2>1. classes \in Seq({"+OK", "-ERR", "text", "."}) /\ Len(classes) = 1 /\ Says(classes, 0)
    BY <1>2, <1>3
  <2> HIDE DEF classes
  <2>2. /\ Len(toClient') = Len(classes)
        /\ \A i \in 1 .. Len(classes) : toClient'[i].reply = 0
    BY <1>1, <2>1, SaidLines
  <2> QED BY <2>1, <2>2
<1>5. UNCHANGED <<state, tls, toServer>> /\ link' = "up"
  BY DEF Welcome, queueVars
<1> QED BY <1>1, <1>4, <1>5 DEF Lockstep, IsConnected, Silent

\* The lines of a listing.
LEMMA ListingLines ==
    ASSUME NEW n \in Nat
    PROVE  LET classes == <<"+OK">> \o [i \in 1 .. n |-> "text"] \o <<".">> IN
           /\ classes \in Seq({"+OK", "-ERR", "text", "."}) /\ Len(classes) = n + 2
           /\ classes[1] = "+OK"
           /\ \A i \in 2 .. n + 2 : classes[i] = IF i = n + 2 THEN "." ELSE "text"
<1> DEFINE All == {"+OK", "-ERR", "text", "."}
           text == [i \in 1 .. n |-> "text"]
<1>1. <<"+OK">> \in Seq(All) /\ Len(<<"+OK">>) = 1 /\ <<"+OK">>[1] = "+OK"
  OBVIOUS
<1>2. <<".">> \in Seq(All) /\ Len(<<".">>) = 1 /\ <<".">>[1] = "."
  OBVIOUS
<1>3. text \in Seq(All) /\ Len(text) = n /\ \A i \in 1 .. n : text[i] = "text"
  <2>1. text \in [1 .. n -> All]
    OBVIOUS
  <2> HIDE DEF All
  <2>2. text \in Seq(All)
    BY <2>1, SeqDef
  <2> QED BY <2>1, <2>2, LenProperties
<1> HIDE DEF text, All
<1> DEFINE front == <<"+OK">> \o text
<1>4. /\ front \in Seq(All) /\ Len(front) = n + 1
      /\ \A i \in 1 .. n + 1 : front[i] = IF i = 1 THEN "+OK" ELSE "text"
  <2>1. /\ front \in Seq(All) /\ Len(front) = Len(<<"+OK">>) + Len(text)
        /\ \A i \in 1 .. Len(<<"+OK">>) + Len(text) :
              front[i] = IF i <= Len(<<"+OK">>) THEN <<"+OK">>[i] ELSE text[i - Len(<<"+OK">>)]
    BY <1>1, <1>3, ConcatProperties
  <2> HIDE DEF front
  <2>2. \A i \in 1 .. n + 1 : front[i] = IF i <= 1 THEN <<"+OK">>[i] ELSE text[i - 1]
    BY <1>1, <1>3, <2>1
  <2>3. ASSUME NEW i \in 1 .. n + 1, i # 1
        PROVE  front[i] = "text"
    <3>1. ~(i <= 1) /\ i - 1 \in 1 .. n
      BY <2>3
    <3> QED BY <1>3, <2>2, <3>1
  <2>4. front[1] = "+OK"
    <3>1. 1 \in 1 .. n + 1
      OBVIOUS
    <3> QED BY <1>1, <2>2, <3>1
  <2> QED BY <1>1, <1>3, <2>1, <2>3, <2>4
<1> HIDE DEF front
<1> DEFINE classes == front \o <<".">>
<1>5. /\ classes \in Seq(All) /\ Len(classes) = n + 2
      /\ \A i \in 1 .. n + 2 : classes[i] = IF i <= n + 1 THEN front[i] ELSE <<".">>[i - (n + 1)]
  <2>1. /\ classes \in Seq(All) /\ Len(classes) = Len(front) + Len(<<".">>)
        /\ \A i \in 1 .. Len(front) + Len(<<".">>) :
              classes[i] = IF i <= Len(front) THEN front[i] ELSE <<".">>[i - Len(front)]
    BY <1>2, <1>4, ConcatProperties
  <2> HIDE DEF classes
  <2> QED BY <1>2, <1>4, <2>1
<1> HIDE DEF classes
<1>6. classes[1] = "+OK"
  <2>1. 1 \in 1 .. n + 2 /\ 1 <= n + 1 /\ 1 \in 1 .. n + 1
    OBVIOUS
  <2> QED BY <1>4, <1>5, <2>1
<1>7. ASSUME NEW i \in 2 .. n + 2
      PROVE  classes[i] = IF i = n + 2 THEN "." ELSE "text"
  <2>1. CASE i = n + 2
    <3>1. i \in 1 .. n + 2 /\ ~(i <= n + 1) /\ i - (n + 1) = 1
      BY <2>1
    <3> QED BY <1>2, <1>5, <2>1, <3>1
  <2>2. CASE i # n + 2
    <3>1. i \in 1 .. n + 2 /\ i <= n + 1 /\ i \in 1 .. n + 1 /\ i # 1
      BY <2>2
    <3> QED BY <1>4, <1>5, <2>2, <3>1
  <2> QED BY <2>1, <2>2
<1> QED BY <1>5, <1>6, <1>7 DEF classes, front, text, All

LEMMA ServeInStep ==
    ASSUME Pop3Assumption, PInv, Lockstep, Serve
    PROVE  Lockstep'
<1> DEFINE c == Head(toServer)
<1>1. /\ IsConnected /\ state = "Busy" /\ DialogInStep /\ Step \in AskingSteps /\ Asked /\ tls # "handshake"
      /\ toServer # <<>>
  <2>1. IsConnected /\ toServer # <<>> /\ tls # "handshake"
    BY DEF Serve, IsConnected
  <2>2. state = "Busy" /\ DialogInStep
    BY <2>1 DEF Lockstep, Silent, IsConnected, PInv, QueueInv
  <2>3. Asked /\ Step \in AskingSteps
    BY <2>1, <2>2 DEF DialogInStep, Answered, Silent
  <2> QED BY <2>1, <2>2, <2>3
<1>2. c.cmd = CommandAt[Step] /\ c.reply = current /\ toServer' = <<>> /\ toClient = <<>>
  <2>1. toServer \in Seq(CommandLines(Len(replies))) /\ toServer' = Tail(toServer)
    BY DEF PInv, LinkInv, Serve
  <2>2. Head(toServer) = toServer[1] /\ Tail(toServer) \in Seq(CommandLines(Len(replies))) /\ Len(Tail(toServer)) = 0
    BY <1>1, <2>1, HeadTailProperties DEF Asked
  <2> QED BY <1>1, <2>1, <2>2, EmptySeq DEF Asked
<1>3. /\ UNCHANGED <<state, current, replies, disableStartTLS, link, tls>> /\ Step' = Step
  BY DEF Serve, queueVars, Step
<1> HIDE DEF c
<1>4. Accept(c) \/ Refuse(c)
  BY DEF Serve, c
<1>5. Answered' /\ \A i \in 1 .. Len(toClient') : toClient'[i].reply = current'
  <2>1. CASE Refuse(c)
    <3> DEFINE classes == <<"-ERR">>
    <3>1. classes \in Seq({"+OK", "-ERR", "text", "."}) /\ Len(classes) = 1 /\ classes[1] = "-ERR"
      OBVIOUS
    <3>2. Says(classes, current)
      BY <1>2, <2>1 DEF Refuse
    <3> HIDE DEF classes
    <3>3. /\ Len(toClient') = Len(classes)
          /\ \A i \in 1 .. Len(classes) : toClient'[i].class = classes[i] /\ toClient'[i].reply = current
      BY <1>2, <3>1, <3>2, SaidLines
    <3> QED BY <1>2, <1>3, <3>1, <3>3 DEF Answered
  <2>2. CASE Accept(c) /\ c.cmd \in {"LIST", "RETR"}
    <3>1. PICK n \in 0 .. MaxLines : Says(<<"+OK">> \o [i \in 1 .. n |-> "text"] \o <<".">>, current)
      BY <1>2, <2>2 DEF Accept
    <3>2. n \in Nat
      BY DEF Pop3Assumption
    <3> DEFINE classes == <<"+OK">> \o [i \in 1 .. n |-> "text"] \o <<".">>
    <3>3. /\ classes \in Seq({"+OK", "-ERR", "text", "."}) /\ Len(classes) = n + 2
          /\ classes[1] = "+OK"
          /\ \A i \in 2 .. n + 2 : classes[i] = IF i = n + 2 THEN "." ELSE "text"
      BY <3>2, ListingLines
    <3>4. Says(classes, current)
      BY <3>1
    <3> HIDE DEF classes
    <3>5. /\ Len(toClient') = Len(classes)
          /\ \A i \in 1 .. Len(classes) : toClient'[i].class = classes[i] /\ toClient'[i].reply = current
      BY <1>2, <3>3, <3>4, SaidLines
    <3>6. TextFrom(2)' /\ toClient'[1].class = "+OK" /\ Len(toClient') >= 2
      BY <3>2, <3>3, <3>5 DEF TextFrom
    <3>7. IF c.cmd = "LIST" THEN Step = "ListSent" ELSE Step = "RetrSent"
      BY <1>1, <1>2, <2>2 DEF CommandAt, AskingSteps
    <3>8. current \in served'
      BY <1>2, <2>2 DEF Accept
    <3> QED BY <1>2, <1>3, <3>5, <3>6, <3>7, <3>8 DEF Answered
  <2>3. CASE Accept(c) /\ c.cmd \notin {"LIST", "RETR"}
    <3> DEFINE classes == <<"+OK">>
    <3>1. classes \in Seq({"+OK", "-ERR", "text", "."}) /\ Len(classes) = 1 /\ classes[1] = "+OK"
      OBVIOUS
    <3>2. Says(classes, current)
      BY <1>2, <2>3 DEF Accept
    <3> HIDE DEF classes
    <3>3. /\ Len(toClient') = Len(classes)
          /\ \A i \in 1 .. Len(classes) : toClient'[i].class = classes[i] /\ toClient'[i].reply = current
      BY <1>2, <3>1, <3>2, SaidLines
    <3>4. Step \notin {"ListSent", "RetrSent"}
      BY <1>2, <2>3 DEF CommandAt
    <3>5. Step \in {"PassSent", "Sent"} => current \in served'
      <4>1. Step \in {"PassSent", "Sent"} => c.cmd \in {"PASS", "SINGLE"}
        BY <1>2 DEF CommandAt
      <4> QED BY <1>2, <2>3, <4>1 DEF Accept
    <3> QED BY <1>2, <1>3, <3>1, <3>3, <3>4, <3>5 DEF Answered
  <2> QED BY <1>4, <2>1, <2>2, <2>3
<1>6. DialogInStep'
  BY <1>1, <1>3, <1>5 DEF DialogInStep, AskingSteps
<1> QED BY <1>1, <1>3, <1>6 DEF Lockstep, IsConnected

-----------------------------------------------------------------------------
(* The application in lockstep, if it cancels what is queued only.         *)

LEMMA IssueInStep ==
    ASSUME PInv, Lockstep, NEW kind \in Kinds, Issue(kind)
    PROVE  Lockstep'
<1> DEFINE rs == Append(replies, NewReply(kind))
           queue == Append(pending, Len(rs))
<1>1. rs \in Seq(Replies) /\ Queued(rs, queue) /\ (\A r \in 1 .. Len(replies) : rs[r] = replies[r])
  BY Joined DEF PInv
<1>2. UNCHANGED <<disableStartTLS, link, tls, connects, toClient, served>>
  BY DEF Issue, serverVars
<1> HIDE DEF rs, queue
<1>3. CASE Dequeue(rs, queue) /\ state = "Ready"
  <2>1. Silent /\ tls # "handshake" /\ link # "connecting"
    BY <1>3 DEF Lockstep
  <2>2. IF IsConnected' THEN toServer = <<>> /\ IsConnected /\ Write(Written(rs, queue)) ELSE toServer' = <<>>
    BY <1>2, <1>3, <2>1 DEF IsConnected, Dequeue, Write, Silent
  <2> QED BY <1>1, <1>2, <1>3, <2>1, <2>2, StartsInStep DEF Dequeue, Silent
<1>4. CASE replies' = rs /\ UNCHANGED <<state, current, toServer>>
  <2>1. state = "Busy" => Step' = Step
    BY <1>1, <1>4, Running DEF Step
  <2>2. state = "Busy" /\ DialogInStep => DialogInStep'
    BY <1>2, <1>4, <2>1 DEF DialogInStep, Asked, Answered, Silent, TextFrom
  <2> QED BY <1>2, <1>4, <2>1, <2>2 DEF Lockstep, Silent, IsConnected
<1> QED BY <1>3, <1>4 DEF Issue, Enqueue, MayDequeue, rs, queue

LEMMA CancelInStep ==
    ASSUME OnlyQueuedAreCancelled, PInv, Lockstep, Verdicts(replies, served), NEW r \in DOMAIN replies, Cancel(r)
    PROVE  Lockstep'
<1>1. r \in 1 .. Len(replies) /\ replies \in Seq(Replies)
  BY ReplyCount DEF PInv, QueueInv
<1>2. replies[r].status = "Pending" /\ replies[r].step = "Start"
  BY <1>1 DEF Cancel, OnlyQueuedAreCancelled, Verdicts
<1>3. /\ replies' = [Finished(r, "Error") EXCEPT ![r].cancelled = TRUE]
      /\ UNCHANGED <<state, current, toServer, disableStartTLS, link, tls, toClient, served>>
  BY <1>2 DEF Cancel, serverVars
<1>4. state = "Busy" => Step' = Step
  <2> SUFFICES ASSUME state = "Busy" PROVE replies'[current] = replies[current]
    BY <1>3 DEF Step
  <2>1. current # r /\ current \in 1 .. Len(replies)
    BY <1>2, Running
  <2> QED BY <1>1, <1>3, <2>1, LenProperties DEF Finished
<1>5. state = "Busy" /\ DialogInStep => DialogInStep'
  BY <1>3, <1>4 DEF DialogInStep, Asked, Answered, Silent, TextFrom
<1> QED BY <1>3, <1>4, <1>5 DEF Lockstep, Silent, IsConnected

LEMMA LockstepStep ==
    ASSUME Pop3Assumption, OnlyQueuedAreCancelled, PInv, Lockstep, Verdicts(replies, served), [Next]_vars
    PROVE  Lockstep'
<1>1. CASE \E kind \in Kinds : Issue(kind)
  BY <1>1, IssueInStep
<1>2. CASE \E r \in OfApplication : Cancel(r)
  BY <1>2, CancelInStep DEF OfApplication
<1>3. CASE ConnectToHost \/ LoseConnection \/ Hangup \/ HandshakeFails
  BY <1>3, ConnectionInStep
<1>4. CASE ReadGreeting \/ ReadLine \/ ReadStlsRefusal \/ Encrypted
  BY <1>4, GreetingInStep, LineInStep, StlsRefusalInStep, EncryptedInStep
<1>5. CASE Serve \/ Welcome
  BY <1>5, ServeInStep, WelcomeInStep
<1>6. CASE UNCHANGED vars
  <2>1. UNCHANGED <<state, current, replies, link, tls, disableStartTLS, toServer, toClient, served>> /\ Step' = Step
    BY <1>6 DEF vars, queueVars, serverVars, Step
  <2>2. DialogInStep => DialogInStep'
    BY <2>1 DEF DialogInStep, Asked, Answered, Silent, TextFrom
  <2> QED BY <2>1, <2>2 DEF Lockstep, Silent, IsConnected
<1> QED BY <1>1, <1>2, <1>3, <1>4, <1>5, <1>6 DEF Next, Socket

-----------------------------------------------------------------------------
(* What a reply that completed says of the server.                         *)

LEMMA VerdictsStart ==
    ASSUME NEW rs \in Seq(Replies), NEW queue, Queued(rs, queue), Start(rs, queue),
           NEW done, Verdicts(rs, done)
    PROVE  Verdicts(replies', done)
<1>1. CASE queue = <<>>
  BY <1>1 DEF Start
<1>2. CASE queue # <<>>
  <2> DEFINE h == Head(queue)
             new == [rs[h] EXCEPT !.status = "Running", !.step = Begin(rs[h].kind).step]
  <2>1. replies' = [rs EXCEPT ![h] = new] /\ h \in 1 .. Len(rs)
    BY <1>2, StartedHead DEF Start
  <2>2. rs[h] \in Replies
    BY <2>1, ElementOfSeq
  <2>3. new \in Replies /\ new.status = "Running"
    BY <2>2, Beginnings DEF Replies
  <2> HIDE DEF new, h
  <2>4. Len(replies') = Len(rs) /\ \A q \in 1 .. Len(rs) : replies'[q] = IF q = h THEN new ELSE rs[q]
    BY <2>1, <2>3, ReplyChanged
  <2> QED BY <2>3, <2>4 DEF Verdicts
<1> QED BY <1>1, <1>2

LEMMA VerdictFinished ==
    ASSUME PInv, Verdicts(replies, served), NEW r \in 1 .. Len(replies),
           replies[r].step # "Start", Unfinished(replies[r]), NEW status \in {"Completed", "Error"},
           status = "Completed" => r \in served \/ replies[r].kind = "quit"
    PROVE  Verdicts(Finished(r, status), served)
<1> DEFINE new == [replies[r] EXCEPT !.status = status, !.signals = @ + 1]
           rs == Finished(r, status)
<1>1. replies[r] \in Replies /\ replies \in Seq(Replies)
  BY ElementOfSeq DEF PInv, QueueInv
<1>2. new.status = status /\ new.kind = replies[r].kind
  BY <1>1, FinishedReply
<1>3. rs[r] = new
  BY <1>1, LenProperties DEF Finished
<1>4. Len(rs) = Len(replies) /\ \A q \in 1 .. Len(replies) : q # r => rs[q] = replies[q]
  BY FinishedReplies
<1> HIDE DEF rs, new
<1>5. Verdicts(rs, served)
  BY <1>2, <1>3, <1>4 DEF Verdicts
<1> QED BY <1>5 DEF rs

LEMMA VerdictsJoined ==
    ASSUME PInv, Verdicts(replies, served), NEW kind \in Kinds \cup {"auth"}
    PROVE  Verdicts(Append(replies, NewReply(kind)), served)
<1> DEFINE rs == Append(replies, NewReply(kind))
<1>1. /\ Len(rs) = Len(replies) + 1 /\ Len(replies) \in Nat
      /\ \A r \in 1 .. Len(replies) : rs[r] = replies[r]
  BY Joined DEF PInv
<1>2. rs[Len(replies) + 1] = NewReply(kind)
  BY AppendProperties DEF PInv, QueueInv
<1> HIDE DEF rs
<1>3. Verdicts(rs, served)
  BY <1>1, <1>2 DEF Verdicts, NewReply
<1> QED BY <1>3 DEF rs

\* A reply completes with the answer to its last command.
LEMMA CompletedWhen ==
    ASSUME PInv, Lockstep, toClient # <<>>, state # "StartState", Answer(Step, Line).code = "OK"
    PROVE  current \in served \/ replies[current].kind = "quit"
<1>1. /\ DialogInStep /\ state = "Busy" /\ Line = toClient[1] /\ Step # "TlsOk"
      /\ Step # "OkReceived" => Answered /\ Step \in AskingSteps
  BY AnswerAtHand
<1>2. Step \in {"PassSent", "QuitSent", "Sent", "OkReceived"}
      /\ (Step \in {"PassSent", "Sent"} => IsAnswerOK(Line))
  BY <1>1 DEF Answer, AfterStls, AfterList, Goes, Ends, AskingSteps
<1>3. Step = "QuitSent" => replies[current].kind = "quit"
  BY <1>1, Running DEF Replies, StepsOf, Step, Kinds
<1> QED BY <1>1, <1>2, <1>3 DEF Answered, IsAnswerOK, DialogInStep

LEMMA DialogVerdicts ==
    ASSUME PInv, Lockstep, Verdicts(replies, served), NEW line, Dialog(line), state = "Busy",
           Answer(Step, line).code = "OK" => current \in served \/ replies[current].kind = "quit"
    PROVE  Verdicts(replies', served)
<1> DEFINE answer == Answer(Step, line)
<1>1. /\ current \in 1 .. Len(replies) /\ replies[current] \in Replies /\ replies \in Seq(Replies)
      /\ replies[current].step # "Start" /\ Unfinished(replies[current]) /\ Queued(replies, pending)
      /\ replies[current].status = "Running"
  BY Running DEF PInv, QueueInv, NoneWaitsInVain
<1>2. CASE answer.code # "none"
  <2> DEFINE status == Status(answer.code)
             rs == Finished(current, status)
  <2>1. /\ status \in {"Completed", "Error"}
        /\ status = "Completed" => current \in served \/ replies[current].kind = "quit"
    BY DEF Status
  <2>2. Start(rs, pending)
    BY <1>2 DEF Dialog, Terminate, Dequeue, Step
  <2> HIDE DEF status
  <2>3. rs \in Seq(Replies) /\ Queued(rs, pending) /\ Verdicts(rs, served)
    BY <1>1, <2>1, FinishedReplies, VerdictFinished
  <2> HIDE DEF rs
  <2> QED BY <2>2, <2>3, VerdictsStart
<1>3. CASE answer.code = "none"
  <2> DEFINE new == [replies[current] EXCEPT !.step = answer.step]
  <2>1. replies' = [replies EXCEPT ![current] = new]
    BY <1>3 DEF Dialog, Step
  <2>2. new \in Replies
    <3>1. answer.step \in StepsOf(replies[current].kind) /\ answer.step \in Steps
      BY <1>1, Answers DEF Step
    <3> HIDE DEF answer
    <3> QED BY <1>1, <3>1 DEF Replies
  <2>3. new.status = "Running"
    BY <1>1 DEF Replies
  <2> HIDE DEF new
  <2>4. Len(replies') = Len(replies) /\ \A q \in 1 .. Len(replies) : replies'[q] = IF q = current THEN new ELSE replies[q]
    BY <1>1, <2>1, <2>2, ReplyChanged
  <2> QED BY <2>3, <2>4 DEF Verdicts
<1> QED BY <1>2, <1>3

LEMMA HandshakeVerdicts ==
    ASSUME PInv, Verdicts(replies, served), HandshakeFails
    PROVE  Verdicts(replies', served)
<1>1. current \in 1 .. Len(replies) /\ replies[current].step # "Start" /\ Unfinished(replies[current])
  BY Running DEF HandshakeFails
<1> DEFINE rs == Finished(current, "Error")
<1>2. Verdicts(rs, served) /\ Len(rs) = Len(replies)
  BY <1>1, FinishedReplies, VerdictFinished
<1>3. DOMAIN replies = 1 .. Len(replies) /\ Len(replies) \in Nat /\ replies \in Seq(Replies)
  BY ReplyCount DEF PInv, QueueInv
<1>4. \A r \in 1 .. Len(replies) :
         replies'[r] = IF r = current THEN rs[r]
                       ELSE IF r = current' THEN [replies[r] EXCEPT !.status = "Running",
                                                                    !.step = Begin(replies[r].kind).step]
                       ELSE replies[r]
  BY <1>3 DEF HandshakeFails
<1>5. Len(replies') = Len(replies)
  <2>1. DOMAIN replies' = 1 .. Len(replies)
    BY <1>3 DEF HandshakeFails
  <2>2. replies' \in Seq(Replies)
    BY HandshakeFailsStep DEF PInv, QueueInv
  <2> QED BY <1>3, <2>1, <2>2, LenProperties
<1>6. \A r \in 1 .. Len(replies) : [replies[r] EXCEPT !.status = "Running",
                                                     !.step = Begin(replies[r].kind).step].status = "Running"
  BY <1>3, ElementOfSeq DEF Replies
<1> HIDE DEF rs
<1> QED BY <1>2, <1>4, <1>5, <1>6 DEF Verdicts

LEMMA CancelVerdicts ==
    ASSUME OnlyQueuedAreCancelled, PInv, Verdicts(replies, served), NEW r \in DOMAIN replies, Cancel(r)
    PROVE  Verdicts(replies', served)
<1>1. r \in 1 .. Len(replies) /\ replies \in Seq(Replies) /\ replies[r] \in Replies
  BY ReplyCount, ElementOfSeq DEF PInv, QueueInv
<1>2. replies[r].status = "Pending" /\ replies[r].step = "Start"
  BY <1>1 DEF Cancel, OnlyQueuedAreCancelled, Verdicts
<1>3. replies' = [Finished(r, "Error") EXCEPT ![r].cancelled = TRUE]
  BY <1>2 DEF Cancel
<1>4. replies'[r].status = "Error"
  BY <1>1, <1>3, LenProperties DEF Finished, Replies
<1>5. \A q \in 1 .. Len(replies) : q # r => replies'[q] = replies[q]
  BY <1>1, <1>3, LenProperties DEF Finished
<1>6. Len(replies') = Len(replies)
  <2>1. DOMAIN replies' = DOMAIN replies
    BY <1>3 DEF Finished
  <2>2. replies' \in Seq(Replies)
    BY CancelStep DEF PInv, QueueInv
  <2> QED BY <1>1, <2>1, <2>2, LenProperties
<1> QED BY <1>4, <1>5, <1>6 DEF Verdicts

\* A new reply that is started at once or joins the queue.
LEMMA JoiningVerdicts ==
    ASSUME PInv, Verdicts(replies, served), NEW kind \in Kinds \cup {"auth"},
           LET rs == Append(replies, NewReply(kind)) IN
           replies' = rs \/ Start(rs, Append(pending, Len(rs)))
    PROVE  Verdicts(replies', served)
<1> DEFINE rs == Append(replies, NewReply(kind))
           queue == Append(pending, Len(rs))
<1>1. rs \in Seq(Replies) /\ Queued(rs, queue) /\ Verdicts(rs, served)
  BY Joined, VerdictsJoined DEF PInv
<1>2. replies' = rs \/ Start(rs, queue)
  OBVIOUS
<1> HIDE DEF rs, queue
<1>3. CASE replies' = rs
  BY <1>1, <1>3
<1>4. CASE Start(rs, queue)
  BY <1>1, <1>4, VerdictsStart
<1> QED BY <1>2, <1>3, <1>4

LEMMA RefusalVerdicts ==
    ASSUME PInv, Verdicts(replies, served), ReadStlsRefusal
    PROVE  Verdicts(replies', served)
<1> DEFINE rs == Finished(current, "Error")
<1>1. current \in 1 .. Len(replies) /\ replies[current].step # "Start" /\ Unfinished(replies[current])
  BY Running DEF ReadStlsRefusal, StlsRefused
<1>2. rs \in Seq(Replies) /\ Queued(rs, pending) /\ Verdicts(rs, served)
  BY <1>1, FinishedReplies, VerdictFinished
<1>3. replies' = rs \/ Start(rs, pending)
  BY DEF ReadStlsRefusal, Terminate, Dequeue
<1> HIDE DEF rs
<1>4. CASE Start(rs, pending)
  BY <1>2, <1>4, VerdictsStart
<1> QED BY <1>2, <1>3, <1>4

LEMMA VerdictsStep ==
    ASSUME OnlyQueuedAreCancelled, PInv, Lockstep, Verdicts(replies, served), [Next]_vars
    PROVE  Verdicts(replies, served)'
<1> SUFFICES Verdicts(replies', served')
  BY DEF Verdicts
<1>1. CASE \E kind \in Kinds : Issue(kind)
  <2>1. PICK kind \in Kinds : Issue(kind)
    BY <1>1
  <2>2. Verdicts(replies', served)
    BY <2>1, JoiningVerdicts DEF Issue, Enqueue, Dequeue
  <2> QED BY <2>1, <2>2 DEF Issue, serverVars
<1>2. CASE \E r \in OfApplication : Cancel(r)
  <2>1. PICK r \in DOMAIN replies : Cancel(r)
    BY <1>2 DEF OfApplication
  <2> QED BY <2>1, CancelVerdicts DEF Cancel, serverVars
<1>3. CASE ConnectToHost \/ LoseConnection \/ Hangup \/ Welcome \/ UNCHANGED vars
  BY <1>3 DEF ConnectToHost, LoseConnection, Hangup, Welcome, vars, queueVars, serverVars
<1>4. CASE ReadGreeting
  <2>1. Verdicts(replies', served)
    BY <1>4, JoiningVerdicts DEF ReadGreeting, Dequeue
  <2> QED BY <1>4, <2>1 DEF ReadGreeting, serverVars
<1>5. CASE ReadLine
  <2>1. served' = served
    BY <1>5 DEF ReadLine, serverVars
  <2>2. CASE state = "Busy"
    <3>1. Dialog(Line) /\ toClient # <<>>
      BY <1>5, <2>2 DEF ReadLine
    <3>2. Answer(Step, Line).code = "OK" => current \in served \/ replies[current].kind = "quit"
      BY <2>2, <3>1, CompletedWhen
    <3> QED BY <2>1, <2>2, <3>1, <3>2, DialogVerdicts
  <2>3. CASE state # "Busy"
    BY <1>5, <2>1, <2>3 DEF ReadLine, queueVars
  <2> QED BY <2>2, <2>3
<1>6. CASE ReadStlsRefusal
  BY <1>6, RefusalVerdicts DEF ReadStlsRefusal, serverVars
<1>7. CASE Encrypted
  <2> DEFINE line == [class |-> "none", reply |-> 0]
  <2>1. state = "Busy" /\ Step = "TlsOk" /\ Dialog(line) /\ served' = served
    BY <1>7 DEF Encrypted, Lockstep, serverVars
  <2>2. Answer(Step, line).code # "OK"
    BY <2>1 DEF Answer, Goes
  <2> HIDE DEF line
  <2> QED BY <2>1, <2>2, DialogVerdicts
<1>8. CASE HandshakeFails
  BY <1>8, HandshakeVerdicts DEF HandshakeFails, serverVars
<1>9. CASE Serve
  <2>1. replies' = replies /\ served \subseteq served'
    BY <1>9 DEF Serve, Accept, Refuse, queueVars
  <2> QED BY <2>1 DEF Verdicts
<1> QED BY <1>1, <1>2, <1>3, <1>4, <1>5, <1>6, <1>7, <1>8, <1>9 DEF Next, Socket

LEMMA LockstepHolds ==
    ASSUME OnlyQueuedAreCancelled
    PROVE  Spec => [](PInv /\ Lockstep /\ Verdicts(replies, served))
<1> DEFINE I == PInv /\ Lockstep /\ Verdicts(replies, served)
<1>1. Init => I
  <2> SUFFICES ASSUME Init PROVE I
    OBVIOUS
  <2>1. Lockstep
    BY DEF Init, Lockstep, IsConnected, Silent
  <2>2. Verdicts(replies, served)
    BY EmptySeq DEF Init, Verdicts
  <2> QED BY <2>1, <2>2, PInvInitially
<1>2. I /\ [Next]_vars => I'
  BY PInvStep, LockstepStep, VerdictsStep, Pop3Assumption
<1> HIDE DEF I
<1>3. Spec => []I
  BY <1>1, <1>2, PTL DEF Spec
<1> QED BY <1>3 DEF I

\* If the application cancels only what waits in the queue, every line that
\* comes back is read by the reply whose command it answers, however the
\* replies start each other from finished(), in a greeting, in a dialog and
\* after a refusal, and whenever the connection is lost or made again.
THEOREM LinesGoToCurrent == ASSUME OnlyQueuedAreCancelled PROVE Spec => []LineIsForCurrent
<1>1. PInv /\ Lockstep => LineIsForCurrent
  <2> SUFFICES ASSUME PInv, Lockstep, toClient # <<>> PROVE LineIsForCurrent
    BY DEF LineIsForCurrent
  <2>1. CASE state = "StartState"
    BY <2>1, Lines DEF Lockstep, Silent, LineIsForCurrent
  <2>2. CASE state # "StartState"
    <3>1. state = "Busy" /\ DialogInStep /\ Line = toClient[1] /\ Len(toClient) \in Nat /\ Len(toClient) # 0
      BY <2>2, AnswerAtHand, Lines
    <3>2. Line.reply = current
      BY <3>1 DEF DialogInStep
    <3> QED BY <3>1, <3>2, Running DEF LineIsForCurrent
  <2> QED BY <2>1, <2>2
<1> QED BY <1>1, LockstepHolds, PTL

\* Under the same condition a reply that says Completed was obeyed by the
\* server: no reply completes with the answer to another one's command.
THEOREM CompletedStaysTrue == ASSUME OnlyQueuedAreCancelled PROVE Spec => []CompletedIsTrue
<1>1. PInv /\ Verdicts(replies, served) => CompletedIsTrue
  BY ReplyCount DEF Verdicts, CompletedIsTrue
<1> QED BY <1>1, LockstepHolds, PTL

\* Under the same condition neither name nor password is written before the
\* connection is encrypted, unless the application disabled STARTTLS.
THEOREM PasswordsStayEncrypted == ASSUME OnlyQueuedAreCancelled PROVE Spec => []PasswordIsEncrypted
<1>1. PInv /\ Lockstep => PasswordIsEncrypted
  <2> SUFFICES ASSUME PInv, Lockstep, NEW i \in DOMAIN toServer,
                      toServer[i].cmd \in {"USER", "PASS"}, ~disableStartTLS
               PROVE  tls = "yes"
    BY DEF PasswordIsEncrypted
  <2>1. toServer # <<>>
    BY Lines
  <2>2. IsConnected /\ state = "Busy" /\ DialogInStep
    BY <2>1, Lines DEF Lockstep, Silent, IsConnected, PInv, QueueInv
  <2>3. Asked /\ Step \in AskingSteps
    BY <2>1, <2>2 DEF DialogInStep, Answered, Silent
  <2>4. toServer[i].cmd = CommandAt[Step]
    BY <2>3, Lines DEF Asked
  <2>5. Step \in {"UserSent", "PassSent"}
    BY <2>3, <2>4 DEF CommandAt, AskingSteps
  <2> QED BY <2>2, <2>5 DEF DialogInStep
<1> QED BY <1>1, LockstepHolds, PTL
=============================================================================
