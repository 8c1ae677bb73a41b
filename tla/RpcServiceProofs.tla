-------------------------- MODULE RpcServiceProofs --------------------------
(***************************************************************************)
(* Proofs about RpcService, for every number of connections, clients,      *)
(* receivers, messages and nested event loops: the types, that the tables  *)
(* agree with what was announced, what it takes to crash the server, and   *)
(* that calls travel as CallChannels says.                                 *)
(*                                                                         *)
(* For the last, the bytes of a connection that were sent and not taken    *)
(* are one stream, wherever they are: lengths and bodies in turn.  Most    *)
(* steps move bytes along the stream, a call lengthens it by a message at  *)
(* its end, and dispatching shortens it by one at its beginning; CallsIn   *)
(* turns the former into a stutter and the latter into Append and Tail.    *)
(* What CallsIn computes is known by induction on the length of streams,   *)
(* taken from the least number of a set without some property.             *)
(***************************************************************************)
EXTENDS RpcService, SequenceTheorems, WellFoundedInduction, TLAPS

Frame == [conn : Conns, signalled : BOOLEAN, todo : Seq(Objects), inside : BOOLEAN]
Announcements == {<<>>, <<"connected">>, <<"connected", "disconnected">>}

\* TypeOK in parts, one for each group of variables.
TableTypes ==
    /\ clients \subseteq Conns /\ handlers \subseteq Conns
    /\ DOMAIN buffers \subseteq Conns /\ \A k \in DOMAIN buffers : buffers[k] \in Seq(Parts)
    /\ signals \in [Conns -> Announcements]
    /\ rejected \subseteq Conns

CauseTypes == cutOff \subseteq Conns /\ overrun \subseteq Conns /\ orphaned \subseteq Objects

DispatchTypes ==
    /\ slots \in Seq(Objects) /\ fallback \in Fallbacks \cup {None} /\ destroyed \subseteq Objects
    /\ frames \in Seq(Frame)
    /\ up \in BOOLEAN /\ taken \in Nat /\ CauseTypes

StreamTypes ==
    /\ unread \in [Conns -> Seq(Parts)] /\ toServer \in [Conns -> Seq(Parts)]
    /\ sentUp \in 0 .. MaxUp /\ overlooked \subseteq Conns

ReplyTypes == toClient \in [Conns -> Seq(Parts)] /\ sentDown \in 0 .. MaxDown

ClientTypes ==
    /\ link \in [Conns -> {"new", "open", "closed"}]
    /\ device \in [Clients -> Conns \cup {0}]
    /\ serverBuffer \in [Clients -> Seq(Parts)]
    /\ reading \subseteq Clients /\ heard \in Nat /\ misframed \subseteq Conns

\* A rejected connection was announced and is not in the table.
Rejections == \A k \in rejected : k \notin clients /\ signals[k] # <<>>

\* A receiver is attached at most once, and only while it exists.
AttachedOnce ==
    /\ \A i, j \in DOMAIN slots : slots[i] = slots[j] => i = j
    /\ \A i \in DOMAIN slots : slots[i] \notin destroyed
    /\ fallback \notin destroyed

Live(frame, connected, gone) ==
    /\ frame.conn \in connected
    /\ \A i \in DOMAIN frame.todo : frame.todo[i] \notin gone

\* Every invocation of clientData() reads a client of the table, or one that was
\* cut off or overrun, and has before it only receivers that exist, or were orphaned.
Held == clients \cup cutOff \cup overrun
Gone == destroyed \ orphaned
FramesLive == \A i \in DOMAIN frames : Live(frames[i], Held, Gone)

\* An invocation that is not the innermost one waits in an event loop.
Nested == \A i \in DOMAIN frames : i # Len(frames) => frames[i].inside

RInv ==
    /\ TableTypes /\ DispatchTypes /\ StreamTypes /\ ReplyTypes /\ ClientTypes
    /\ TablesAgree /\ Rejections /\ AttachedOnce /\ Nested /\ FramesLive /\ CrashNeedsReentry

LEMMA TypesInParts ==
    TypeOK <=> TableTypes /\ DispatchTypes /\ StreamTypes /\ ReplyTypes /\ ClientTypes
  BY DEF TypeOK, TableTypes, DispatchTypes, CauseTypes, StreamTypes, ReplyTypes, ClientTypes, Frame, Announcements

LEMMA ReferencesOfInv == ASSUME RInv PROVE ReferencesAreLive
<1> SUFFICES ASSUME NEW i \in DOMAIN frames
             PROVE  /\ Ending(frames[i]) => frames[i].conn \in cutOff \cup overrun
                    /\ \A o \in destroyed : ToCall(frames[i], o) => o \in orphaned
  BY DEF ReferencesAreLive
<1>1. Live(frames[i], Held, Gone)
  BY DEF RInv, FramesLive
<1>2. Ending(frames[i]) => frames[i].conn \notin clients
  BY DEF RInv, Ending, TablesAgree
<1>3. QED
  BY <1>1, <1>2 DEF Live, Held, Gone, ToCall

-----------------------------------------------------------------------------
(* Pieces of streams.                                                      *)

LEMMA MessageType ==
    ASSUME NEW n \in 1 .. MaxUp + MaxDown PROVE Message(n) \in Seq(Parts)
<1>1. [n |-> n, part |-> "length"] \in Parts /\ [n |-> n, part |-> "body"] \in Parts
  BY DEF Parts
<1>2. QED
  BY <1>1 DEF Message

\* The first n elements of a sequence, and those from the m-th on.
LEMMA PrefixOf ==
    ASSUME NEW S, NEW s \in Seq(S), NEW n \in 0 .. Len(s)
    PROVE  /\ SubSeq(s, 1, n) \in Seq(S) /\ Len(SubSeq(s, 1, n)) = n
           /\ \A i \in 1 .. n : SubSeq(s, 1, n)[i] = s[i]
<1>1. Len(s) \in Nat /\ n \in Nat /\ n \in Int /\ 1 \in Int
  BY LenProperties
<1>2. \A i \in 1 .. n : s[i] \in S
  BY <1>1, ElementOfSeq
<1>3. /\ SubSeq(s, 1, n) \in Seq(S)
      /\ Len(SubSeq(s, 1, n)) = IF 1 <= n THEN n - 1 + 1 ELSE 0
      /\ \A i \in 1 .. n - 1 + 1 : SubSeq(s, 1, n)[i] = s[1 + i - 1]
  BY <1>1, <1>2, SubSeqProperties
<1>4. n - 1 + 1 = n /\ \A i \in Int : 1 + i - 1 = i
  BY <1>1
<1>5. Len(SubSeq(s, 1, n)) = n
  BY <1>1, <1>3, <1>4
<1>6. \A i \in 1 .. n : SubSeq(s, 1, n)[i] = s[i]
  BY <1>3, <1>4
<1>7. QED
  BY <1>3, <1>5, <1>6

LEMMA SuffixOf ==
    ASSUME NEW S, NEW s \in Seq(S), NEW m \in Nat \ {0}
    PROVE  /\ SubSeq(s, m, Len(s)) \in Seq(S)
           /\ m <= Len(s) => Len(SubSeq(s, m, Len(s))) = Len(s) - m + 1
           /\ Len(s) < m => Len(SubSeq(s, m, Len(s))) = 0
           /\ \A i \in 1 .. Len(s) - m + 1 : SubSeq(s, m, Len(s))[i] = s[m + i - 1]
<1>1. Len(s) \in Nat /\ Len(s) \in Int /\ m \in Int
  BY LenProperties
<1>2. \A i \in m .. Len(s) : s[i] \in S
  BY <1>1, ElementOfSeq
<1>3. /\ SubSeq(s, m, Len(s)) \in Seq(S)
      /\ Len(SubSeq(s, m, Len(s))) = IF m <= Len(s) THEN Len(s) - m + 1 ELSE 0
      /\ \A i \in 1 .. Len(s) - m + 1 : SubSeq(s, m, Len(s))[i] = s[m + i - 1]
  BY <1>1, <1>2, SubSeqProperties
<1>4. Len(s) < m => ~ (m <= Len(s))
  BY <1>1
<1>5. QED
  BY <1>3, <1>4

LEMMA PieceTypes ==
    ASSUME NEW s \in Seq(Parts), NEW piece \in Prefixes(s)
    PROVE  piece \in Seq(Parts) /\ Without(s, piece) \in Seq(Parts)
<1>1. PICK n \in 0 .. Len(s) : piece = SubSeq(s, 1, n)
  BY DEF Prefixes
<1>2. piece \in Seq(Parts)
  BY <1>1, PrefixOf
<1>3. Len(piece) + 1 \in Nat \ {0}
  BY <1>2, LenProperties
<1>4. QED
  BY <1>2, <1>3, SuffixOf DEF Without

LEMMA RestType ==
    ASSUME NEW s \in Seq(Parts) PROVE Rest(s) \in Seq(Parts)
  BY SuffixOf DEF Rest

LEMMA Lengthened ==
    ASSUME NEW s \in Seq(Parts), NEW t \in Seq(Parts) PROVE s \o t \in Seq(Parts)
  BY ConcatProperties

-----------------------------------------------------------------------------
(* The stack of invocations.                                               *)

LEMMA TopOfFrames ==
    ASSUME DispatchTypes, frames # <<>>
    PROVE  /\ Len(frames) \in 1 .. Len(frames) /\ DOMAIN frames = 1 .. Len(frames)
           /\ Top \in Frame
<1>1. Len(frames) \in Nat /\ DOMAIN frames = 1 .. Len(frames) /\ Len(frames) # 0
  BY LenProperties, EmptySeq DEF DispatchTypes
<1>2. Len(frames) \in 1 .. Len(frames)
  BY <1>1
<1>3. QED
  BY <1>1, <1>2, ElementOfSeq DEF DispatchTypes, Top

LEMMA ReplacedFrames ==
    ASSUME DispatchTypes, frames # <<>>, NEW frame \in Frame
    PROVE  /\ Replace(frame) \in Seq(Frame)
           /\ DOMAIN Replace(frame) = DOMAIN frames /\ Len(Replace(frame)) = Len(frames)
           /\ \A i \in DOMAIN frames :
                 Replace(frame)[i] = IF i = Len(frames) THEN frame ELSE frames[i]
  BY TopOfFrames, ExceptSeq, LenProperties DEF Replace, DispatchTypes

LEMMA FramesBelow ==
    ASSUME DispatchTypes, frames # <<>>
    PROVE  /\ Below \in Seq(Frame)
           /\ DOMAIN Below \subseteq DOMAIN frames
           /\ \A i \in DOMAIN Below : Below[i] = frames[i] /\ i # Len(frames)
<1>1. Len(frames) \in 1 .. Len(frames) /\ DOMAIN frames = 1 .. Len(frames) /\ Len(frames) \in Nat
  BY TopOfFrames, LenProperties DEF DispatchTypes
<1>2. Len(frames) - 1 \in 0 .. Len(frames)
  BY <1>1
<1>3. /\ Below \in Seq(Frame) /\ Len(Below) = Len(frames) - 1
      /\ \A i \in 1 .. Len(frames) - 1 : Below[i] = frames[i]
  BY <1>2, PrefixOf DEF Below, DispatchTypes
<1>4. DOMAIN Below = 1 .. Len(frames) - 1
  BY <1>3, LenProperties
<1>5. 1 .. Len(frames) - 1 \subseteq 1 .. Len(frames)
  BY <1>1
<1>6. QED
  BY <1>1, <1>3, <1>4, <1>5

LEMMA CalledFrame ==
    ASSUME NEW frame \in Frame, frame.todo # <<>>
    PROVE  /\ [frame EXCEPT !.todo = Tail(@)] \in Frame
           /\ \A connected, gone :
                 Live(frame, connected, gone) => Live([frame EXCEPT !.todo = Tail(@)], connected, gone)
<1>1. frame.todo \in Seq(Objects)
  BY DEF Frame
<1>2. /\ Tail(frame.todo) \in Seq(Objects)
      /\ Len(Tail(frame.todo)) = Len(frame.todo) - 1
      /\ \A i \in 1 .. Len(Tail(frame.todo)) : Tail(frame.todo)[i] = frame.todo[i + 1]
  BY <1>1, HeadTailProperties
<1>3. /\ DOMAIN frame.todo = 1 .. Len(frame.todo) /\ Len(frame.todo) \in Nat
      /\ DOMAIN Tail(frame.todo) = 1 .. Len(Tail(frame.todo))
  BY <1>1, <1>2, LenProperties
<1>4. [frame EXCEPT !.todo = Tail(@)] \in Frame
  BY <1>2 DEF Frame
<1>5. /\ [frame EXCEPT !.todo = Tail(@)].conn = frame.conn
      /\ [frame EXCEPT !.todo = Tail(@)].todo = Tail(frame.todo)
  BY DEF Frame
<1>6. \A i \in DOMAIN Tail(frame.todo) : i + 1 \in DOMAIN frame.todo /\ Tail(frame.todo)[i] = frame.todo[i + 1]
  BY <1>2, <1>3
<1>7. QED
  BY <1>4, <1>5, <1>6 DEF Live

-----------------------------------------------------------------------------
(* Steps that leave a group of variables alone.                            *)

TableInv == TableTypes /\ TablesAgree /\ Rejections

LEMMA TableKept == ASSUME TableInv, UNCHANGED tableVars PROVE TableInv'
  BY DEF TableInv, TableTypes, TablesAgree, Rejections, tableVars

LEMMA StreamKept == ASSUME StreamTypes, UNCHANGED streamVars PROVE StreamTypes'
  BY DEF StreamTypes, streamVars

LEMMA RepliesKept == ASSUME ReplyTypes, UNCHANGED replyVars PROVE ReplyTypes'
  BY DEF ReplyTypes, replyVars

LEMMA ClientsKept == ASSUME ClientTypes, UNCHANGED clientVars PROVE ClientTypes'
  BY DEF ClientTypes, clientVars

LEMMA AttachedKept == ASSUME AttachedOnce, UNCHANGED <<slots, fallback, destroyed>> PROVE AttachedOnce'
  BY DEF AttachedOnce

LEMMA CausesKept == ASSUME CauseTypes, UNCHANGED causeVars PROVE CauseTypes'
  BY DEF CauseTypes, causeVars

\* A step after which the server is up.
LEMMA CrashKept == ASSUME up' PROVE CrashNeedsReentry'
  BY DEF CrashNeedsReentry

LEMMA LiveKept ==
    ASSUME FramesLive, UNCHANGED <<frames, destroyed>>, UNCHANGED causeVars, clients \subseteq clients'
    PROVE  FramesLive'
<1>1. Held \subseteq Held' /\ Gone' = Gone
  BY DEF Held, Gone, causeVars
<1>2. QED
  BY <1>1 DEF FramesLive, Live

LEMMA NestingKept ==
    ASSUME DispatchTypes, Nested,
           \/ frames' = frames
           \/ frames # <<>> /\ frames' = Below
           \/ frames # <<>> /\ \E frame \in Frame : frames' = Replace(frame)
    PROVE  Nested'
<1>1. CASE frames' = frames
  BY <1>1 DEF Nested
<1>2. CASE frames # <<>> /\ frames' = Below
  <2>1. \A i \in DOMAIN frames' : i \in DOMAIN frames /\ frames'[i] = frames[i] /\ i # Len(frames)
    BY <1>2, FramesBelow
  <2>2. QED
    BY <2>1 DEF Nested
<1>3. CASE frames # <<>> /\ \E frame \in Frame : frames' = Replace(frame)
  <2>1. PICK frame \in Frame : frames' = Replace(frame)
    BY <1>3
  <2>2. /\ DOMAIN frames' = DOMAIN frames /\ Len(frames') = Len(frames)
        /\ \A i \in DOMAIN frames : i # Len(frames) => frames'[i] = frames[i]
    BY <1>3, <2>1, ReplacedFrames
  <2>3. QED
    BY <2>2 DEF Nested
<1>4. QED
  BY <1>1, <1>2, <1>3

LEMMA NestingPushed ==
    ASSUME DispatchTypes, Nested, Waiting, NEW new \in Frame, frames' = Append(frames, new)
    PROVE  Nested'
<1>1. /\ frames' \in Seq(Frame) /\ Len(frames') = Len(frames) + 1
      /\ \A i \in 1 .. Len(frames) : frames'[i] = frames[i]
  BY AppendProperties DEF DispatchTypes
<1>2. DOMAIN frames' = 1 .. Len(frames) + 1 /\ DOMAIN frames = 1 .. Len(frames) /\ Len(frames) \in Nat
  BY <1>1, LenProperties DEF DispatchTypes
<1>3. \A i \in DOMAIN frames' : i # Len(frames') => i \in DOMAIN frames /\ frames'[i] = frames[i]
  BY <1>1, <1>2
<1>4. \A i \in DOMAIN frames : frames[i].inside
  <2>1. frames = <<>> => DOMAIN frames = {}
    BY <1>2, EmptySeq
  <2>2. frames # <<>> => frames[Len(frames)].inside
    BY DEF Waiting
  <2>3. QED
    BY <2>1, <2>2 DEF Nested
<1>5. QED
  BY <1>3, <1>4 DEF Nested

\* While the loop of events runs, an invocation for k waits in one of its slots.
LEMMA WaitingIsInterrupted ==
    ASSUME Nested, Waiting, NEW i \in DOMAIN frames PROVE Interrupted(frames[i].conn)
<1>1. frames[i].inside
  <2>1. frames # <<>>
    BY EmptySeq, LenProperties
  <2>2. frames[Len(frames)].inside
    BY <2>1 DEF Waiting
  <2>3. QED
    BY <2>2 DEF Nested
<1>2. QED
  BY <1>1 DEF Interrupted, FramesOf

LEMMA DispatchKept ==
    ASSUME DispatchTypes, AttachedOnce, Nested, FramesLive, CrashNeedsReentry,
           UNCHANGED dispatchVars, clients \subseteq clients'
    PROVE  DispatchTypes' /\ AttachedOnce' /\ Nested' /\ FramesLive' /\ CrashNeedsReentry'
<1>1. UNCHANGED <<slots, fallback, destroyed, frames, up, taken>> /\ UNCHANGED causeVars
  BY DEF dispatchVars
<1>2. DispatchTypes'
  BY <1>1, CausesKept DEF DispatchTypes
<1>3. CrashNeedsReentry'
  BY <1>1 DEF CrashNeedsReentry, Top, causeVars
<1>4. QED
  BY <1>1, <1>2, <1>3, AttachedKept, NestingKept, LiveKept

-----------------------------------------------------------------------------
(* The table.                                                              *)

LEMMA PairOfAppend == ASSUME NEW a, NEW b PROVE Append(<<a>>, b) = <<a, b>>
<1> DEFINE s == <<a>>
           t == <<a, b>>
           S == {a, b}
<1>1. s \in Seq(S)
  OBVIOUS
<1>2. t \in Seq(S)
  OBVIOUS
<1>3. Len(s) = 1 /\ s[1] = a
  OBVIOUS
<1>4. Len(t) = 2 /\ t[1] = a /\ t[2] = b
  OBVIOUS
<1>5. b \in S
  OBVIOUS
<1> HIDE DEF s, t, S
<1>6. /\ Append(s, b) \in Seq(S)
      /\ Len(Append(s, b)) = Len(s) + 1
      /\ \A i \in 1 .. Len(s) : Append(s, b)[i] = s[i]
      /\ Append(s, b)[Len(s) + 1] = b
  BY <1>1, <1>5, AppendProperties
<1>7. Len(Append(s, b)) = Len(t)
  BY <1>3, <1>4, <1>6
<1>8. \A i \in 1 .. Len(t) : i = 1 \/ i = 2
  BY <1>4
<1>9. Append(s, b)[1] = a /\ Append(s, b)[2] = b
  BY <1>3, <1>6
<1>10. \A i \in 1 .. Len(Append(s, b)) : Append(s, b)[i] = t[i]
  BY <1>4, <1>7, <1>8, <1>9
<1>11. Append(s, b) = t
  BY <1>2, <1>6, <1>7, <1>10, SeqEqual
<1>12. QED
  BY <1>11 DEF s, t

LEMMA DisconnectKeepsTable ==
    ASSUME TableInv, StreamTypes, NEW k \in Conns, DisconnectClient(k)
    PROVE  TableInv' /\ StreamTypes' /\ clients' = clients \ {k} /\ sentUp' = sentUp
<1>1. CASE k \notin clients
  <2>1. UNCHANGED tableVars /\ UNCHANGED streamVars
    BY <1>1 DEF DisconnectClient, Keep
  <2>2. clients' = clients \ {k} /\ sentUp' = sentUp
    BY <1>1, <2>1 DEF tableVars, streamVars
  <2>3. QED
    BY <2>1, <2>2, TableKept, StreamKept
<1>2. CASE k \in clients
  <2>1. Disconnect(k)
    BY <1>2 DEF DisconnectClient
  <2>2. signals[k] = <<"connected">>
    BY <1>2 DEF TableInv, TablesAgree
  <2>3. Append(signals[k], "disconnected") = <<"connected", "disconnected">>
    BY <2>2, PairOfAppend
  <2>4. signals' = [signals EXCEPT ![k] = <<"connected", "disconnected">>]
    BY <2>1, <2>3 DEF Disconnect
  <2>5. signals' \in [Conns -> Announcements]
    BY <2>4 DEF TableInv, TableTypes, Announcements
  <2>6. /\ signals'[k] = <<"connected", "disconnected">>
        /\ \A j \in Conns \ {k} : signals'[j] = signals[j]
    BY <2>4 DEF TableInv, TableTypes
  <2>7. <<"connected", "disconnected">> # <<"connected">> /\ <<"connected", "disconnected">> # <<>>
    OBVIOUS
  <2>8. DOMAIN buffers' = DOMAIN buffers \ {k} /\ \A j \in DOMAIN buffers' : buffers'[j] = buffers[j]
    BY <2>1 DEF Disconnect
  <2>9. k \notin rejected
    BY <1>2 DEF TableInv, Rejections
  <2>10. clients' = clients \ {k} /\ handlers' = handlers \ {k} /\ rejected' = rejected /\ sentUp' = sentUp
    BY <2>1 DEF Disconnect
  <2>11. TableTypes'
    BY <2>5, <2>8, <2>10 DEF TableInv, TableTypes
  <2>12. TablesAgree'
    <3>1. \A j \in Conns : j \in clients' <=> signals'[j] = <<"connected">>
      BY <2>6, <2>7, <2>10 DEF TableInv, TablesAgree
    <3>2. QED
      BY <3>1, <2>8, <2>9, <2>10 DEF TableInv, TablesAgree
  <2>13. Rejections'
    BY <2>6, <2>9, <2>10 DEF TableInv, Rejections, TableTypes
  <2>14. StreamTypes'
    <3>1. /\ unread' = [unread EXCEPT ![k] = <<>>] /\ toServer' = [toServer EXCEPT ![k] = <<>>]
          /\ overlooked' = overlooked \ {k}
      BY <2>1 DEF Disconnect
    <3>2. <<>> \in Seq(Parts)
      BY EmptySeq
    <3>3. QED
      BY <3>1, <3>2, <2>10 DEF StreamTypes
  <2>15. QED
    BY <2>10, <2>11, <2>12, <2>13, <2>14 DEF TableInv
<1>3. QED
  BY <1>1, <1>2

-----------------------------------------------------------------------------
(* The frames.                                                             *)

LEMMA LiveReplaced ==
    ASSUME DispatchTypes, frames # <<>>, NEW frame \in Frame, frames' = Replace(frame),
           NEW connected, NEW gone,
           \A i \in DOMAIN frames : Live(frames[i], connected, gone), Live(frame, connected, gone)
    PROVE  \A i \in DOMAIN frames' : Live(frames'[i], connected, gone)
  BY ReplacedFrames

LEMMA TopIsLive ==
    ASSUME DispatchTypes, frames # <<>>, FramesLive
    PROVE  Live(Top, Held, Gone)
  BY TopOfFrames DEF FramesLive, Top

LEMMA NewFrameType ==
    ASSUME NEW k \in Conns, NEW signalled \in BOOLEAN
    PROVE  NewFrame(k, signalled) \in Frame /\ NewFrame(k, signalled).conn = k
  BY EmptySeq DEF Frame, NewFrame

LEMMA PushedFrame ==
    ASSUME DispatchTypes, Nested, Waiting, FramesLive, NEW k \in Conns, k \in clients', clients \subseteq clients',
           NEW signalled \in BOOLEAN, frames' = Append(frames, NewFrame(k, signalled)),
           UNCHANGED destroyed, UNCHANGED causeVars
    PROVE  frames' \in Seq(Frame) /\ Nested' /\ FramesLive'
<1> DEFINE new == NewFrame(k, signalled)
<1>1. new \in Frame /\ \A gone : Live(new, Held', gone)
  BY NewFrameType, EmptySeq DEF Live, NewFrame, Held
<1>2. new.conn = k /\ frames' = Append(frames, new)
  BY NewFrameType
<1> HIDE DEF new
<1>3. /\ frames' \in Seq(Frame) /\ Len(frames') = Len(frames) + 1
      /\ \A i \in 1 .. Len(frames) : frames'[i] = frames[i]
      /\ frames'[Len(frames) + 1] = new
  BY <1>1, <1>2, AppendProperties DEF DispatchTypes
<1>4. DOMAIN frames' = 1 .. Len(frames) + 1 /\ DOMAIN frames = 1 .. Len(frames) /\ Len(frames) \in Nat
  BY <1>3, LenProperties DEF DispatchTypes
<1>5. \A i \in DOMAIN frames' : i \in DOMAIN frames \/ i = Len(frames) + 1
  BY <1>4
<1>6. Held \subseteq Held' /\ Gone' = Gone
  BY DEF Held, Gone, causeVars
<1>7. ASSUME NEW i \in DOMAIN frames' PROVE Live(frames'[i], Held', Gone')
  <2>1. CASE i \in DOMAIN frames
    <3>1. frames'[i] = frames[i]
      BY <1>3, <1>4, <2>1
    <3>2. Live(frames[i], Held, Gone)
      BY <2>1 DEF FramesLive
    <3>3. QED
      BY <1>6, <3>1, <3>2 DEF Live
  <2>2. CASE i = Len(frames) + 1
    BY <1>1, <1>3, <2>2
  <2>3. QED
    BY <1>5, <2>1, <2>2
<1>8. Nested'
  BY <1>1, <1>2, NestingPushed
<1>9. QED
  BY <1>3, <1>7, <1>8 DEF FramesLive

LEMMA ReceiversExist ==
    ASSUME DispatchTypes, AttachedOnce
    PROVE  Receivers \in Seq(Objects) /\ \A i \in DOMAIN Receivers : Receivers[i] \notin destroyed
<1>1. CASE slots # <<>>
  BY <1>1 DEF Receivers, DispatchTypes, AttachedOnce
<1>2. CASE slots = <<>> /\ fallback # None
  <2>1. fallback \in Objects /\ fallback \notin destroyed
    BY <1>2, RpcServiceAssumption DEF DispatchTypes, AttachedOnce
  <2>2. Receivers = <<fallback>>
    BY <1>2 DEF Receivers
  <2>3. <<fallback>> \in Seq(Objects)
    BY <2>1
  <2>4. \A i \in DOMAIN <<fallback>> : <<fallback>>[i] = fallback
    OBVIOUS
  <2>5. QED
    BY <2>1, <2>2, <2>3, <2>4
<1>3. CASE slots = <<>> /\ fallback = None
  BY <1>3, EmptySeq DEF Receivers
<1>4. QED
  BY <1>1, <1>2, <1>3

LEMMA RepliesSent ==
    ASSUME ReplyTypes, NEW ids, CallTo(ids) PROVE ReplyTypes'
<1>1. MaxUp \in Nat /\ MaxDown \in Nat /\ sentDown \in 0 .. MaxDown /\ sentDown < MaxDown
  BY RpcServiceAssumption DEF ReplyTypes, CallTo
<1>2. sentDown' \in 0 .. MaxDown /\ sentDown' \in 1 .. MaxUp + MaxDown
  BY <1>1 DEF CallTo
<1>3. Message(sentDown') \in Seq(Parts)
  BY <1>2, MessageType
<1>4. \A k \in Conns : toClient[k] \in Seq(Parts) /\ toClient[k] \o Message(sentDown') \in Seq(Parts)
  BY <1>3, Lengthened DEF ReplyTypes
<1>5. toClient' \in [Conns -> Seq(Parts)]
  BY <1>4 DEF CallTo
<1>6. QED
  BY <1>2, <1>5 DEF ReplyTypes

\* The types of the dispatcher's variables when only frames, taken and the causes change.
LEMMA DispatchTypesOf ==
    ASSUME DispatchTypes, frames' \in Seq(Frame), taken' \in Nat, CauseTypes',
           UNCHANGED <<slots, fallback, destroyed, up>>
    PROVE  DispatchTypes'
  BY DEF DispatchTypes

-----------------------------------------------------------------------------
(* Every action keeps the invariant.                                       *)

LEMMA NewTableTypes ==
    ASSUME TableTypes, NEW k \in Conns
    PROVE  /\ DOMAIN NewTable(k) = DOMAIN buffers \cup {k} /\ DOMAIN NewTable(k) \subseteq Conns
           /\ \A j \in DOMAIN NewTable(k) : NewTable(k)[j] \in Seq(Parts)
  BY EmptySeq DEF NewTable, TableTypes

LEMMA LengthenedBuffer ==
    ASSUME NEW table, NEW k \in DOMAIN table, NEW bytes \in Seq(Parts),
           DOMAIN table \subseteq Conns, \A j \in DOMAIN table : table[j] \in Seq(Parts),
           buffers' = [table EXCEPT ![k] = @ \o bytes]
    PROVE  /\ DOMAIN buffers' = DOMAIN table
           /\ \A j \in DOMAIN buffers' : buffers'[j] \in Seq(Parts)
  BY Lengthened

LEMMA AcceptStep == ASSUME RInv, NEW k \in Conns, Accept(k) PROVE RInv'
<1> USE DEF RInv
<1>1. /\ signals[k] = <<>> /\ signals' = [signals EXCEPT ![k] = Append(@, "connected")]
      /\ clients' = clients \cup {k} /\ handlers' = handlers \cup {k}
      /\ up /\ Waiting
      /\ UNCHANGED <<rejected, destroyed, slots, fallback, up, taken, sentUp, overlooked>>
      /\ UNCHANGED causeVars /\ UNCHANGED replyVars /\ UNCHANGED clientVars
  BY DEF Accept, MayRead, NextPending
<1>2. PICK received \in Prefixes(toServer[k]) :
          /\ ReadUpFront(k, received, NewTable(k))
          /\ toServer' = [toServer EXCEPT ![k] = Without(@, received)]
  BY DEF Accept
<1>3. received \in Seq(Parts) /\ Without(toServer[k], received) \in Seq(Parts)
  BY PieceTypes DEF StreamTypes
<1>4. /\ DOMAIN buffers' = DOMAIN buffers \cup {k} /\ \A j \in DOMAIN buffers' : buffers'[j] \in Seq(Parts)
      /\ frames' \in Seq(Frame) /\ Nested' /\ FramesLive'
  <2>1. CASE received # <<>>
    <3>1. /\ buffers' = [NewTable(k) EXCEPT ![k] = @ \o received]
          /\ frames' = Append(frames, NewFrame(k, FALSE))
      BY <1>2, <2>1 DEF ReadUpFront, ClientData
    <3>2. frames' \in Seq(Frame) /\ Nested' /\ FramesLive'
      BY <1>1, <3>1, PushedFrame
    <3>3. QED
      BY <1>3, <3>1, <3>2, NewTableTypes, LengthenedBuffer
  <2>2. CASE received = <<>>
    <3>1. buffers' = NewTable(k) /\ frames' = frames
      BY <1>2, <2>2 DEF ReadUpFront
    <3>2. frames' \in Seq(Frame) /\ Nested' /\ FramesLive'
      BY <1>1, <3>1, LiveKept, NestingKept DEF DispatchTypes
    <3>3. QED
      BY <3>1, <3>2, NewTableTypes
  <2>3. QED
    BY <2>1, <2>2
<1>5. Append(<<>>, "connected") = <<"connected">>
  OBVIOUS
<1>6. signals' = [signals EXCEPT ![k] = <<"connected">>]
  BY <1>1, <1>5
<1>7. /\ signals' \in [Conns -> Announcements] /\ signals'[k] = <<"connected">>
      /\ \A j \in Conns \ {k} : signals'[j] = signals[j]
  BY <1>6 DEF TableTypes, Announcements
<1>8. k \notin rejected
  BY <1>1 DEF Rejections
<1>9. TableTypes'
  BY <1>1, <1>4, <1>7 DEF TableTypes
<1>10. TablesAgree'
  BY <1>1, <1>4, <1>7, <1>8 DEF TablesAgree
<1>11. Rejections'
  BY <1>1, <1>7, <1>8 DEF Rejections, TableTypes
<1>12. StreamTypes'
  <2>1. unread' = unread
    BY <1>2 DEF ReadUpFront
  <2>2. QED
    BY <1>1, <1>2, <1>3, <2>1 DEF StreamTypes
<1>13. DispatchTypes'
  BY <1>1, <1>4, CausesKept, DispatchTypesOf DEF DispatchTypes
<1>14. ReplyTypes' /\ ClientTypes' /\ AttachedOnce' /\ CrashNeedsReentry'
  BY <1>1, RepliesKept, ClientsKept, AttachedKept, CrashKept
<1>15. QED
  BY <1>4, <1>9, <1>10, <1>11, <1>12, <1>13, <1>14

LEMMA RejectStep == ASSUME RInv, NEW k \in Conns, Reject(k) PROVE RInv'
<1> USE DEF RInv
<1>1. /\ signals[k] = <<>> /\ signals' = [signals EXCEPT ![k] = <<"connected", "disconnected">>]
      /\ buffers' = NewTable(k) /\ rejected' = rejected \cup {k}
      /\ toServer' = [toServer EXCEPT ![k] = <<>>]
      /\ UNCHANGED <<clients, handlers, unread, overlooked, sentUp>>
      /\ UNCHANGED dispatchVars /\ UNCHANGED replyVars /\ UNCHANGED clientVars
  BY DEF Reject, NextPending
<1>2. /\ signals' \in [Conns -> Announcements] /\ signals'[k] = <<"connected", "disconnected">>
      /\ \A j \in Conns \ {k} : signals'[j] = signals[j]
  BY <1>1 DEF TableTypes, Announcements
<1>3. <<>> # <<"connected">> /\ <<"connected", "disconnected">> # <<"connected">> /\ <<"connected", "disconnected">> # <<>>
  OBVIOUS
<1>4. k \notin clients
  BY <1>1, <1>3 DEF TablesAgree
<1>5. TableTypes'
  BY <1>1, <1>2, NewTableTypes DEF TableTypes
<1>6. TablesAgree'
  <2>1. DOMAIN buffers' = clients' \cup rejected'
    BY <1>1, NewTableTypes DEF TablesAgree
  <2>2. \A j \in Conns : j \in clients' <=> signals'[j] = <<"connected">>
    BY <1>1, <1>2, <1>3, <1>4 DEF TablesAgree
  <2>3. QED
    BY <1>1, <2>1, <2>2 DEF TablesAgree
<1>7. Rejections'
  BY <1>1, <1>2, <1>3, <1>4 DEF Rejections, TableTypes
<1>8. StreamTypes'
  BY <1>1, EmptySeq DEF StreamTypes
<1>9. DispatchTypes' /\ AttachedOnce' /\ Nested' /\ FramesLive' /\ CrashNeedsReentry'
  BY <1>1, DispatchKept
<1>10. QED
  BY <1>1, <1>5, <1>6, <1>7, <1>8, <1>9, RepliesKept, ClientsKept

LEMMA ReadyReadStep == ASSUME RInv, NEW k \in Conns, ReadyRead(k) PROVE RInv'
<1> USE DEF RInv
<1>1. /\ k \in handlers
      /\ unread' = [unread EXCEPT ![k] = <<>>] /\ overlooked' = overlooked \ {k}
      /\ up /\ Waiting
      /\ UNCHANGED <<slots, fallback, destroyed, up, taken>> /\ UNCHANGED causeVars
      /\ UNCHANGED <<clients, handlers, signals, rejected, sentUp>>
      /\ UNCHANGED replyVars /\ UNCHANGED clientVars
  BY DEF ReadyRead, MayRead
<1>2. PICK received \in Prefixes(toServer[k]) \ {<<>>} :
          /\ ClientData(k, unread[k] \o received, buffers, TRUE)
          /\ toServer' = [toServer EXCEPT ![k] = Without(@, received)]
  BY DEF ReadyRead
<1>3. received \in Seq(Parts) /\ Without(toServer[k], received) \in Seq(Parts)
  BY PieceTypes DEF StreamTypes
<1>4. unread[k] \o received \in Seq(Parts)
  BY <1>3, Lengthened DEF StreamTypes
<1>5. /\ buffers' = [buffers EXCEPT ![k] = @ \o (unread[k] \o received)]
      /\ frames' = Append(frames, NewFrame(k, TRUE))
  BY <1>2 DEF ClientData
<1>6. k \in clients /\ k \in DOMAIN buffers
  BY <1>1 DEF TablesAgree
<1>7. DOMAIN buffers' = DOMAIN buffers /\ \A j \in DOMAIN buffers' : buffers'[j] \in Seq(Parts)
  BY <1>4, <1>5, <1>6, LengthenedBuffer DEF TableTypes
<1>8. frames' \in Seq(Frame) /\ Nested' /\ FramesLive'
  BY <1>1, <1>5, <1>6, PushedFrame
<1>9. TableTypes' /\ TablesAgree' /\ Rejections'
  BY <1>1, <1>7 DEF TableTypes, TablesAgree, Rejections
<1>10. StreamTypes'
  BY <1>1, <1>2, <1>3, EmptySeq DEF StreamTypes
<1>11. DispatchTypes'
  BY <1>1, <1>8, CausesKept, DispatchTypesOf DEF DispatchTypes
<1>12. ReplyTypes' /\ ClientTypes' /\ AttachedOnce' /\ CrashNeedsReentry'
  BY <1>1, RepliesKept, ClientsKept, AttachedKept, CrashKept
<1>13. QED
  BY <1>8, <1>9, <1>10, <1>11, <1>12

LEMMA ReceiveInsideStep == ASSUME RInv, NEW k \in Conns, ReceiveInside(k) PROVE RInv'
<1> USE DEF RInv
<1>1. /\ overlooked' = overlooked \cup {k} /\ UNCHANGED sentUp
      /\ UNCHANGED dispatchVars /\ UNCHANGED tableVars /\ UNCHANGED replyVars /\ UNCHANGED clientVars
  BY DEF ReceiveInside
<1>2. PICK received \in Prefixes(toServer[k]) \ {<<>>} :
          /\ unread' = [unread EXCEPT ![k] = @ \o received]
          /\ toServer' = [toServer EXCEPT ![k] = Without(@, received)]
  BY DEF ReceiveInside
<1>3. received \in Seq(Parts) /\ Without(toServer[k], received) \in Seq(Parts)
  BY PieceTypes DEF StreamTypes
<1>4. unread[k] \o received \in Seq(Parts)
  BY <1>3, Lengthened DEF StreamTypes
<1>5. StreamTypes'
  BY <1>1, <1>2, <1>3, <1>4 DEF StreamTypes
<1>6. TableInv' /\ clients' = clients
  BY <1>1, TableKept DEF TableInv, tableVars
<1>7. DispatchTypes' /\ AttachedOnce' /\ Nested' /\ FramesLive' /\ CrashNeedsReentry'
  BY <1>1, <1>6, DispatchKept
<1>8. QED
  BY <1>1, <1>5, <1>6, <1>7, RepliesKept, ClientsKept DEF TableInv

LEMMA ServerNoticesEndStep == ASSUME RInv, NEW k \in Conns, ServerNoticesEnd(k) PROVE RInv'
<1> USE DEF RInv
<1>1. /\ up /\ Waiting
      /\ DisconnectClient(k) /\ overrun' = IF Interrupted(k) THEN overrun \cup {k} ELSE overrun
      /\ UNCHANGED <<slots, fallback, destroyed, frames, up, taken, cutOff, orphaned>>
      /\ UNCHANGED replyVars /\ UNCHANGED clientVars
  BY DEF ServerNoticesEnd
<1>2. TableInv' /\ StreamTypes' /\ clients' = clients \ {k}
  BY <1>1, DisconnectKeepsTable DEF TableInv
<1>3. CauseTypes'
  BY <1>1 DEF CauseTypes, DispatchTypes
<1>4. DispatchTypes'
  BY <1>1, <1>3, DispatchTypesOf DEF DispatchTypes
<1>5. FramesLive'
  <2> SUFFICES ASSUME NEW i \in DOMAIN frames PROVE Live(frames[i], Held', Gone')
    BY <1>1 DEF FramesLive
  <2>1. Live(frames[i], Held, Gone) /\ Gone' = Gone
    BY <1>1 DEF FramesLive, Gone
  <2>2. frames[i].conn \in Held'
    <3>1. CASE frames[i].conn = k
      BY <1>1, <3>1, WaitingIsInterrupted DEF Held
    <3>2. CASE frames[i].conn # k
      BY <1>1, <1>2, <2>1, <3>2 DEF Live, Held
    <3>3. QED
      BY <3>1, <3>2
  <2>3. QED
    BY <2>1, <2>2 DEF Live
<1>6. Nested' /\ CrashNeedsReentry'
  BY <1>1, NestingKept, CrashKept
<1>7. QED
  BY <1>1, <1>2, <1>4, <1>5, <1>6, RepliesKept, ClientsKept, AttachedKept DEF TableInv

\* A crash changes nothing else, and has one of the causes.
LEMMA CrashStep ==
    ASSUME RInv, Crash, UNCHANGED replyVars, UNCHANGED clientVars,
           IF Top.todo = <<>> THEN Top.conn \in cutOff \cup overrun ELSE Head(Top.todo) \in orphaned
    PROVE  RInv'
<1> USE DEF RInv
<1>1. /\ up' = FALSE /\ UNCHANGED <<slots, fallback, destroyed, frames, taken>> /\ UNCHANGED causeVars
      /\ UNCHANGED tableVars /\ UNCHANGED streamVars
  BY DEF Crash
<1>2. TableInv' /\ StreamTypes' /\ clients' = clients
  BY <1>1, TableKept, StreamKept DEF TableInv, tableVars
<1>3. DispatchTypes'
  BY <1>1, CausesKept DEF DispatchTypes
<1>4. CrashNeedsReentry'
  <2>1. Top' = Top /\ UNCHANGED <<cutOff, overrun, orphaned>>
    BY <1>1 DEF Top, causeVars
  <2>2. QED
    BY <2>1 DEF CrashNeedsReentry
<1>5. Nested' /\ FramesLive'
  BY <1>1, <1>2, NestingKept, LiveKept
<1>6. QED
  BY <1>1, <1>2, <1>3, <1>4, <1>5, RepliesKept, ClientsKept, AttachedKept DEF TableInv

LEMMA BufferIsGoneStep == ASSUME RInv, BufferIsGone PROVE RInv'
<1>1. frames # <<>> /\ Top.todo = <<>> /\ Top.conn \notin DOMAIN buffers
  BY DEF BufferIsGone, Executing
<1>2. Top.conn \notin clients
  BY <1>1 DEF RInv, TablesAgree
<1>3. Top.conn \in cutOff \cup overrun
  BY <1>1, <1>2, TopIsLive DEF RInv, Live, Held
<1>4. Crash /\ UNCHANGED replyVars /\ UNCHANGED clientVars
  BY DEF BufferIsGone
<1>5. QED
  BY <1>1, <1>3, <1>4, CrashStep

LEMMA ReceiverIsGoneStep == ASSUME RInv, ReceiverIsGone PROVE RInv'
<1>1. frames # <<>> /\ Top.todo # <<>> /\ Head(Top.todo) \in destroyed
  BY DEF ReceiverIsGone, Executing
<1>2. Top.todo \in Seq(Objects)
  BY <1>1, TopOfFrames DEF RInv, Frame
<1>3. 1 \in DOMAIN Top.todo /\ Top.todo[1] = Head(Top.todo)
  BY <1>1, <1>2, EmptySeq, LenProperties
<1>4. Head(Top.todo) \in orphaned
  BY <1>1, <1>3, TopIsLive DEF RInv, Live, Gone
<1>5. Crash /\ UNCHANGED replyVars /\ UNCHANGED clientVars
  BY DEF ReceiverIsGone
<1>6. QED
  BY <1>1, <1>4, <1>5, CrashStep

LEMMA NoneIsWholeStep == ASSUME RInv, NoneIsWhole PROVE RInv'
<1> USE DEF RInv
<1>1. /\ frames # <<>> /\ frames' = Below /\ up
      /\ UNCHANGED <<slots, fallback, destroyed, up, taken>> /\ UNCHANGED causeVars
      /\ UNCHANGED tableVars /\ UNCHANGED streamVars /\ UNCHANGED replyVars /\ UNCHANGED clientVars
  BY DEF NoneIsWhole, Executing
<1>2. TableInv' /\ StreamTypes' /\ clients' = clients
  BY <1>1, TableKept, StreamKept DEF TableInv, tableVars
<1>3. DispatchTypes'
  BY <1>1, CausesKept, FramesBelow, DispatchTypesOf DEF DispatchTypes
<1>4. FramesLive'
  <2>1. Held' = Held /\ Gone' = Gone
    BY <1>1, <1>2 DEF Held, Gone, causeVars
  <2>2. QED
    BY <1>1, <2>1, FramesBelow DEF FramesLive
<1>5. Nested' /\ CrashNeedsReentry'
  BY <1>1, NestingKept, CrashKept
<1>6. QED
  BY <1>1, <1>2, <1>3, <1>4, <1>5, RepliesKept, ClientsKept, AttachedKept DEF TableInv

LEMMA ProtocolErrorStep ==
    ASSUME RInv, frames # <<>>, up, ProtocolError,
           UNCHANGED <<slots, fallback, destroyed, up, cutOff, orphaned>>,
           UNCHANGED replyVars, UNCHANGED clientVars
    PROVE  RInv'
<1> USE DEF RInv
<1>1. PICK k \in Conns : k = Top.conn
  BY TopOfFrames DEF Frame
<1>2. /\ DisconnectClient(k) /\ frames' = Below /\ taken' = taken
      /\ overrun' = IF Interrupted(k) THEN overrun \cup {k} ELSE overrun
  BY <1>1 DEF ProtocolError
<1>3. TableInv' /\ StreamTypes' /\ clients' = clients \ {k}
  BY <1>2, DisconnectKeepsTable DEF TableInv
<1>4. CauseTypes'
  BY <1>2 DEF CauseTypes, DispatchTypes
<1>5. DispatchTypes'
  BY <1>2, <1>4, FramesBelow, DispatchTypesOf DEF DispatchTypes
<1>6. ASSUME NEW i \in DOMAIN frames' PROVE Live(frames'[i], Held', Gone')
  <2>1. i \in DOMAIN frames /\ frames'[i] = frames[i] /\ i # Len(frames)
    BY <1>2, FramesBelow
  <2>2. Live(frames[i], Held, Gone) /\ Gone' = Gone
    BY <2>1 DEF FramesLive, Gone
  <2>3. frames[i].conn = k => Interrupted(k)
    BY <2>1 DEF Nested, Interrupted, FramesOf
  <2>4. frames[i].conn \in Held'
    BY <1>2, <1>3, <2>2, <2>3 DEF Live, Held
  <2>5. QED
    BY <2>1, <2>2, <2>4 DEF Live
<1>7. FramesLive'
  BY <1>6 DEF FramesLive
<1>8. AttachedOnce' /\ Nested' /\ CrashNeedsReentry'
  BY <1>2, AttachedKept, NestingKept, CrashKept
<1>9. QED
  BY <1>3, <1>5, <1>7, <1>8, RepliesKept, ClientsKept DEF TableInv

LEMMA DispatchMessageStep == ASSUME RInv, DispatchMessage PROVE RInv'
<1> USE DEF RInv
<1>1. /\ frames # <<>> /\ Top.conn \in DOMAIN buffers /\ up
      /\ UNCHANGED <<slots, fallback, destroyed, up, cutOff, orphaned>>
      /\ UNCHANGED replyVars /\ UNCHANGED clientVars
  BY DEF DispatchMessage, Executing
<1>2. PICK kind :
          IF kind = "bad" THEN ProtocolError
          ELSE /\ taken' = taken + 1
               /\ buffers' = [buffers EXCEPT ![Top.conn] = Rest(@)]
               /\ frames' = Replace([Top EXCEPT !.todo = IF kind = "call" THEN Receivers ELSE <<>>])
               /\ UNCHANGED <<clients, handlers, signals, rejected, streamVars, overrun>>
  BY DEF DispatchMessage
<1>3. CASE kind = "bad"
  BY <1>1, <1>2, <1>3, ProtocolErrorStep
<1>4. CASE kind # "bad"
  <2> DEFINE todo == IF kind = "call" THEN Receivers ELSE <<>>
             frame == [Top EXCEPT !.todo = todo]
  <2>1. /\ taken' = taken + 1 /\ buffers' = [buffers EXCEPT ![Top.conn] = Rest(@)]
        /\ frames' = Replace(frame)
        /\ UNCHANGED <<clients, handlers, signals, rejected, overrun>> /\ UNCHANGED streamVars
    BY <1>2, <1>4
  <2>2. Top \in Frame
    BY <1>1, TopOfFrames
  <2>3. todo \in Seq(Objects) /\ \A i \in DOMAIN todo : todo[i] \notin Gone
    BY ReceiversExist, EmptySeq DEF Gone
  <2> HIDE DEF todo
  <2>4. frame \in Frame /\ frame.conn = Top.conn /\ frame.todo = todo
    BY <2>2, <2>3 DEF Frame
  <2>5. Live(frame, Held, Gone)
    BY <1>1, <2>3, <2>4, TopIsLive DEF Live
  <2> HIDE DEF frame
  <2>6. frames' \in Seq(Frame)
    BY <1>1, <2>1, <2>4, ReplacedFrames
  <2>7. FramesLive'
    <3>1. Held' = Held /\ Gone' = Gone
      BY <1>1, <2>1 DEF Held, Gone
    <3>2. QED
      BY <1>1, <2>1, <2>4, <2>5, <3>1, LiveReplaced DEF FramesLive
  <2>8. DOMAIN buffers' = DOMAIN buffers /\ \A j \in DOMAIN buffers' : buffers'[j] \in Seq(Parts)
    BY <1>1, <2>1, RestType DEF TableTypes
  <2>9. TableTypes' /\ TablesAgree' /\ Rejections'
    BY <2>1, <2>8 DEF TableTypes, TablesAgree, Rejections
  <2>10. taken' \in Nat /\ CauseTypes'
    BY <1>1, <2>1 DEF DispatchTypes, CauseTypes
  <2>11. DispatchTypes'
    BY <1>1, <2>6, <2>10, DispatchTypesOf
  <2>12. AttachedOnce' /\ Nested' /\ CrashNeedsReentry' /\ StreamTypes' /\ ReplyTypes' /\ ClientTypes'
    BY <1>1, <2>1, <2>4, RepliesKept, ClientsKept, AttachedKept, NestingKept, CrashKept, StreamKept
  <2>13. QED
    BY <2>7, <2>9, <2>11, <2>12
<1>5. QED
  BY <1>3, <1>4

\* What a slot leaves of the frames when it returns, and what it may do to the table.
LEMMA CalledTop ==
    ASSUME DispatchTypes, Calling
    PROVE  /\ frames # <<>> /\ up /\ Called \in Frame
           /\ \A connected, gone : Live(Top, connected, gone) => Live(Called, connected, gone)
<1>1. frames # <<>> /\ up /\ Top.todo # <<>>
  BY DEF Calling, Executing
<1>2. Top \in Frame
  BY <1>1, TopOfFrames
<1>3. QED
  BY <1>1, <1>2, CalledFrame DEF Called

LEMMA CalledFramesLive ==
    ASSUME DispatchTypes, Calling, NEW frame \in Frame, frames' = Replace(frame),
           frame.conn = Called.conn, frame.todo = Called.todo,
           NEW connected, NEW gone, \A i \in DOMAIN frames : Live(frames[i], connected, gone)
    PROVE  \A i \in DOMAIN frames' : Live(frames'[i], connected, gone)
<1>1. Live(Top, connected, gone)
  BY CalledTop, TopOfFrames DEF Top
<1>2. Live(frame, connected, gone)
  BY <1>1, CalledTop DEF Live
<1>3. QED
  BY <1>2, CalledTop, LiveReplaced

\* A slot that returns, or waits, and leaves everything but the replies alone.
LEMMA ReturnStep ==
    ASSUME RInv, Calling, NEW frame \in Frame, frames' = Replace(frame),
           frame.conn = Called.conn, frame.todo = Called.todo, ReplyTypes',
           UNCHANGED <<slots, fallback, destroyed, up, taken>>, UNCHANGED causeVars,
           UNCHANGED tableVars, UNCHANGED streamVars, UNCHANGED clientVars
    PROVE  RInv'
<1> USE DEF RInv
<1>1. TableInv' /\ StreamTypes' /\ clients' = clients
  BY TableKept, StreamKept DEF TableInv, tableVars
<1>2. frames # <<>> /\ frames' \in Seq(Frame) /\ up
  BY CalledTop, ReplacedFrames
<1>3. DispatchTypes'
  BY <1>2, CausesKept, DispatchTypesOf DEF DispatchTypes
<1>4. FramesLive'
  <2>1. Held' = Held /\ Gone' = Gone
    BY <1>1 DEF Held, Gone, causeVars
  <2>2. QED
    BY <2>1, CalledFramesLive DEF FramesLive
<1>5. Nested' /\ CrashNeedsReentry'
  BY <1>2, NestingKept, CrashKept
<1>6. QED
  BY <1>1, <1>3, <1>4, <1>5, ClientsKept, AttachedKept DEF TableInv

LEMMA SlotReturnsStep == ASSUME RInv, SlotReturns PROVE RInv'
<1>1. /\ Calling /\ frames' = Replace(Called)
      /\ UNCHANGED <<slots, fallback, destroyed, up, taken>> /\ UNCHANGED causeVars
      /\ UNCHANGED tableVars /\ UNCHANGED streamVars /\ UNCHANGED clientVars
  BY DEF SlotReturns
<1>2. UNCHANGED replyVars \/ CallTo({Top.conn}) \/ CallTo(clients \ {Top.conn})
  BY DEF SlotReturns, CallExcept
<1>3. ReplyTypes'
  BY <1>2, RepliesKept, RepliesSent DEF RInv
<1>4. Called \in Frame
  BY <1>1, CalledTop DEF RInv
<1>5. QED
  BY <1>1, <1>3, <1>4, ReturnStep

LEMMA SlotWaitsStep == ASSUME RInv, SlotWaits PROVE RInv'
<1> DEFINE frame == [Called EXCEPT !.inside = TRUE]
<1>1. /\ Calling /\ frames' = Replace(frame)
      /\ UNCHANGED <<slots, fallback, destroyed, up, taken>> /\ UNCHANGED causeVars
      /\ UNCHANGED tableVars /\ UNCHANGED streamVars /\ UNCHANGED clientVars /\ UNCHANGED replyVars
  BY DEF SlotWaits
<1>2. Called \in Frame
  BY <1>1, CalledTop DEF RInv
<1>3. frame \in Frame /\ frame.conn = Called.conn /\ frame.todo = Called.todo
  BY <1>2 DEF Frame
<1>4. ReplyTypes'
  BY <1>1, RepliesKept DEF RInv
<1>5. QED
  BY <1>1, <1>3, <1>4, ReturnStep

LEMMA SlotResumesStep == ASSUME RInv, SlotResumes PROVE RInv'
<1> USE DEF RInv
<1> DEFINE frame == [Top EXCEPT !.inside = FALSE]
<1>1. /\ frames # <<>> /\ frames' = Replace(frame) /\ up
      /\ UNCHANGED <<slots, fallback, destroyed, up, taken>> /\ UNCHANGED causeVars
      /\ UNCHANGED tableVars /\ UNCHANGED streamVars /\ UNCHANGED clientVars /\ UNCHANGED replyVars
  BY DEF SlotResumes
<1>2. Top \in Frame
  BY <1>1, TopOfFrames
<1>3. frame \in Frame /\ frame.conn = Top.conn /\ frame.todo = Top.todo
  BY <1>2 DEF Frame
<1>4. Live(frame, Held, Gone)
  BY <1>1, <1>3, TopIsLive DEF Live
<1> HIDE DEF frame
<1>5. FramesLive'
  <2>1. Held' = Held /\ Gone' = Gone
    BY <1>1 DEF tableVars, causeVars, Held, Gone
  <2>2. QED
    BY <1>1, <1>3, <1>4, <2>1, LiveReplaced DEF FramesLive
<1>6. DispatchTypes'
  BY <1>1, <1>3, CausesKept, ReplacedFrames, DispatchTypesOf DEF DispatchTypes
<1>7. TableInv' /\ StreamTypes'
  BY <1>1, TableKept, StreamKept DEF TableInv
<1>8. Nested' /\ CrashNeedsReentry'
  BY <1>1, <1>3, NestingKept, CrashKept
<1>9. QED
  BY <1>1, <1>5, <1>6, <1>7, <1>8, RepliesKept, ClientsKept, AttachedKept DEF TableInv

LEMMA SlotDisconnectsStep == ASSUME RInv, NEW k \in Conns, SlotDisconnects(k) PROVE RInv'
<1> USE DEF RInv
<1>1. /\ Calling /\ DisconnectClient(k) /\ frames' = Replace(Called)
      /\ cutOff' = IF InUse(k) THEN cutOff \cup {k} ELSE cutOff
      /\ UNCHANGED <<slots, fallback, destroyed, up, taken, overrun, orphaned>>
      /\ UNCHANGED replyVars /\ UNCHANGED clientVars
  BY DEF SlotDisconnects
<1>2. TableInv' /\ StreamTypes' /\ clients' = clients \ {k}
  BY <1>1, DisconnectKeepsTable DEF TableInv
<1>3. frames # <<>> /\ up /\ Called \in Frame
  BY <1>1, CalledTop
<1>4. CauseTypes'
  BY <1>1 DEF CauseTypes, DispatchTypes
<1>5. DispatchTypes'
  BY <1>1, <1>3, <1>4, ReplacedFrames, DispatchTypesOf DEF DispatchTypes
<1>6. FramesLive'
  <2>1. ASSUME NEW i \in DOMAIN frames PROVE Live(frames[i], Held', Gone')
    <3>1. Live(frames[i], Held, Gone) /\ Gone' = Gone
      BY <1>1 DEF FramesLive, Gone
    <3>2. frames[i].conn = k => InUse(k)
      BY DEF InUse, FramesOf
    <3>3. frames[i].conn \in Held'
      BY <1>1, <1>2, <3>1, <3>2 DEF Live, Held
    <3>4. QED
      BY <3>1, <3>3 DEF Live
  <2>2. QED
    BY <1>1, <1>3, <2>1, CalledFramesLive DEF FramesLive
<1>7. Nested' /\ CrashNeedsReentry'
  BY <1>1, <1>3, NestingKept, CrashKept
<1>8. QED
  BY <1>1, <1>2, <1>5, <1>6, <1>7, RepliesKept, ClientsKept, AttachedKept DEF TableInv

LEMMA OthersOf ==
    ASSUME DispatchTypes, AttachedOnce, NEW o
    PROVE  /\ Others(o) \in Seq(Objects)
           /\ \A i, j \in DOMAIN Others(o) : Others(o)[i] = Others(o)[j] => i = j
           /\ \A i \in DOMAIN Others(o) : Others(o)[i] \notin destroyed \cup {o}
<1>1. slots \in Seq(Objects) /\ Len(slots) \in Nat /\ DOMAIN slots = 1 .. Len(slots)
  BY LenProperties DEF DispatchTypes
<1>2. CASE ~ \E i \in DOMAIN slots : slots[i] = o
  BY <1>1, <1>2 DEF Others, AttachedOnce
<1>3. CASE \E i \in DOMAIN slots : slots[i] = o
  <2> DEFINE i == CHOOSE j \in DOMAIN slots : slots[j] = o
             a == SubSeq(slots, 1, i - 1)
             b == SubSeq(slots, i + 1, Len(slots))
             at == [j \in Nat |-> IF j < i THEN j ELSE j + 1]
  <2>1. i \in DOMAIN slots /\ slots[i] = o
    BY <1>3
  <2>2. Others(o) = a \o b
    BY <1>3 DEF Others
  <2> HIDE DEF i
  <2>3. i \in Nat /\ 1 <= i /\ i <= Len(slots)
    BY <1>1, <2>1
  <2>4. i - 1 \in 0 .. Len(slots) /\ i + 1 \in Nat \ {0}
    BY <1>1, <2>3
  <2>5. /\ a \in Seq(Objects) /\ Len(a) = i - 1
        /\ \A j \in 1 .. i - 1 : a[j] = slots[j]
    BY <1>1, <2>4, PrefixOf
  <2>6. /\ b \in Seq(Objects)
        /\ i + 1 <= Len(slots) => Len(b) = Len(slots) - (i + 1) + 1
        /\ Len(slots) < i + 1 => Len(b) = 0
        /\ \A j \in 1 .. Len(slots) - (i + 1) + 1 : b[j] = slots[i + 1 + j - 1]
    BY <1>1, <2>4, SuffixOf
  <2> HIDE DEF a, b
  <2>7. Len(b) = Len(slots) - i
    <3>1. \A n, m \in Nat : m <= n => (m + 1 <= n /\ n - (m + 1) + 1 = n - m) \/ (n < m + 1 /\ n - m = 0)
      OBVIOUS
    <3>2. \/ i + 1 <= Len(slots) /\ Len(slots) - (i + 1) + 1 = Len(slots) - i
          \/ Len(slots) < i + 1 /\ Len(slots) - i = 0
      BY <1>1, <2>3, <3>1, Zenon
    <3>3. QED
      BY <2>6, <3>2, Zenon
  <2>8. /\ a \o b \in Seq(Objects) /\ Len(a \o b) = Len(a) + Len(b)
        /\ \A j \in 1 .. Len(a) + Len(b) : (a \o b)[j] = IF j <= Len(a) THEN a[j] ELSE b[j - Len(a)]
    BY <2>5, <2>6, ConcatProperties
  <2>9. DOMAIN (a \o b) = 1 .. Len(slots) - 1
    <3>1. Len(a) + Len(b) = Len(slots) - 1
      BY <1>1, <2>3, <2>5, <2>7
    <3>2. DOMAIN (a \o b) = 1 .. Len(a \o b)
      BY <2>8, LenProperties
    <3>3. QED
      BY <2>8, <3>1, <3>2
  <2>10. ASSUME NEW j \in 1 .. Len(slots) - 1
         PROVE  (a \o b)[j] = slots[at[j]] /\ at[j] \in 1 .. Len(slots) /\ at[j] # i
    <3>1. j \in Nat /\ 1 <= j /\ j <= Len(slots) - 1 /\ j \in 1 .. Len(a) + Len(b)
      BY <1>1, <2>3, <2>5, <2>7
    <3>2. at[j] = IF j < i THEN j ELSE j + 1
      BY <3>1
    <3>3. CASE j < i
      <4>1. j <= Len(a) /\ j \in 1 .. i - 1
        BY <2>3, <2>5, <3>1, <3>3
      <4>2. (a \o b)[j] = slots[j]
        BY <2>5, <2>8, <3>1, <4>1
      <4>3. at[j] = j /\ j \in 1 .. Len(slots) /\ j # i
        BY <1>1, <2>3, <3>1, <3>2, <3>3
      <4>4. QED
        BY <4>2, <4>3
    <3>4. CASE ~ (j < i)
      <4>1. ~ (j <= Len(a)) /\ j - Len(a) = j - i + 1 /\ j - i + 1 \in 1 .. Len(slots) - (i + 1) + 1
        BY <1>1, <2>3, <2>5, <3>1, <3>4
      <4>2. (a \o b)[j] = b[j - i + 1]
        BY <2>8, <3>1, <4>1
      <4>3. b[j - i + 1] = slots[i + 1 + (j - i + 1) - 1] /\ i + 1 + (j - i + 1) - 1 = j + 1
        BY <2>3, <2>6, <3>1, <4>1
      <4>4. at[j] = j + 1 /\ j + 1 \in 1 .. Len(slots) /\ j + 1 # i
        BY <1>1, <2>3, <3>1, <3>2, <3>4
      <4>5. QED
        BY <4>2, <4>3, <4>4
    <3>5. QED
      BY <3>3, <3>4
  <2>11. \A j, k \in 1 .. Len(slots) - 1 : at[j] = at[k] => j = k
    <3>1. \A j \in 1 .. Len(slots) - 1 : j \in Nat /\ at[j] = IF j < i THEN j ELSE j + 1
      BY <1>1
    <3> HIDE DEF at
    <3>2. QED
      BY <2>3, <3>1
  <2> HIDE DEF at
  <2>12. \A j, k \in DOMAIN (a \o b) : (a \o b)[j] = (a \o b)[k] => j = k
    <3>1. ASSUME NEW j \in 1 .. Len(slots) - 1, NEW k \in 1 .. Len(slots) - 1, (a \o b)[j] = (a \o b)[k]
          PROVE  j = k
      <4>1. slots[at[j]] = slots[at[k]] /\ at[j] \in DOMAIN slots /\ at[k] \in DOMAIN slots
        BY <1>1, <2>10, <3>1
      <4>2. at[j] = at[k]
        BY <4>1 DEF AttachedOnce
      <4>3. QED
        BY <2>11, <4>2
    <3>2. QED
      BY <2>9, <3>1
  <2>13. \A j \in DOMAIN (a \o b) : (a \o b)[j] \notin destroyed \cup {o}
    <3>1. ASSUME NEW j \in 1 .. Len(slots) - 1 PROVE (a \o b)[j] \notin destroyed \cup {o}
      <4>1. (a \o b)[j] = slots[at[j]] /\ at[j] \in DOMAIN slots /\ at[j] # i
        BY <1>1, <2>10
      <4>2. slots[at[j]] # o /\ slots[at[j]] \notin destroyed
        BY <2>1, <4>1 DEF AttachedOnce
      <4>3. QED
        BY <4>1, <4>2
    <3>2. QED
      BY <2>9, <3>1
  <2>14. QED
    BY <2>2, <2>8, <2>12, <2>13
<1>4. QED
  BY <1>2, <1>3

LEMMA SlotDetachesStep == ASSUME RInv, NEW o \in Objects, SlotDetaches(o) PROVE RInv'
<1> USE DEF RInv
<1>1. /\ Calling /\ slots' = Others(o) /\ fallback' = IF fallback = o THEN None ELSE fallback
      /\ destroyed' \in {destroyed, destroyed \cup {o}} /\ frames' = Replace(Called)
      /\ orphaned' = orphaned \cup {p \in destroyed' \ destroyed : \E i \in DOMAIN frames' : ToCall(frames'[i], p)}
      /\ UNCHANGED <<up, taken, cutOff, overrun>>
      /\ UNCHANGED tableVars /\ UNCHANGED streamVars /\ UNCHANGED replyVars /\ UNCHANGED clientVars
  BY DEF SlotDetaches, DetachSlots
<1>2. frames # <<>> /\ up /\ Called \in Frame
  BY <1>1, CalledTop
<1>3. frames' \in Seq(Frame) /\ DOMAIN frames' = DOMAIN frames
  BY <1>1, <1>2, ReplacedFrames
<1>4. CauseTypes'
  BY <1>1 DEF CauseTypes, DispatchTypes
<1>5. DispatchTypes'
  BY <1>1, <1>3, <1>4, OthersOf DEF DispatchTypes
<1>6. AttachedOnce'
  <2>1. None \notin Objects
    BY RpcServiceAssumption
  <2>2. destroyed \subseteq Objects
    BY DEF DispatchTypes
  <2>3. fallback' \notin destroyed'
    BY <1>1, <2>1, <2>2 DEF AttachedOnce
  <2>4. \A i \in DOMAIN slots' : slots'[i] \notin destroyed'
    BY <1>1, OthersOf
  <2>5. \A i, j \in DOMAIN slots' : slots'[i] = slots'[j] => i = j
    BY <1>1, OthersOf
  <2>6. QED
    BY <2>3, <2>4, <2>5 DEF AttachedOnce
<1>7. FramesLive'
  <2>1. \A n \in DOMAIN frames' : Live(frames'[n], Held, Gone)
    BY <1>1, <1>2, CalledFramesLive DEF FramesLive
  <2>2. Held' = Held
    BY <1>1 DEF tableVars, Held
  <2>3. ASSUME NEW n \in DOMAIN frames', NEW j \in DOMAIN frames'[n].todo
        PROVE  frames'[n].todo[j] \notin Gone'
    <3> DEFINE p == frames'[n].todo[j]
    <3>1. p \notin destroyed \ orphaned /\ ToCall(frames'[n], p)
      BY <2>1 DEF Live, Gone, ToCall
    <3> HIDE DEF p
    <3>2. p \in destroyed' \ destroyed => p \in orphaned'
      BY <1>1, <3>1
    <3>3. orphaned \subseteq orphaned'
      BY <1>1
    <3>4. QED
      BY <3>1, <3>2, <3>3 DEF Gone, p
  <2>4. QED
    BY <2>1, <2>2, <2>3 DEF FramesLive, Live
<1>8. TableInv' /\ StreamTypes' /\ Nested' /\ CrashNeedsReentry'
  BY <1>1, <1>2, TableKept, StreamKept, NestingKept, CrashKept DEF TableInv
<1>9. QED
  BY <1>1, <1>5, <1>6, <1>7, <1>8, RepliesKept, ClientsKept DEF TableInv

LEMMA AttachSlotStep == ASSUME RInv, NEW o \in Objects, AttachSlot(o) PROVE RInv'
<1> USE DEF RInv
<1>1. /\ o \notin destroyed /\ \A i \in DOMAIN slots : slots[i] # o
      /\ slots' = Append(slots, o)
      /\ UNCHANGED <<fallback, destroyed, frames, up, taken>> /\ UNCHANGED causeVars /\ up
      /\ UNCHANGED tableVars /\ UNCHANGED streamVars /\ UNCHANGED replyVars /\ UNCHANGED clientVars
  BY DEF AttachSlot
<1>2. /\ slots' \in Seq(Objects) /\ Len(slots') = Len(slots) + 1
      /\ \A i \in 1 .. Len(slots) : slots'[i] = slots[i]
      /\ slots'[Len(slots) + 1] = o
  BY <1>1, AppendProperties DEF DispatchTypes
<1>3. /\ Len(slots) \in Nat /\ DOMAIN slots = 1 .. Len(slots) /\ DOMAIN slots' = 1 .. Len(slots) + 1
  BY <1>2, LenProperties DEF DispatchTypes
<1>4. \A i \in DOMAIN slots' : i \in DOMAIN slots \/ i = Len(slots) + 1
  BY <1>3
<1>5. \A i \in DOMAIN slots' : slots'[i] \notin destroyed'
  BY <1>1, <1>2, <1>3, <1>4 DEF AttachedOnce
<1>6. \A i, j \in DOMAIN slots' : slots'[i] = slots'[j] => i = j
  BY <1>1, <1>2, <1>3, <1>4 DEF AttachedOnce
<1>7. AttachedOnce'
  BY <1>1, <1>5, <1>6 DEF AttachedOnce
<1>8. DispatchTypes'
  BY <1>1, <1>2, CausesKept DEF DispatchTypes
<1>9. Nested' /\ FramesLive' /\ CrashNeedsReentry'
  BY <1>1, NestingKept, LiveKept, CrashKept DEF tableVars
<1>10. QED
  BY <1>1, <1>7, <1>8, <1>9, TableKept, StreamKept, RepliesKept, ClientsKept DEF TableInv

LEMMA SetFallbackSlotStep == ASSUME RInv, NEW o \in Objects, SetFallbackSlot(o) PROVE RInv'
<1> USE DEF RInv
<1>1. /\ o \in Fallbacks \ destroyed /\ fallback' = o
      /\ UNCHANGED <<slots, destroyed, frames, up, taken>> /\ UNCHANGED causeVars /\ up
      /\ UNCHANGED tableVars /\ UNCHANGED streamVars /\ UNCHANGED replyVars /\ UNCHANGED clientVars
  BY DEF SetFallbackSlot
<1>2. DispatchTypes' /\ AttachedOnce'
  BY <1>1, CausesKept DEF DispatchTypes, AttachedOnce
<1>3. Nested' /\ FramesLive' /\ CrashNeedsReentry'
  BY <1>1, NestingKept, LiveKept, CrashKept DEF tableVars
<1>4. QED
  BY <1>1, <1>2, <1>3, TableKept, StreamKept, RepliesKept, ClientsKept DEF TableInv

-----------------------------------------------------------------------------
\* Steps at the clients, which leave the server's table alone.
LEMMA ClientStep ==
    ASSUME RInv, StreamTypes', ReplyTypes', ClientTypes', UNCHANGED dispatchVars, UNCHANGED tableVars
    PROVE  RInv'
<1> USE DEF RInv
<1>1. TableInv' /\ clients' = clients
  BY TableKept DEF TableInv, tableVars
<1>2. DispatchTypes' /\ AttachedOnce' /\ Nested' /\ FramesLive' /\ CrashNeedsReentry'
  BY <1>1, DispatchKept
<1>3. QED
  BY <1>1, <1>2 DEF TableInv

LEMMA EmitSignalStep == ASSUME RInv, EmitSignal PROVE RInv'
  BY RepliesSent, StreamKept, ClientsKept, ClientStep DEF RInv, EmitSignal

LEMMA ConnectStep == ASSUME RInv, NEW k \in Conns, Connect(k) PROVE RInv'
<1>1. ClientTypes'
  BY DEF RInv, Connect, ClientTypes
<1>2. UNCHANGED dispatchVars /\ UNCHANGED tableVars /\ UNCHANGED streamVars /\ UNCHANGED replyVars
  BY DEF Connect
<1>3. QED
  BY <1>1, <1>2, StreamKept, RepliesKept, ClientStep DEF RInv

LEMMA ServerDataTypes ==
    ASSUME ClientTypes, NEW c \in Clients, NEW bytes \in Seq(Parts), ServerData(c, bytes)
    PROVE  serverBuffer' \in [Clients -> Seq(Parts)] /\ reading' \subseteq Clients
  BY Lengthened DEF ClientTypes, ServerData

LEMMA SetDeviceStep == ASSUME RInv, NEW c \in Clients, NEW k \in Conns, SetDevice(c, k) PROVE RInv'
<1> USE DEF RInv
<1>1. /\ device' = [device EXCEPT ![c] = k]
      /\ misframed' = IF serverBuffer[c] = <<>> THEN misframed ELSE misframed \cup {k}
      /\ link' = [j \in Conns |-> IF j = device[c] THEN "closed" ELSE link[j]]
      /\ UNCHANGED dispatchVars /\ UNCHANGED tableVars /\ UNCHANGED streamVars /\ UNCHANGED <<sentDown, heard>>
  BY DEF SetDevice
<1>2. PICK received \in Prefixes(toClient[k]) :
          /\ IF received # <<>> THEN ServerData(c, received) ELSE UNCHANGED <<serverBuffer, reading>>
          /\ toClient' = [j \in Conns |-> IF j = k THEN Without(toClient[k], received)
                                          ELSE IF j = device[c] THEN <<>> ELSE toClient[j]]
  BY DEF SetDevice
<1>3. received \in Seq(Parts) /\ Without(toClient[k], received) \in Seq(Parts) /\ <<>> \in Seq(Parts)
  BY PieceTypes, EmptySeq DEF ReplyTypes
<1>4. serverBuffer' \in [Clients -> Seq(Parts)] /\ reading' \subseteq Clients
  BY <1>2, <1>3, ServerDataTypes DEF ClientTypes
<1>5. ClientTypes'
  BY <1>1, <1>4 DEF ClientTypes
<1>6. ReplyTypes'
  BY <1>1, <1>2, <1>3 DEF ReplyTypes
<1>7. QED
  BY <1>1, <1>5, <1>6, StreamKept, ClientStep

LEMMA ClientCallsStep == ASSUME RInv, NEW c \in Clients, ClientCalls(c) PROVE RInv'
<1> USE DEF RInv
<1>1. /\ device[c] # 0 /\ sentUp < MaxUp /\ sentUp' = sentUp + 1
      /\ toServer' = IF HasLeft(device[c]) THEN toServer
                     ELSE [toServer EXCEPT ![device[c]] = @ \o Message(sentUp')]
      /\ UNCHANGED <<unread, overlooked>>
      /\ UNCHANGED dispatchVars /\ UNCHANGED tableVars /\ UNCHANGED replyVars /\ UNCHANGED clientVars
  BY DEF ClientCalls
<1>2. device[c] \in Conns
  BY <1>1 DEF ClientTypes
<1>3. sentUp' \in 0 .. MaxUp /\ sentUp' \in 1 .. MaxUp + MaxDown
  BY <1>1, RpcServiceAssumption DEF StreamTypes
<1>4. toServer[device[c]] \o Message(sentUp') \in Seq(Parts)
  BY <1>2, <1>3, MessageType, Lengthened DEF StreamTypes
<1>5. StreamTypes'
  BY <1>1, <1>3, <1>4 DEF StreamTypes
<1>6. QED
  BY <1>1, <1>5, RepliesKept, ClientsKept, ClientStep

LEMMA ClientReadyReadStep == ASSUME RInv, NEW c \in Clients, ClientReadyRead(c) PROVE RInv'
<1> USE DEF RInv
<1>1. /\ device[c] # 0
      /\ UNCHANGED dispatchVars /\ UNCHANGED tableVars /\ UNCHANGED streamVars
      /\ UNCHANGED <<sentDown, link, device, heard, misframed>>
  BY DEF ClientReadyRead
<1>2. PICK received \in Prefixes(toClient[device[c]]) \ {<<>>} :
          /\ ServerData(c, received)
          /\ toClient' = [toClient EXCEPT ![device[c]] = Without(@, received)]
  BY DEF ClientReadyRead
<1>3. device[c] \in Conns
  BY <1>1 DEF ClientTypes
<1>4. received \in Seq(Parts) /\ Without(toClient[device[c]], received) \in Seq(Parts)
  BY <1>3, PieceTypes DEF ReplyTypes
<1>5. ReplyTypes'
  BY <1>1, <1>2, <1>4 DEF ReplyTypes
<1>6. ClientTypes'
  BY <1>1, <1>2, <1>4, ServerDataTypes DEF ClientTypes
<1>7. QED
  BY <1>1, <1>5, <1>6, StreamKept, ClientStep

\* The end of a connection at the client.
LEMMA DisconnectServerTypes ==
    ASSUME ClientTypes, ReplyTypes, NEW c \in Clients, DisconnectServer(c), UNCHANGED sentDown
    PROVE  /\ link' \in [Conns -> {"new", "open", "closed"}] /\ device' \in [Clients -> Conns \cup {0}]
           /\ ReplyTypes'
  BY EmptySeq DEF ClientTypes, ReplyTypes, DisconnectServer, Close

LEMMA ClientDisconnectsStep == ASSUME RInv, NEW c \in Clients, ClientDisconnects(c) PROVE RInv'
<1>1. /\ DisconnectServer(c)
      /\ UNCHANGED dispatchVars /\ UNCHANGED tableVars /\ UNCHANGED streamVars
      /\ UNCHANGED <<sentDown, serverBuffer, reading, heard, misframed>>
  BY DEF ClientDisconnects
<1>2. ReplyTypes' /\ ClientTypes'
  BY <1>1, DisconnectServerTypes DEF RInv, ClientTypes
<1>3. QED
  BY <1>1, <1>2, StreamKept, ClientStep DEF RInv

LEMMA ClientDispatchesStep == ASSUME RInv, NEW c \in Clients, ClientDispatches(c) PROVE RInv'
<1> USE DEF RInv
<1>1. /\ UNCHANGED dispatchVars /\ UNCHANGED tableVars /\ UNCHANGED streamVars
      /\ UNCHANGED <<sentDown, misframed>>
  BY DEF ClientDispatches
<1>2. CASE ~CanDeserialize(serverBuffer[c])
  <2>1. reading' = reading \ {c} /\ UNCHANGED <<serverBuffer, link, device, toClient, heard>>
    BY <1>2 DEF ClientDispatches
  <2>2. ReplyTypes' /\ ClientTypes'
    BY <1>1, <2>1 DEF ReplyTypes, ClientTypes
  <2>3. QED
    BY <1>1, <2>2, StreamKept, ClientStep
<1>3. CASE CanDeserialize(serverBuffer[c])
  <2>1. /\ serverBuffer' = [serverBuffer EXCEPT ![c] = Rest(@)]
        /\ heard' = IF device[c] \in Conns \ misframed THEN heard + 1 ELSE heard
    BY <1>3 DEF ClientDispatches
  <2>2. PICK kind : /\ reading' = IF kind = "bad" THEN reading \ {c} ELSE reading
                    /\ UNCHANGED <<link, device, toClient>> \/ DisconnectServer(c)
    BY <1>3 DEF ClientDispatches
  <2>3. serverBuffer' \in [Clients -> Seq(Parts)] /\ heard' \in Nat /\ reading' \subseteq Clients
    BY <2>1, <2>2, RestType DEF ClientTypes
  <2>4. /\ link' \in [Conns -> {"new", "open", "closed"}] /\ device' \in [Clients -> Conns \cup {0}]
        /\ ReplyTypes'
    <3>1. CASE UNCHANGED <<link, device, toClient>>
      BY <1>1, <3>1 DEF ReplyTypes, ClientTypes
    <3>2. CASE DisconnectServer(c)
      BY <1>1, <3>2, DisconnectServerTypes
    <3>3. QED
      BY <2>2, <3>1, <3>2
  <2>5. ClientTypes'
    BY <1>1, <2>3, <2>4 DEF ClientTypes
  <2>6. QED
    BY <1>1, <2>4, <2>5, StreamKept, ClientStep
<1>4. QED
  BY <1>2, <1>3

-----------------------------------------------------------------------------
LEMMA InvariantInitially == ASSUME Init PROVE RInv
<1>1. <<>> \in Seq(Parts) /\ <<>> \in Seq(Objects) /\ <<>> \in Seq(Frame) /\ DOMAIN <<>> = {}
  BY EmptySeq, LenProperties
<1>2. MaxUp \in Nat /\ MaxDown \in Nat /\ None \notin {}
  BY RpcServiceAssumption
<1>3. <<>> # <<"connected">>
  OBVIOUS
<1>4. TableTypes /\ TablesAgree /\ Rejections
  BY <1>3 DEF Init, TableTypes, TablesAgree, Rejections, Announcements
<1>5. DispatchTypes /\ AttachedOnce /\ Nested /\ FramesLive /\ CrashNeedsReentry
  BY <1>1 DEF Init, DispatchTypes, CauseTypes, AttachedOnce, Nested, FramesLive, CrashNeedsReentry
<1>6. StreamTypes /\ ReplyTypes /\ ClientTypes
  BY <1>1, <1>2 DEF Init, StreamTypes, ReplyTypes, ClientTypes
<1>7. QED
  BY <1>4, <1>5, <1>6 DEF RInv

LEMMA InvariantKept == ASSUME RInv, UNCHANGED vars PROVE RInv'
<1>1. /\ UNCHANGED dispatchVars /\ UNCHANGED tableVars /\ UNCHANGED streamVars
      /\ UNCHANGED replyVars /\ UNCHANGED clientVars
  BY DEF vars
<1>2. QED
  BY <1>1, StreamKept, RepliesKept, ClientsKept, ClientStep DEF RInv

LEMMA EventLoopStep == ASSUME RInv, EventLoop PROVE RInv'
<1>1. CASE BufferIsGone BY <1>1, BufferIsGoneStep
<1>2. CASE NoneIsWhole BY <1>2, NoneIsWholeStep
<1>3. CASE DispatchMessage BY <1>3, DispatchMessageStep
<1>4. CASE ReceiverIsGone BY <1>4, ReceiverIsGoneStep
<1>5. CASE SlotReturns BY <1>5, SlotReturnsStep
<1>6. CASE SlotWaits BY <1>6, SlotWaitsStep
<1>7. CASE SlotResumes BY <1>7, SlotResumesStep
<1>8. ASSUME NEW k \in Conns, SlotDisconnects(k) PROVE RInv' BY <1>8, SlotDisconnectsStep
<1>9. ASSUME NEW o \in Objects, SlotDetaches(o) PROVE RInv' BY <1>9, SlotDetachesStep
<1>10. ASSUME NEW k \in Conns, Accept(k) PROVE RInv' BY <1>10, AcceptStep
<1>11. ASSUME NEW k \in Conns, Reject(k) PROVE RInv' BY <1>11, RejectStep
<1>12. ASSUME NEW k \in Conns, ReadyRead(k) PROVE RInv' BY <1>12, ReadyReadStep
<1>13. ASSUME NEW k \in Conns, ReceiveInside(k) PROVE RInv' BY <1>13, ReceiveInsideStep
<1>14. QED
  BY <1>1, <1>2, <1>3, <1>4, <1>5, <1>6, <1>7, <1>8, <1>9, <1>10, <1>11, <1>12, <1>13 DEF EventLoop, Loop

LEMMA NextStep == ASSUME RInv, Next PROVE RInv'
<1>1. CASE EventLoop BY <1>1, EventLoopStep
<1>2. ASSUME NEW k \in Conns, ServerNoticesEnd(k) PROVE RInv' BY <1>2, ServerNoticesEndStep
<1>3. ASSUME NEW o \in Objects, AttachSlot(o) PROVE RInv' BY <1>3, AttachSlotStep
<1>4. ASSUME NEW o \in Objects, SetFallbackSlot(o) PROVE RInv' BY <1>4, SetFallbackSlotStep
<1>5. CASE EmitSignal BY <1>5, EmitSignalStep
<1>6. ASSUME NEW k \in Conns, Connect(k) PROVE RInv' BY <1>6, ConnectStep
<1>7. ASSUME NEW k \in Conns, NEW c \in Clients, SetDevice(c, k) PROVE RInv' BY <1>7, SetDeviceStep
<1>8. ASSUME NEW c \in Clients, ClientCalls(c) PROVE RInv' BY <1>8, ClientCallsStep
<1>9. ASSUME NEW c \in Clients, ClientDisconnects(c) PROVE RInv' BY <1>9, ClientDisconnectsStep
<1>10. ASSUME NEW c \in Clients, ClientReadyRead(c) PROVE RInv' BY <1>10, ClientReadyReadStep
<1>11. ASSUME NEW c \in Clients, ClientDispatches(c) PROVE RInv' BY <1>11, ClientDispatchesStep
<1>12. QED
  BY <1>1, <1>2, <1>3, <1>4, <1>5, <1>6, <1>7, <1>8, <1>9, <1>10, <1>11 DEF Next, ClientLoop

LEMMA InvariantAlways == Spec => []RInv
<1>1. RInv /\ [Next]_vars => RInv'
  BY InvariantKept, NextStep
<1>2. QED
  BY <1>1, InvariantInitially, PTL DEF Spec

\* Every variable keeps its type, and every connection is announced at most
\* once and leaves at most once, in this order.
THEOREM TypeCorrect == Spec => []TypeOK
<1>1. RInv => TypeOK
  BY TypesInParts DEF RInv
<1>2. QED
  BY <1>1, InvariantAlways, PTL

\* The manager's table, the bound functions, the buffers and the announcements
\* agree in every state: clientConnected(), clientDisconnected() and
\* disconnectClient() can be called from slots and out of order.
THEOREM TablesStayAgreed == Spec => []TablesAgree
<1>1. RInv => TablesAgree
  BY DEF RInv
<1>2. QED
  BY <1>1, InvariantAlways, PTL

\* The server uses a deleted buffer only in an invocation of clientData() whose
\* connection a slot disconnected while it was being read, or ended while one of
\* its own slots ran an event loop, and a deleted receiver only when an earlier
\* slot deleted it while it was still to be called: while slots do none of this,
\* clientData() and dispatchFromClient() are safe against every peer.
THEOREM CrashesNeedReentry == Spec => []CrashNeedsReentry
<1>1. RInv => CrashNeedsReentry
  BY DEF RInv
<1>2. QED
  BY <1>1, InvariantAlways, PTL

\* However deep the event loops of the slots are nested, every invocation of
\* clientData() under way keeps its buffer, and every receiver that it has still
\* to call exists, but for those that a slot disconnected or deleted, or that
\* ended, under that very invocation.
THEOREM ReferencesStayLive == Spec => []ReferencesAreLive
<1>1. RInv => ReferencesAreLive
  BY ReferencesOfInv
<1>2. QED
  BY <1>1, InvariantAlways, PTL

-----------------------------------------------------------------------------
(* The calls in a stream.                                                  *)

\* A set of numbers that is not empty has a least element, so that a set with 0
\* that contains the next of each of its numbers contains them all.
LEMMA LeastNumber ==
    ASSUME NEW T, T \subseteq Nat, T # {}
    PROVE  \E x \in T : \A y \in T : x <= y
<1>1. PICK x \in T : \A y \in T : ~(<<y, x>> \in OpToRel(<, Nat))
  BY WFMin, NatLessThanWellFounded, Zenon
<1>2. \A y \in T : ~(y < x)
  BY <1>1 DEF OpToRel
<1>3. \A y \in T : x <= y
  <2> SUFFICES ASSUME NEW y \in T PROVE x <= y
    OBVIOUS
  <2>1. x \in Nat /\ y \in Nat
    OBVIOUS
  <2>2. ~(y < x)
    BY <1>2
  <2> QED
    BY <2>1, <2>2
<1> QED
  BY <1>3

LEMMA Induction ==
    ASSUME NEW T, 0 \in T, \A n \in Nat : n \in T => n + 1 \in T
    PROVE  Nat \subseteq T
<1> SUFFICES ASSUME Nat \ T # {} PROVE FALSE
  OBVIOUS
<1>1. PICK x \in Nat \ T : \A y \in Nat \ T : x <= y
  BY LeastNumber
<1>2. x # 0
  BY <1>1
<1>3. x - 1 \in Nat /\ x - 1 + 1 = x /\ ~(x <= x - 1)
  BY <1>1, <1>2
<1>4. x - 1 \in T
  BY <1>1, <1>3
<1> QED
  BY <1>1, <1>3, <1>4

Numbers == 1 .. MaxUp + MaxDown

\* The calls in the first n bytes of s, from those in fewer.
CallsUpTo(f, s, n) ==
    IF n = 0 THEN <<>>
    ELSE IF s[n].part = "length" THEN Append(f[n - 1], s[n].n)
    ELSE f[n - 1]

Counts(f, s) == f = [n \in 0 .. Len(s) |-> CallsUpTo(f, s, n)]

LEMMA CallsExist ==
    ASSUME NEW s \in Seq(Parts)
    PROVE  \E f : Counts(f, s)
<1> DEFINE N == Len(s)
           T == {j \in Nat : j <= N => \E f : f = [n \in 0 .. j |-> CallsUpTo(f, s, n)]}
<1>0. N \in Nat
  BY LenProperties
<1>1. 0 \in T
  <2>1. [n \in 0 .. 0 |-> <<>>] = [n \in 0 .. 0 |-> CallsUpTo([k \in 0 .. 0 |-> <<>>], s, n)]
    BY DEF CallsUpTo
  <2> QED
    BY <2>1
<1>2. ASSUME NEW j \in Nat, j \in T PROVE j + 1 \in T
  <2> SUFFICES ASSUME j + 1 <= N PROVE \E f : f = [n \in 0 .. j + 1 |-> CallsUpTo(f, s, n)]
    OBVIOUS
  <2>1. j <= N
    BY <1>0
  <2>2. PICK f : f = [n \in 0 .. j |-> CallsUpTo(f, s, n)]
    BY <1>2, <2>1
  <2> DEFINE g == [n \in 0 .. j + 1 |-> IF n = j + 1 THEN CallsUpTo(f, s, n) ELSE f[n]]
  <2>3. \A n \in 0 .. j : g[n] = f[n] /\ f[n] = CallsUpTo(f, s, n)
    BY <2>2
  <2>4. \A n \in 0 .. j + 1 : n # 0 => n - 1 \in 0 .. j
    OBVIOUS
  <2>5. \A n \in 0 .. j + 1 : CallsUpTo(g, s, n) = CallsUpTo(f, s, n)
    <3> HIDE DEF g
    <3> QED
      BY <2>3, <2>4 DEF CallsUpTo
  <2>6. \A n \in 0 .. j + 1 : g[n] = CallsUpTo(g, s, n)
    <3> SUFFICES ASSUME NEW n \in 0 .. j + 1 PROVE g[n] = CallsUpTo(f, s, n)
      BY <2>5
    <3>1. CASE n = j + 1
      BY <3>1
    <3>2. CASE n # j + 1
      <4>1. n \in 0 .. j
        BY <3>2
      <4> HIDE DEF g
      <4> QED
        BY <2>3, <4>1
    <3> QED
      BY <3>1, <3>2
  <2>7. g = [n \in 0 .. j + 1 |-> g[n]]
    OBVIOUS
  <2> HIDE DEF g
  <2>8. g = [n \in 0 .. j + 1 |-> CallsUpTo(g, s, n)]
    BY <2>6, <2>7
  <2> QED
    BY <2>8
<1>3. N \in T
  <2> HIDE DEF T
  <2> QED
    BY <1>0, <1>1, <1>2, Induction
<1> QED
  BY <1>0, <1>3 DEF Counts

LEMMA CallsAre ==
    ASSUME NEW s \in Seq(Parts)
    PROVE  \E f : CallsIn(s) = f[Len(s)] /\ \A n \in 0 .. Len(s) : f[n] = CallsUpTo(f, s, n)
<1> DEFINE c == CHOOSE f : f = [n \in 0 .. Len(s) |-> CallsUpTo(f, s, n)]
<1>1. CallsIn(s) = c[Len(s)]
  BY DEF CallsIn, CallsUpTo
<1>2. c = [n \in 0 .. Len(s) |-> CallsUpTo(c, s, n)]
  <2>1. \E f : f = [n \in 0 .. Len(s) |-> CallsUpTo(f, s, n)]
    BY CallsExist DEF Counts
  <2> QED
    BY <2>1, Zenon
<1> HIDE DEF c
<1>3. \A n \in 0 .. Len(s) : c[n] = CallsUpTo(c, s, n)
  BY <1>2
<1> QED
  BY <1>1, <1>3

LEMMA CallsInNone == CallsIn(<<>>) = <<>>
<1>1. <<>> \in Seq(Parts) /\ Len(<<>>) = 0
  BY EmptySeq
<1>2. PICK f : CallsIn(<<>>) = f[Len(<<>>)] /\ \A n \in 0 .. Len(<<>>) : f[n] = CallsUpTo(f, <<>>, n)
  BY <1>1, CallsAre
<1>3. f[0] = CallsUpTo(f, <<>>, 0)
  BY <1>1, <1>2
<1> QED
  BY <1>1, <1>2, <1>3 DEF CallsUpTo

LEMMA CallsOfAppend ==
    ASSUME NEW s \in Seq(Parts), NEW p \in Parts
    PROVE  CallsIn(Append(s, p)) = IF p.part = "length" THEN Append(CallsIn(s), p.n) ELSE CallsIn(s)
<1> DEFINE t == Append(s, p)
           N == Len(s)
<1>1. N \in Nat /\ t \in Seq(Parts) /\ Len(t) = N + 1 /\ t[N + 1] = p /\ \A i \in 1 .. N : t[i] = s[i]
  BY LenProperties, AppendProperties
<1> HIDE DEF t, N
<1>2. PICK f : CallsIn(s) = f[N] /\ \A n \in 0 .. N : f[n] = CallsUpTo(f, s, n)
  BY CallsAre DEF N
<1>3. PICK g : CallsIn(t) = g[N + 1] /\ \A n \in 0 .. N + 1 : g[n] = CallsUpTo(g, t, n)
  BY <1>1, CallsAre
<1> DEFINE T == {n \in Nat : n <= N => g[n] = f[n]}
<1>4. 0 \in T
  <2>1. f[0] = CallsUpTo(f, s, 0) /\ g[0] = CallsUpTo(g, t, 0)
    BY <1>1, <1>2, <1>3
  <2> QED
    BY <2>1 DEF CallsUpTo
<1>5. ASSUME NEW n \in Nat, n \in T PROVE n + 1 \in T
  <2> SUFFICES ASSUME n + 1 <= N PROVE g[n + 1] = f[n + 1]
    OBVIOUS
  <2>1. n <= N /\ n + 1 \in 0 .. N /\ n + 1 \in 0 .. N + 1 /\ n + 1 \in 1 .. N /\ n + 1 - 1 = n /\ n + 1 # 0
    BY <1>1
  <2>2. g[n] = f[n]
    BY <1>5, <2>1
  <2>3. f[n + 1] = CallsUpTo(f, s, n + 1) /\ g[n + 1] = CallsUpTo(g, t, n + 1) /\ t[n + 1] = s[n + 1]
    BY <1>1, <1>2, <1>3, <2>1
  <2> QED
    BY <2>1, <2>2, <2>3 DEF CallsUpTo
<1>6. g[N] = f[N]
  <2> HIDE DEF T
  <2>1. N \in T
    BY <1>1, <1>4, <1>5, Induction
  <2> QED
    BY <1>1, <2>1 DEF T
<1>7. g[N + 1] = CallsUpTo(g, t, N + 1) /\ N + 1 - 1 = N /\ N + 1 # 0
  BY <1>1, <1>3
<1>8. CallsIn(t) = IF p.part = "length" THEN Append(CallsIn(s), p.n) ELSE CallsIn(s)
  BY <1>1, <1>2, <1>3, <1>6, <1>7 DEF CallsUpTo
<1> QED
  BY <1>8 DEF t

LEMMA CallsType == ASSUME NEW s \in Seq(Parts) PROVE CallsIn(s) \in Seq(Numbers)
<1> DEFINE T == {n \in Nat : \A t \in Seq(Parts) : Len(t) = n => CallsIn(t) \in Seq(Numbers)}
<1>1. 0 \in T
  <2> SUFFICES ASSUME NEW t \in Seq(Parts), Len(t) = 0 PROVE CallsIn(t) \in Seq(Numbers)
    OBVIOUS
  <2>1. t = <<>>
    BY EmptySeq
  <2> QED
    BY <2>1, CallsInNone, EmptySeq
<1>2. ASSUME NEW n \in Nat, n \in T PROVE n + 1 \in T
  <2> SUFFICES ASSUME NEW t \in Seq(Parts), Len(t) = n + 1 PROVE CallsIn(t) \in Seq(Numbers)
    OBVIOUS
  <2>1. t # <<>>
    BY EmptySeq
  <2>2. PICK u \in Seq(Parts), p \in Parts : t = Append(u, p)
    BY <2>1, SequenceEmptyOrAppend
  <2>3. Len(u) = n
    BY <2>2, AppendProperties, LenProperties
  <2>4. CallsIn(u) \in Seq(Numbers) /\ p.n \in Numbers
    BY <1>2, <2>3 DEF Parts, Numbers
  <2>5. Append(CallsIn(u), p.n) \in Seq(Numbers)
    BY <2>4, AppendProperties
  <2> QED
    BY <2>2, <2>4, <2>5, CallsOfAppend
<1>3. Len(s) \in T
  <2> HIDE DEF T
  <2> QED
    BY <1>1, <1>2, Induction, LenProperties
<1> QED
  BY <1>3

LEMMA AppendedToConcat ==
    ASSUME NEW S, NEW s \in Seq(S), NEW t \in Seq(S), NEW e \in S
    PROVE  s \o Append(t, e) = Append(s \o t, e)
<1>1. <<e>> \in Seq(S) /\ s \o t \in Seq(S)
  BY ConcatProperties
<1>2. Append(t, e) = t \o <<e>> /\ Append(s \o t, e) = (s \o t) \o <<e>>
  BY <1>1, AppendIsConcat
<1> QED
  BY <1>1, <1>2, ConcatAssociative

LEMMA CallsOfConcat ==
    ASSUME NEW s \in Seq(Parts), NEW t \in Seq(Parts)
    PROVE  CallsIn(s \o t) = CallsIn(s) \o CallsIn(t)
<1> DEFINE T == {n \in Nat : \A u \in Seq(Parts) : Len(u) = n => CallsIn(s \o u) = CallsIn(s) \o CallsIn(u)}
<1>1. 0 \in T
  <2> SUFFICES ASSUME NEW u \in Seq(Parts), Len(u) = 0 PROVE CallsIn(s \o u) = CallsIn(s) \o CallsIn(u)
    OBVIOUS
  <2>1. u = <<>>
    BY EmptySeq
  <2>2. s \o <<>> = s /\ CallsIn(s) \o <<>> = CallsIn(s)
    BY ConcatEmptySeq, CallsType
  <2> QED
    BY <2>1, <2>2, CallsInNone
<1>2. ASSUME NEW n \in Nat, n \in T PROVE n + 1 \in T
  <2> SUFFICES ASSUME NEW u \in Seq(Parts), Len(u) = n + 1 PROVE CallsIn(s \o u) = CallsIn(s) \o CallsIn(u)
    OBVIOUS
  <2>1. u # <<>>
    BY EmptySeq
  <2>2. PICK v \in Seq(Parts), p \in Parts : u = Append(v, p)
    BY <2>1, SequenceEmptyOrAppend
  <2>3. Len(v) = n
    BY <2>2, AppendProperties, LenProperties
  <2>4. CallsIn(s \o v) = CallsIn(s) \o CallsIn(v)
    BY <1>2, <2>3
  <2>5. s \o Append(v, p) = Append(s \o v, p) /\ s \o v \in Seq(Parts)
    BY AppendedToConcat, ConcatProperties
  <2>6. CallsIn(s) \in Seq(Numbers) /\ CallsIn(v) \in Seq(Numbers) /\ p.n \in Numbers
    BY CallsType DEF Parts, Numbers
  <2>7. CallsIn(s) \o Append(CallsIn(v), p.n) = Append(CallsIn(s) \o CallsIn(v), p.n)
    BY <2>6, AppendedToConcat
  <2>8. CallsIn(u) = IF p.part = "length" THEN Append(CallsIn(v), p.n) ELSE CallsIn(v)
    BY <2>2, CallsOfAppend
  <2>9. CallsIn(s \o u) = IF p.part = "length" THEN Append(CallsIn(s \o v), p.n) ELSE CallsIn(s \o v)
    BY <2>2, <2>5, CallsOfAppend
  <2> QED
    BY <2>4, <2>7, <2>8, <2>9
<1>3. Len(t) \in T
  <2> HIDE DEF T
  <2> QED
    BY <1>1, <1>2, Induction, LenProperties
<1> QED
  BY <1>3

LEMMA CallsOfMessage ==
    ASSUME NEW s \in Seq(Parts), NEW n \in Numbers
    PROVE  s \o Message(n) \in Seq(Parts) /\ CallsIn(s \o Message(n)) = Append(CallsIn(s), n)
<1> DEFINE p == [n |-> n, part |-> "length"]
           q == [n |-> n, part |-> "body"]
<1>1. p \in Parts /\ q \in Parts /\ p.part = "length" /\ p.n = n /\ q.part # "length"
  BY DEF Parts, Numbers
<1>2. Message(n) = <<p, q>>
  BY DEF Message
<1> HIDE DEF p, q
<1>3. <<p, q>> = Append(<<p>>, q) /\ <<p>> \in Seq(Parts) /\ <<p, q>> \in Seq(Parts)
  BY <1>1, PairOfAppend
<1>4. s \o <<p, q>> = Append(s \o <<p>>, q) /\ s \o <<p>> = Append(s, p) /\ s \o <<p, q>> \in Seq(Parts)
  BY <1>1, <1>3, AppendedToConcat, AppendIsConcat, ConcatProperties
<1>5. Append(s, p) \in Seq(Parts)
  BY <1>1, AppendProperties
<1>6. CallsIn(Append(s, p)) = Append(CallsIn(s), n)
  BY <1>1, CallsOfAppend
<1>7. CallsIn(Append(Append(s, p), q)) = CallsIn(Append(s, p))
  BY <1>1, <1>5, CallsOfAppend
<1>8. s \o Message(n) = Append(Append(s, p), q)
  BY <1>2, <1>4
<1> QED
  BY <1>2, <1>4, <1>6, <1>7, <1>8

\* A stream of whole messages.
Framed(s) ==
    s # <<>> =>
       /\ s[1].part = "length" /\ s[Len(s)].part = "body"
       /\ \A i \in 1 .. Len(s) - 1 : s[i].part # s[i + 1].part

LEMMA FramedByMessage ==
    ASSUME NEW s \in Seq(Parts), Framed(s), NEW n \in Numbers
    PROVE  Framed(s \o Message(n))
<1> DEFINE m == Message(n)
           t == s \o m
           N == Len(s)
<1>1. m \in Seq(Parts) /\ Len(m) = 2 /\ m[1].part = "length" /\ m[2].part = "body"
  BY MessageType DEF Message, Numbers
<1> HIDE DEF m
<1>2. /\ N \in Nat /\ Len(t) = N + 2
      /\ \A i \in 1 .. N : t[i] = s[i]
      /\ t[N + 1] = m[1] /\ t[N + 2] = m[2]
  <2>1. /\ N \in Nat /\ Len(t) = N + 2
        /\ \A i \in 1 .. N + 2 : t[i] = IF i <= N THEN s[i] ELSE m[i - N]
    <3>1. /\ Len(s) \in Nat /\ Len(s \o m) = Len(s) + Len(m)
          /\ \A i \in 1 .. Len(s) + Len(m) : (s \o m)[i] = IF i <= Len(s) THEN s[i] ELSE m[i - Len(s)]
      BY <1>1, ConcatProperties, LenProperties
    <3> QED
      BY <1>1, <3>1
  <2> HIDE DEF t, N
  <2>2. N + 1 - N = 1 /\ N + 2 - N = 2
    BY <2>1
  <2> QED
    BY <2>1, <2>2
<1>3. s = <<>> <=> N = 0
  BY EmptySeq
<1> HIDE DEF t, N
<1>4. t[1].part = "length"
  <2>1. CASE N = 0
    BY <1>1, <1>2, <2>1
  <2>2. CASE N # 0
    BY <1>2, <1>3, <2>2 DEF Framed
  <2> QED
    BY <2>1, <2>2
<1>5. t[Len(t)].part = "body"
  BY <1>1, <1>2
<1>6. \A i \in 1 .. Len(t) - 1 : t[i].part # t[i + 1].part
  <2> SUFFICES ASSUME NEW i \in 1 .. N + 1 PROVE t[i].part # t[i + 1].part
    BY <1>2
  <2>1. CASE i < N
    <3>1. i \in 1 .. N - 1 /\ i \in 1 .. N /\ i + 1 \in 1 .. N /\ N # 0
      BY <1>2, <2>1
    <3> QED
      BY <1>2, <1>3, <3>1 DEF Framed, N
  <2>2. CASE i = N
    <3>1. N # 0 /\ N \in 1 .. N
      BY <1>2, <2>2
    <3>2. s[N].part = "body"
      BY <1>3, <3>1 DEF Framed, N
    <3> QED
      BY <1>1, <1>2, <2>2, <3>1, <3>2
  <2>3. CASE i = N + 1
    BY <1>1, <1>2, <2>3
  <2> QED
    BY <1>2, <2>1, <2>2, <2>3
<1>7. Framed(t)
  BY <1>4, <1>5, <1>6 DEF Framed
<1> QED
  BY <1>7 DEF t, m

\* Taking the first message.
LEMMA FirstMessage ==
    ASSUME NEW w \in Seq(Parts), Framed(w), Len(w) >= 2
    PROVE  /\ w[1].part = "length" /\ Rest(w) \in Seq(Parts) /\ Framed(Rest(w))
           /\ CallsIn(w) # <<>> /\ CallsIn(Rest(w)) = Tail(CallsIn(w))
<1> DEFINE N == Len(w)
           r == Rest(w)
           c == CallsIn(r)
<1>1. N \in Nat /\ N >= 2 /\ w # <<>>
  BY LenProperties, EmptySeq
<1>2. w[1].part = "length" /\ w[N].part = "body" /\ \A i \in 1 .. N - 1 : w[i].part # w[i + 1].part
  BY <1>1 DEF Framed
<1>3. \A i \in 1 .. N : w[i] \in Parts /\ w[i].part \in {"length", "body"} /\ w[i].n \in Numbers
  <2> SUFFICES ASSUME NEW i \in 1 .. N PROVE w[i] \in Parts
    BY DEF Parts, Numbers
  <2> QED
    BY ElementOfSeq
<1>4. w[2].part = "body"
  <2>1. 1 \in 1 .. N - 1 /\ 2 \in 1 .. N
    BY <1>1
  <2> QED
    BY <1>2, <1>3, <2>1
<1>5. /\ r \in Seq(Parts)
      /\ 3 <= N => Len(r) = N - 2
      /\ N < 3 => Len(r) = 0
      /\ \A i \in 1 .. N - 2 : r[i] = w[i + 2]
  <2>1. \A i \in 1 .. N - 2 : 3 + i - 1 = i + 2
    BY <1>1
  <2>2. 3 \in Nat \ {0} /\ N - 3 + 1 = N - 2
    BY <1>1
  <2>3. /\ SubSeq(w, 3, N) \in Seq(Parts)
        /\ 3 <= N => Len(SubSeq(w, 3, N)) = N - 3 + 1
        /\ N < 3 => Len(SubSeq(w, 3, N)) = 0
        /\ \A i \in 1 .. N - 3 + 1 : SubSeq(w, 3, N)[i] = w[3 + i - 1]
    BY <2>2, SuffixOf
  <2> QED
    BY <2>1, <2>2, <2>3 DEF Rest
<1>6. Framed(r)
  <2> SUFFICES ASSUME r # <<>>
               PROVE  /\ r[1].part = "length" /\ r[Len(r)].part = "body"
                      /\ \A i \in 1 .. Len(r) - 1 : r[i].part # r[i + 1].part
    BY DEF Framed
  <2>1. Len(r) # 0
    BY <1>5, EmptySeq
  <2> HIDE DEF r, N
  <2>2. N >= 3 /\ Len(r) = N - 2
    BY <1>1, <1>5, <2>1
  <2>3. r[1].part = "length"
    <3>1. r[1] = w[3] /\ w[2].part # w[3].part /\ w[3].part \in {"length", "body"}
      BY <1>1, <1>2, <1>3, <1>5, <2>2
    <3> QED
      BY <1>4, <3>1
  <2>4. r[Len(r)].part = "body"
    <3>1. N - 2 \in 1 .. N - 2 /\ N - 2 + 2 = N
      BY <1>1, <2>2
    <3> QED
      BY <1>2, <1>5, <2>2, <3>1
  <2>5. \A i \in 1 .. Len(r) - 1 : r[i].part # r[i + 1].part
    <3> SUFFICES ASSUME NEW i \in 1 .. N - 3 PROVE r[i].part # r[i + 1].part
      BY <1>1, <2>2
    <3>1. i \in 1 .. N - 2 /\ i + 1 \in 1 .. N - 2 /\ i + 2 \in 1 .. N - 1 /\ i + 1 + 2 = i + 2 + 1
      BY <1>1, <2>2
    <3> QED
      BY <1>2, <1>5, <3>1
  <2> QED
    BY <2>3, <2>4, <2>5
<1>7. w = Append(Append(<<>>, w[1]), w[2]) \o r
  <2>1. 1 \in 1 .. N /\ 2 \in 1 .. N /\ 1 \in 1 .. N + 1 /\ 2 \in 0 .. N /\ N \in 2 .. N
    BY <1>1
  <2>2. SubSeq(w, 1, 2) \o SubSeq(w, 3, N) = SubSeq(w, 1, N)
    <3>1. 2 + 1 = 3 /\ 1 - 1 = 0
      OBVIOUS
    <3> QED
      BY <2>1, <3>1, ConcatAdjacentSubSeq
  <2>3. SubSeq(w, 1, N) = w
    BY SubSeqFull
  <2>4. SubSeq(w, 1, 2) = Append(Append(<<>>, w[1]), w[2])
    <3> DEFINE s == SubSeq(w, 1, 2)
               t == Append(<<>>, w[1])
               u == Append(t, w[2])
    <3>1. /\ s \in Seq(Parts) /\ Len(s) = 2
          /\ \A i \in 1 .. 2 : s[i] = w[i]
      BY <2>1, PrefixOf
    <3>2. t \in Seq(Parts) /\ Len(t) = 1 /\ t[1] = w[1]
      <4>1. <<>> \in Seq(Parts) /\ Len(<<>>) = 0 /\ 0 + 1 = 1
        BY EmptySeq
      <4>2. w[1] \in Parts
        BY <1>3, <2>1
      <4> QED
        BY <4>1, <4>2, AppendProperties
    <3> HIDE DEF s, t
    <3>3. u \in Seq(Parts) /\ Len(u) = 2 /\ u[1] = w[1] /\ u[2] = w[2]
      <4>1. w[2] \in Parts /\ 1 + 1 = 2 /\ 1 \in 1 .. 1
        BY <1>3, <2>1
      <4>2. /\ Append(t, w[2]) \in Seq(Parts) /\ Len(Append(t, w[2])) = Len(t) + 1
            /\ \A i \in 1 .. Len(t) : Append(t, w[2])[i] = t[i]
            /\ Append(t, w[2])[Len(t) + 1] = w[2]
        <5> DEFINE e == w[2]
        <5>1. e \in Parts /\ t \in Seq(Parts)
          BY <3>2, <4>1
        <5> HIDE DEF e
        <5>2. /\ Append(t, e) \in Seq(Parts) /\ Len(Append(t, e)) = Len(t) + 1
              /\ \A i \in 1 .. Len(t) : Append(t, e)[i] = t[i]
              /\ Append(t, e)[Len(t) + 1] = e
          BY <5>1, AppendProperties
        <5> QED
          BY <5>2 DEF e
      <4> QED
        BY <3>2, <4>1, <4>2
    <3> HIDE DEF u
    <3>4. \A i \in 1 .. 2 : s[i] = u[i]
      <4>1. \A i \in 1 .. 2 : i = 1 \/ i = 2
        OBVIOUS
      <4> QED
        BY <3>1, <3>3, <4>1
    <3>5. s = u
      BY <3>1, <3>3, <3>4, SeqEqual
    <3> QED
      BY <3>5 DEF s, t, u
  <2> QED
    BY <2>2, <2>3, <2>4 DEF Rest
<1>8. CallsIn(w) = Append(<<>>, w[1].n) \o c /\ c \in Seq(Numbers) /\ w[1].n \in Numbers
  <2> DEFINE t == Append(<<>>, w[1])
             u == Append(t, w[2])
  <2>1. w[1] \in Parts /\ w[2] \in Parts /\ w[1].n \in Numbers
    BY <1>1, <1>3
  <2>2. <<>> \in Seq(Parts)
    BY EmptySeq
  <2>3. CallsIn(t) = Append(CallsIn(<<>>), w[1].n) /\ t \in Seq(Parts)
    BY <1>2, <2>1, <2>2, CallsOfAppend, AppendProperties
  <2>4. CallsIn(u) = CallsIn(t) /\ u \in Seq(Parts)
    BY <1>4, <2>1, <2>3, CallsOfAppend, AppendProperties
  <2>5. CallsIn(w) = CallsIn(u) \o c
    <3> HIDE DEF u, r
    <3>1. w = u \o r
      BY <1>7 DEF u
    <3> QED
      BY <1>5, <2>4, <3>1, CallsOfConcat
  <2> QED
    BY <1>5, <2>1, <2>3, <2>4, <2>5, CallsInNone, CallsType
<1> HIDE DEF c, r
<1>9. CallsIn(w) # <<>> /\ Tail(CallsIn(w)) = c
  <2> DEFINE a == w[1].n
             t == Append(<<>>, a)
             u == t \o c
             M == Len(c)
  <2>1. t \in Seq(Numbers) /\ Len(t) = 1
    <3>1. <<>> \in Seq(Numbers) /\ Len(<<>>) = 0 /\ 0 + 1 = 1
      BY EmptySeq
    <3> QED
      BY <1>8, <3>1, AppendProperties
  <2> HIDE DEF t
  <2>2. /\ u \in Seq(Numbers) /\ Len(u) = 1 + M /\ M \in Nat
        /\ \A i \in 1 .. 1 + M : u[i] = IF i <= 1 THEN t[i] ELSE c[i - 1]
    <3>1. /\ Len(c) \in Nat /\ t \o c \in Seq(Numbers) /\ Len(t \o c) = Len(t) + Len(c)
          /\ \A i \in 1 .. Len(t) + Len(c) : (t \o c)[i] = IF i <= Len(t) THEN t[i] ELSE c[i - Len(t)]
      BY <1>8, <2>1, ConcatProperties, LenProperties
    <3> QED
      BY <2>1, <3>1
  <2> HIDE DEF u, M
  <2>3. u # <<>>
    BY <2>2, EmptySeq
  <2>4. /\ Tail(u) \in Seq(Numbers) /\ Len(Tail(u)) = M
        /\ \A i \in 1 .. M : Tail(u)[i] = u[i + 1]
    BY <2>2, <2>3, HeadTailProperties
  <2>5. \A i \in 1 .. M : u[i + 1] = c[i]
    <3> SUFFICES ASSUME NEW i \in 1 .. M PROVE u[i + 1] = c[i]
      OBVIOUS
    <3>1. i + 1 \in 1 .. 1 + M /\ ~(i + 1 <= 1) /\ i + 1 - 1 = i
      BY <2>2
    <3> QED
      BY <2>2, <3>1
  <2>6. Tail(u) = c
    <3>1. \A i \in 1 .. Len(Tail(u)) : Tail(u)[i] = c[i]
      BY <2>4, <2>5
    <3>2. Len(Tail(u)) = Len(c)
      BY <2>4 DEF M
    <3> QED
      BY <1>8, <2>4, <3>1, <3>2, SeqEqual
  <2> QED
    BY <1>8, <2>3, <2>6 DEF u, t
<1> QED
  BY <1>2, <1>5, <1>6, <1>9 DEF c, r

LEMMA RestOfConcat ==
    ASSUME NEW s \in Seq(Parts), NEW t \in Seq(Parts), CanDeserialize(s)
    PROVE  /\ Rest(s) \o t = Rest(s \o t)
           /\ s \o t \in Seq(Parts) /\ Len(s \o t) >= 2 /\ (s \o t)[1] = s[1]
<1> DEFINE N == Len(s)
           M == Len(t)
           w == s \o t
<1>1. N \in Nat /\ M \in Nat /\ N >= 2
  BY LenProperties DEF CanDeserialize
<1>2. /\ w \in Seq(Parts) /\ Len(w) = N + M
      /\ \A i \in 1 .. N + M : w[i] = IF i <= N THEN s[i] ELSE t[i - N]
  BY ConcatProperties
<1> HIDE DEF w
<1>3. w[1] = s[1]
  BY <1>1, <1>2
<1>4. SubSeq(w, 3, N) \o SubSeq(w, N + 1, N + M) = SubSeq(w, 3, N + M)
  <2>1. 3 \in 1 .. Len(w) + 1 /\ N \in 3 - 1 .. Len(w) /\ N + M \in N .. Len(w)
    BY <1>1, <1>2
  <2> QED
    BY <1>2, <2>1, ConcatAdjacentSubSeq
<1>5. SubSeq(w, 3, N) = Rest(s)
  <2>1. CASE N < 3
    <3>1. N \in Int /\ 3 \in Int
      BY <1>1
    <3> QED
      BY <2>1, <3>1, SubSeqEmpty DEF Rest
  <2>2. CASE N >= 3
    <3>1. 3 \in 1 .. Len(s) /\ N \in 1 .. Len(s)
      BY <1>1, <2>2
    <3> QED
      BY <3>1, SubSeqOfConcat1 DEF Rest, w
  <2> QED
    BY <1>1, <2>1, <2>2
<1>6. SubSeq(w, N + 1, N + M) = t
  <2>1. CASE M = 0
    <3>1. N + M < N + 1 /\ N + 1 \in Int /\ N + M \in Int
      BY <1>1, <2>1
    <3>2. t = <<>>
      BY <2>1, EmptySeq
    <3> QED
      BY <3>1, <3>2, SubSeqEmpty
  <2>2. CASE M > 0
    <3>1. N + 1 \in Len(s) + 1 .. Len(s) + Len(t) /\ N + M \in Len(s) + 1 .. Len(s) + Len(t)
      BY <1>1, <2>2
    <3>2. N + 1 - Len(s) = 1 /\ N + M - Len(s) = Len(t)
      BY <1>1
    <3> DEFINE a == N + 1
               b == N + M
    <3> HIDE DEF a, b
    <3>3. SubSeq(w, a, b) = SubSeq(t, a - Len(s), b - Len(s))
      <4>1. a \in Len(s) + 1 .. Len(s) + Len(t) /\ b \in Len(s) + 1 .. Len(s) + Len(t)
        BY <3>1 DEF a, b
      <4> QED
        BY <4>1, SubSeqOfConcat2 DEF w
    <3> QED
      BY <3>2, <3>3, SubSeqFull DEF a, b
  <2> QED
    BY <1>1, <2>1, <2>2
<1>7. Len(w) >= 2
  BY <1>1, <1>2
<1> QED
  BY <1>2, <1>3, <1>4, <1>5, <1>6, <1>7 DEF Rest, w

\* A stream in two pieces.
LEMMA Divided ==
    ASSUME NEW s \in Seq(Parts), NEW received \in Prefixes(s)
    PROVE  received \o Without(s, received) = s
<1>1. PICK n \in 0 .. Len(s) : received = SubSeq(s, 1, n)
  BY DEF Prefixes
<1>2. Len(s) \in Nat /\ Len(received) = n
  BY <1>1, PrefixOf, LenProperties
<1>3. 1 \in 1 .. Len(s) + 1 /\ n \in 1 - 1 .. Len(s) /\ Len(s) \in n .. Len(s)
  BY <1>2
<1>4. SubSeq(s, 1, n) \o SubSeq(s, n + 1, Len(s)) = SubSeq(s, 1, Len(s))
  BY <1>3, ConcatAdjacentSubSeq
<1> QED
  BY <1>1, <1>2, <1>4, SubSeqFull DEF Without

-----------------------------------------------------------------------------
(* What the refinement needs besides RInv.                                 *)

Announced(k) == signals[k] # <<>> /\ k \notin rejected

\* The stream to the server consists of whole messages; only the devices of
\* clients hold anything, and only announced connections are read.
UpInv ==
    /\ \A k \in Conns : Framed(UpStream(k))
    /\ \A k \in Conns \ clients : unread[k] = <<>>
    /\ \A k \in clients : link[k] # "new"
    /\ \A i \in DOMAIN frames : Announced(frames[i].conn)

\* No connection was given to two clients.
OneEach == \A c, d \in Clients : device[c] # 0 /\ device[c] = device[d] => c = d

\* The stream to a client that began with an empty serverBuffer consists of
\* whole messages.
DownInv ==
    /\ OneEach
    /\ \A k \in Conns \ misframed : Framed(DownStream(k))

LEMMA Streams ==
    ASSUME RInv, NEW k \in Conns
    PROVE  /\ InBuffer(k) \in Seq(Parts) /\ unread[k] \in Seq(Parts) /\ toServer[k] \in Seq(Parts)
           /\ UpStream(k) \in Seq(Parts)
           /\ InServerBuffer(k) \in Seq(Parts) /\ toClient[k] \in Seq(Parts) /\ DownStream(k) \in Seq(Parts)
<1>1. InBuffer(k) \in Seq(Parts)
  BY EmptySeq DEF InBuffer, RInv, TableTypes, TablesAgree
<1>2. unread[k] \in Seq(Parts) /\ toServer[k] \in Seq(Parts) /\ toClient[k] \in Seq(Parts)
  BY DEF RInv, StreamTypes, ReplyTypes
<1>3. InServerBuffer(k) \in Seq(Parts)
  BY EmptySeq DEF InServerBuffer, RInv, ClientTypes
<1>4. UpStream(k) \in Seq(Parts)
  BY <1>1, <1>2, ConcatProperties DEF UpStream
<1>5. DownStream(k) \in Seq(Parts)
  BY <1>2, <1>3, ConcatProperties DEF DownStream
<1> QED
  BY <1>1, <1>2, <1>3, <1>4, <1>5

LEMMA Regrouped ==
    ASSUME NEW s \in Seq(Parts), NEW t \in Seq(Parts), NEW u \in Seq(Parts)
    PROVE  (s \o t) \o u = s \o (t \o u)
  BY ConcatAssociative

LEMMA Joined ==
    ASSUME NEW s \in Seq(Parts), NEW t \in Seq(Parts)
    PROVE  s \o t \in Seq(Parts)
  BY ConcatProperties

LEMMA UpStreamIs ==
    ASSUME RInv, NEW k \in Conns
    PROVE  /\ UpStream(k) = InBuffer(k) \o (unread[k] \o toServer[k])
           /\ unread[k] \o toServer[k] \in Seq(Parts)
<1>1. InBuffer(k) \in Seq(Parts) /\ unread[k] \in Seq(Parts) /\ toServer[k] \in Seq(Parts)
  BY Streams
<1>2. (InBuffer(k) \o unread[k]) \o toServer[k] = InBuffer(k) \o (unread[k] \o toServer[k])
  BY <1>1, Regrouped
<1>3. unread[k] \o toServer[k] \in Seq(Parts)
  BY <1>1, Joined
<1> QED
  BY <1>2, <1>3 DEF UpStream

UpQuiet == UNCHANGED <<Stages, CallsUp, taken>>
DownQuiet == UNCHANGED <<Deaf, CallsDown, heard>>

LEMMA QuietStep == ASSUME UpQuiet, DownQuiet PROVE Channels!Next
  BY DEF UpQuiet, DownQuiet, Channels!Next, Channels!Quiet, Channels!vars

LEMMA MembersAre == ASSUME RInv PROVE Channels!Members = clients
<1>1. \A k \in Conns : Stages[k] = "member" <=> k \in clients
  <2> SUFFICES ASSUME NEW k \in Conns PROVE Stages[k] = "member" <=> k \in clients
    OBVIOUS
  <2>1. k \in clients => signals[k] = <<"connected">>
    BY DEF RInv, TablesAgree
  <2>2. <<"connected">> # <<>>
    OBVIOUS
  <2>3. k \in clients => signals[k] # <<>>
    BY <2>1, <2>2
  <2> QED
    BY <2>3 DEF Stages
<1>2. clients \subseteq Conns
  BY DEF RInv, TableTypes
<1> QED
  BY <1>1, <1>2 DEF Channels!Members

-----------------------------------------------------------------------------
(* Steps that leave one direction alone.                                   *)

\* All that is behind the calls on their way to the client.
downVars == <<toClient, link, device, serverBuffer, misframed>>

LEMMA DownKept ==
    ASSUME DownInv, UNCHANGED downVars
    PROVE  DownInv' /\ UNCHANGED <<Deaf, CallsDown>>
<1>1. \A k \in Conns : DownStream(k)' = DownStream(k)
  BY DEF DownStream, InServerBuffer, downVars
<1>2. CallsDown' = CallsDown
  BY <1>1 DEF CallsDown, downVars
<1>3. Deaf' = Deaf
  BY DEF Deaf, downVars
<1>4. \A k \in Conns : Framed(DownStream(k)') <=> Framed(DownStream(k))
  BY <1>1
<1>5. DownInv'
  BY <1>4 DEF DownInv, OneEach, downVars, Framed
<1> QED
  BY <1>2, <1>3, <1>5

\* All that is behind the calls on their way to the server.
upVars == <<clients, buffers, signals, rejected, unread, toServer>>

LEMMA UpKept ==
    ASSUME UpInv, UNCHANGED upVars,
           \A k \in clients : link[k] # "new" => link'[k] # "new",
           \A i \in DOMAIN frames' : Announced(frames'[i].conn)
    PROVE  UpInv' /\ UNCHANGED <<Stages, CallsUp>>
<1>1. \A k \in Conns : UpStream(k)' = UpStream(k)
  BY DEF UpStream, InBuffer, upVars
<1>2. CallsUp' = CallsUp
  BY <1>1 DEF CallsUp
<1>3. Stages' = Stages
  BY DEF Stages, upVars
<1>4. \A k \in Conns : Framed(UpStream(k)') <=> Framed(UpStream(k))
  BY <1>1
<1>5. \A k : Announced(k)' <=> Announced(k)
  BY DEF Announced, upVars
<1>6. UpInv'
  BY <1>4, <1>5 DEF UpInv, upVars, Framed, Announced
<1> QED
  BY <1>2, <1>3, <1>6

-----------------------------------------------------------------------------
(* The end of a connection at the server.                                  *)

LEMMA FramesAnnounced ==
    ASSUME RInv, UpInv,
           \/ frames' = frames
           \/ frames # <<>> /\ frames' = Below
           \/ frames # <<>> /\ \E frame \in Frame : frame.conn = Top.conn /\ frames' = Replace(frame)
    PROVE  \A i \in DOMAIN frames' : Announced(frames'[i].conn)
<1>1. CASE frames' = frames
  BY <1>1 DEF UpInv
<1>2. CASE frames # <<>> /\ frames' = Below
  BY <1>2, FramesBelow DEF UpInv, RInv
<1>3. CASE frames # <<>> /\ \E frame \in Frame : frame.conn = Top.conn /\ frames' = Replace(frame)
  <2>1. PICK frame \in Frame : frame.conn = Top.conn /\ frames' = Replace(frame)
    BY <1>3
  <2>2. /\ DOMAIN frames' = DOMAIN frames
        /\ \A i \in DOMAIN frames : frames'[i] = IF i = Len(frames) THEN frame ELSE frames[i]
    BY <1>3, <2>1, ReplacedFrames DEF RInv
  <2>3. \A i \in DOMAIN frames : frames'[i].conn = frames[i].conn
    BY <2>1, <2>2 DEF Top
  <2> QED
    BY <2>2, <2>3 DEF UpInv
<1> QED
  BY <1>1, <1>2, <1>3

LeaveUp(k) ==
    /\ Stages[k] \in {"new", "member"}
    /\ Stages' = [Stages EXCEPT ![k] = "left"]
    /\ CallsUp' = [CallsUp EXCEPT ![k] = <<>>]

LEMMA LeaveStep ==
    ASSUME NEW k \in Conns, LeaveUp(k), UNCHANGED taken, DownQuiet
    PROVE  Channels!Next
<1>1. Channels!Leave(k)
  BY DEF Channels!Leave, LeaveUp, DownQuiet
<1> QED
  BY <1>1 DEF Channels!Next

\* A stream that is empty.
LEMMA NothingComes ==
    ASSUME RInv', NEW k \in Conns, k \notin clients', unread'[k] = <<>>, toServer'[k] = <<>>
    PROVE  UpStream(k)' = <<>> /\ Framed(UpStream(k)') /\ CallsIn(UpStream(k)') = <<>>
<1>1. InBuffer(k)' = <<>> /\ <<>> \in Seq(Parts)
  BY EmptySeq DEF InBuffer
<1>2. <<>> \o <<>> = <<>>
  BY <1>1, ConcatEmptySeq
<1>3. UpStream(k)' = <<>>
  BY <1>1, <1>2 DEF UpStream
<1> QED
  BY <1>3, CallsInNone DEF Framed

LEMMA Leaving ==
    ASSUME RInv, RInv', UpInv, NEW k \in Conns, DisconnectClient(k), UNCHANGED link,
           \A i \in DOMAIN frames' : Announced(frames'[i].conn)
    PROVE  UpInv' /\ (UNCHANGED <<Stages, CallsUp>> \/ LeaveUp(k))
<1>1. CASE k \notin clients
  <2>1. UNCHANGED upVars
    BY <1>1 DEF DisconnectClient, Keep, tableVars, streamVars, upVars
  <2> QED
    BY <2>1, UpKept
<1>2. CASE k \in clients
  <2>1. /\ clients' = clients \ {k}
        /\ buffers' = [j \in DOMAIN buffers \ {k} |-> buffers[j]]
        /\ signals' = [signals EXCEPT ![k] = Append(@, "disconnected")]
        /\ unread' = [unread EXCEPT ![k] = <<>>]
        /\ toServer' = [toServer EXCEPT ![k] = <<>>]
        /\ UNCHANGED rejected
    BY <1>2 DEF DisconnectClient, Disconnect
  <2>2. signals \in [Conns -> Announcements] /\ unread \in [Conns -> Seq(Parts)] /\ toServer \in [Conns -> Seq(Parts)]
    BY DEF RInv, TableTypes, StreamTypes
  <2>3. signals[k] = <<"connected">> /\ k \in DOMAIN buffers
    BY <1>2 DEF RInv, TablesAgree
  <2>4. signals'[k] = <<"connected", "disconnected">> /\ signals'[k] # <<>>
    BY <2>1, <2>2, <2>3, PairOfAppend
  <2>5. \A j \in Conns \ {k} :
          /\ signals'[j] = signals[j] /\ unread'[j] = unread[j] /\ toServer'[j] = toServer[j]
          /\ j \in clients' <=> j \in clients
    BY <2>1, <2>2
  <2>6. \A j \in Conns \ {k} : UpStream(j)' = UpStream(j)
    <3> SUFFICES ASSUME NEW j \in Conns \ {k} PROVE UpStream(j)' = UpStream(j)
      OBVIOUS
    <3>1. j \in clients => j \in DOMAIN buffers
      BY DEF RInv, TablesAgree
    <3>2. InBuffer(j)' = InBuffer(j)
      BY <2>1, <2>5, <3>1 DEF InBuffer
    <3> QED
      BY <2>5, <3>2 DEF UpStream
  <2>7. k \notin clients' /\ unread'[k] = <<>> /\ toServer'[k] = <<>>
    BY <2>1, <2>2
  <2>8. UpStream(k)' = <<>> /\ Framed(UpStream(k)') /\ CallsIn(UpStream(k)') = <<>>
    BY <2>7, NothingComes
  <2>9. CallsUp' = [CallsUp EXCEPT ![k] = <<>>]
    BY <2>6, <2>8 DEF CallsUp
  <2>10. Stages' = [Stages EXCEPT ![k] = "left"]
    BY <2>4, <2>5, <2>7 DEF Stages
  <2>11. Stages[k] = "member"
    BY <1>2, <2>3 DEF Stages
  <2>12. \A j \in Conns : Framed(UpStream(j)')
    BY <2>6, <2>8 DEF UpInv
  <2>13. \A j \in Conns \ clients' : unread'[j] = <<>>
    BY <2>5, <2>7 DEF UpInv
  <2>14. \A j \in Conns : Announced(j) => Announced(j)'
    BY <2>1, <2>4, <2>5 DEF Announced
  <2>15. (\A i \in DOMAIN frames : Announced(frames[i].conn))'
    <3>1. frames' \in Seq(Frame)
      BY DEF RInv, DispatchTypes
    <3>2. DOMAIN frames' = 1 .. Len(frames')
      BY <3>1, LenProperties
    <3>3. \A i \in DOMAIN frames' : frames'[i] \in Frame
      BY <3>1, <3>2, ElementOfSeq
    <3>4. \A i \in DOMAIN frames' : frames'[i].conn \in Conns
      BY <3>3 DEF Frame
    <3> QED
      BY <2>14, <3>4 DEF Announced
  <2>16. \A j \in clients' : link'[j] # "new"
    BY <2>1 DEF UpInv
  <2>17. UpInv'
    BY <2>12, <2>13, <2>15, <2>16 DEF UpInv
  <2> QED
    BY <2>9, <2>10, <2>11, <2>17 DEF LeaveUp
<1> QED
  BY <1>1, <1>2

-----------------------------------------------------------------------------
(* The steps of the server, as steps of CallChannels.                      *)

CInv == RInv /\ RInv' /\ UpInv /\ DownInv

LEMMA FrameConns == ASSUME RInv PROVE \A i \in DOMAIN frames : frames[i].conn \in Conns
<1>1. frames \in Seq(Frame)
  BY DEF RInv, DispatchTypes
<1>2. DOMAIN frames = 1 .. Len(frames)
  BY <1>1, LenProperties
<1>3. \A i \in DOMAIN frames : frames[i] \in Frame
  BY <1>1, <1>2, ElementOfSeq
<1> QED
  BY <1>3 DEF Frame

\* A new call of clientData() for a connection that is announced by now.
LEMMA FramePushed ==
    ASSUME RInv, RInv', UpInv, NEW k \in Conns, signals'[k] # <<>>, k \notin rejected',
           NEW signalled \in BOOLEAN, frames' \in {frames, Append(frames, NewFrame(k, signalled))},
           \A j \in Conns : Announced(j) => signals'[j] # <<>> /\ j \notin rejected'
    PROVE  (\A i \in DOMAIN frames : Announced(frames[i].conn))'
<1> DEFINE new == NewFrame(k, signalled)
<1>1. frames \in Seq(Frame)
  BY DEF RInv, DispatchTypes
<1>2. new \in Frame /\ new.conn = k
  BY NewFrameType
<1> HIDE DEF new
<1>3. \A i \in DOMAIN frames : frames[i].conn \in Conns
  BY FrameConns
<1>4. CASE frames' = frames
  BY <1>3, <1>4 DEF UpInv, Announced
<1>5. CASE frames' = Append(frames, new)
  <2>1. /\ Append(frames, new) \in Seq(Frame)
        /\ Len(Append(frames, new)) = Len(frames) + 1
        /\ \A i \in 1 .. Len(frames) : Append(frames, new)[i] = frames[i]
        /\ Append(frames, new)[Len(frames) + 1] = new
    BY <1>1, <1>2, AppendProperties
  <2>2. /\ DOMAIN frames' = 1 .. Len(frames) + 1 /\ DOMAIN frames = 1 .. Len(frames) /\ Len(frames) \in Nat
    BY <1>1, <1>5, <2>1, LenProperties
  <2>3. \A i \in DOMAIN frames' : i \in DOMAIN frames \/ i = Len(frames) + 1
    BY <2>2
  <2>4. \A i \in DOMAIN frames' : frames'[i].conn = k \/ (i \in DOMAIN frames /\ frames'[i].conn = frames[i].conn)
    <3> SUFFICES ASSUME NEW i \in DOMAIN frames'
                 PROVE  frames'[i].conn = k \/ (i \in DOMAIN frames /\ frames'[i].conn = frames[i].conn)
      OBVIOUS
    <3>1. CASE i \in DOMAIN frames
      <4>1. i \in 1 .. Len(frames)
        BY <2>2, <3>1
      <4> QED
        BY <1>5, <2>1, <3>1, <4>1
    <3>2. CASE i = Len(frames) + 1
      BY <1>2, <1>5, <2>1, <3>2
    <3> QED
      BY <2>3, <3>1, <3>2
  <2> QED
    BY <1>3, <2>4 DEF UpInv, Announced
<1> QED
  BY <1>4, <1>5 DEF new

LEMMA AcceptMaps ==
    ASSUME CInv, NEW k \in Conns, Accept(k)
    PROVE  UpInv' /\ DownInv' /\ Channels!Next
<1> USE DEF CInv
<1>1. /\ link[k] # "new" /\ signals[k] = <<>>
      /\ clients' = clients \cup {k}
      /\ signals' = [signals EXCEPT ![k] = Append(@, "connected")]
      /\ UNCHANGED <<taken, rejected>> /\ UNCHANGED replyVars /\ UNCHANGED clientVars
  BY DEF Accept, NextPending
<1>2. PICK received \in Prefixes(toServer[k]) :
          /\ ReadUpFront(k, received, NewTable(k))
          /\ toServer' = [toServer EXCEPT ![k] = Without(@, received)]
  BY DEF Accept
<1>3. toServer[k] \in Seq(Parts) /\ received \in Seq(Parts) /\ Without(toServer[k], received) \in Seq(Parts)
  BY Streams, PieceTypes
<1>4. received \o Without(toServer[k], received) = toServer[k]
  BY <1>3, Divided
<1>5. k \notin clients /\ k \notin rejected
  BY <1>1 DEF RInv, TablesAgree, Rejections
<1>6. /\ DOMAIN NewTable(k) = DOMAIN buffers \cup {k} /\ NewTable(k)[k] = <<>>
      /\ \A j \in DOMAIN buffers \ {k} : NewTable(k)[j] = buffers[j]
  BY DEF NewTable
<1>7. /\ UNCHANGED unread
      /\ buffers'[k] = received
      /\ \A j \in DOMAIN buffers \ {k} : buffers'[j] = buffers[j]
      /\ frames' \in {frames, Append(frames, NewFrame(k, FALSE))}
  <2>1. <<>> \o received = received
    BY <1>3, ConcatEmptySeq
  <2>2. CASE received # <<>>
    BY <1>2, <1>6, <2>1, <2>2 DEF ReadUpFront, ClientData
  <2>3. CASE received = <<>>
    BY <1>2, <1>6, <2>3 DEF ReadUpFront
  <2> QED
    BY <2>2, <2>3
<1>8. signals'[k] # <<>> /\ \A j \in Conns \ {k} : signals'[j] = signals[j]
  <2>1. signals \in [Conns -> Announcements]
    BY DEF RInv, TableTypes
  <2>2. <<>> \in Seq({"connected"}) /\ "connected" \in {"connected"}
    BY EmptySeq
  <2>3. Append(<<>>, "connected") # <<>>
    BY <2>2, AppendProperties
  <2> QED
    BY <1>1, <2>1, <2>3
<1>9. \A j \in Conns \ {k} : UpStream(j)' = UpStream(j)
  <2> SUFFICES ASSUME NEW j \in Conns \ {k} PROVE UpStream(j)' = UpStream(j)
    OBVIOUS
  <2>1. j \in clients => j \in DOMAIN buffers
    BY DEF RInv, TablesAgree
  <2>2. InBuffer(j)' = InBuffer(j)
    BY <1>1, <1>7, <2>1 DEF InBuffer
  <2>3. toServer'[j] = toServer[j] /\ unread'[j] = unread[j]
    BY <1>2, <1>7 DEF RInv, StreamTypes
  <2> QED
    BY <2>2, <2>3 DEF UpStream
<1>10. UpStream(k)' = UpStream(k)
  <2>1. unread[k] = <<>> /\ unread'[k] = <<>>
    BY <1>5, <1>7 DEF UpInv
  <2>2. InBuffer(k)' = received /\ InBuffer(k) = <<>>
    BY <1>1, <1>5, <1>7 DEF InBuffer
  <2>3. toServer'[k] = Without(toServer[k], received)
    BY <1>2 DEF RInv, StreamTypes
  <2>4. received \o <<>> = received /\ <<>> \o toServer[k] = toServer[k] /\ <<>> \o <<>> = <<>>
    BY <1>3, ConcatEmptySeq, EmptySeq
  <2>5. UpStream(k)' = toServer[k]
    BY <1>4, <2>1, <2>2, <2>3, <2>4 DEF UpStream
  <2>6. UpStream(k) = toServer[k]
    BY <2>1, <2>2, <2>4 DEF UpStream
  <2> QED
    BY <2>5, <2>6
<1>11. CallsUp' = CallsUp
  BY <1>9, <1>10 DEF CallsUp
<1>12. Stages[k] = "new" /\ Stages' = [Stages EXCEPT ![k] = "member"]
  BY <1>1, <1>8 DEF Stages
<1>13. DownInv' /\ DownQuiet
  BY <1>1, DownKept DEF replyVars, clientVars, downVars, DownQuiet
<1>14. (\A i \in DOMAIN frames : Announced(frames[i].conn))'
  <2>1. \A j \in Conns : Announced(j) => signals'[j] # <<>> /\ j \notin rejected'
    BY <1>1, <1>8 DEF Announced
  <2> QED
    BY <1>1, <1>5, <1>7, <1>8, <2>1, FramePushed
<1>15. UpInv'
  <2>1. (\A j \in Conns : Framed(UpStream(j)')) /\ \A j \in Conns \ clients' : unread'[j] = <<>>
    BY <1>1, <1>7, <1>9, <1>10 DEF UpInv
  <2>2. \A j \in clients' : link'[j] # "new"
    BY <1>1 DEF UpInv, clientVars
  <2> QED
    BY <1>14, <2>1, <2>2 DEF UpInv
<1>16. Channels!Join(k)
  BY <1>1, <1>11, <1>12, <1>13 DEF Channels!Join, DownQuiet
<1> QED
  BY <1>13, <1>15, <1>16 DEF Channels!Next

LEMMA RejectMaps ==
    ASSUME CInv, NEW k \in Conns, Reject(k)
    PROVE  UpInv' /\ DownInv' /\ Channels!Next
<1> USE DEF CInv
<1>1. /\ signals[k] = <<>> /\ signals' = [signals EXCEPT ![k] = <<"connected", "disconnected">>]
      /\ buffers' = NewTable(k) /\ rejected' = rejected \cup {k}
      /\ toServer' = [toServer EXCEPT ![k] = <<>>]
      /\ UNCHANGED <<clients, unread>>
      /\ UNCHANGED dispatchVars /\ UNCHANGED replyVars /\ UNCHANGED clientVars
  BY DEF Reject, NextPending
<1>2. k \notin clients
  BY <1>1 DEF RInv, TablesAgree
<1>3. /\ toServer'[k] = <<>> /\ unread'[k] = <<>>
      /\ signals'[k] # <<>>
      /\ \A j \in Conns \ {k} : toServer'[j] = toServer[j] /\ signals'[j] = signals[j]
      /\ \A j \in DOMAIN buffers \ {k} : buffers'[j] = buffers[j]
  <2>1. <<"connected", "disconnected">> # <<>>
    OBVIOUS
  <2> QED
    BY <1>1, <1>2, <2>1 DEF RInv, StreamTypes, TableTypes, UpInv, NewTable
<1>4. UpStream(k)' = <<>> /\ Framed(UpStream(k)') /\ CallsIn(UpStream(k)') = <<>>
  BY <1>1, <1>2, <1>3, NothingComes
<1>5. \A j \in Conns \ {k} : UpStream(j)' = UpStream(j)
  <2> SUFFICES ASSUME NEW j \in Conns \ {k} PROVE UpStream(j)' = UpStream(j)
    OBVIOUS
  <2>1. j \in clients => j \in DOMAIN buffers
    BY DEF RInv, TablesAgree
  <2>2. InBuffer(j)' = InBuffer(j)
    BY <1>1, <1>3, <2>1 DEF InBuffer
  <2> QED
    BY <1>1, <1>3, <2>2 DEF UpStream
<1>6. LeaveUp(k)
  <2>1. CallsUp' = [CallsUp EXCEPT ![k] = <<>>]
    BY <1>4, <1>5 DEF CallsUp
  <2>2. Stages[k] = "new" /\ Stages' = [Stages EXCEPT ![k] = "left"]
    BY <1>1, <1>2, <1>3 DEF Stages
  <2> QED
    BY <2>1, <2>2 DEF LeaveUp
<1>7. DownInv' /\ DownQuiet
  BY <1>1, DownKept DEF replyVars, clientVars, downVars, DownQuiet
<1>8. (\A i \in DOMAIN frames : Announced(frames[i].conn))'
  <2>1. UNCHANGED frames
    BY <1>1 DEF dispatchVars
  <2>2. \A i \in DOMAIN frames : frames[i].conn \in Conns
    BY FrameConns
  <2>3. \A i \in DOMAIN frames : frames[i].conn # k
    BY <1>1 DEF UpInv, Announced
  <2> QED
    BY <1>1, <1>3, <2>1, <2>2, <2>3 DEF UpInv, Announced
<1>9. UpInv'
  <2>1. (\A j \in Conns : Framed(UpStream(j)')) /\ \A j \in Conns \ clients' : unread'[j] = <<>>
    BY <1>1, <1>4, <1>5 DEF UpInv
  <2>2. \A j \in clients' : link'[j] # "new"
    BY <1>1 DEF UpInv, clientVars
  <2> QED
    BY <1>8, <2>1, <2>2 DEF UpInv
<1> QED
  BY <1>1, <1>6, <1>7, <1>9, LeaveStep DEF dispatchVars

LEMMA ReadyReadMaps ==
    ASSUME CInv, NEW k \in Conns, ReadyRead(k)
    PROVE  UpInv' /\ DownInv' /\ Channels!Next
<1> USE DEF CInv
<1>1. /\ k \in handlers
      /\ unread' = [unread EXCEPT ![k] = <<>>]
      /\ UNCHANGED <<taken, clients, signals, rejected>>
      /\ UNCHANGED replyVars /\ UNCHANGED clientVars
  BY DEF ReadyRead
<1>2. PICK received \in Prefixes(toServer[k]) \ {<<>>} :
          /\ ClientData(k, unread[k] \o received, buffers, TRUE)
          /\ toServer' = [toServer EXCEPT ![k] = Without(@, received)]
  BY DEF ReadyRead
<1>3. /\ InBuffer(k) \in Seq(Parts) /\ unread[k] \in Seq(Parts) /\ toServer[k] \in Seq(Parts)
      /\ received \in Seq(Parts) /\ Without(toServer[k], received) \in Seq(Parts)
  BY Streams, PieceTypes
<1>4. received \o Without(toServer[k], received) = toServer[k]
  BY <1>3, Divided
<1>5. k \in clients /\ k \in DOMAIN buffers /\ signals[k] # <<>> /\ k \notin rejected
  BY <1>1 DEF RInv, TablesAgree, Rejections
<1>6. /\ InBuffer(k)' = InBuffer(k) \o (unread[k] \o received)
      /\ \A j \in Conns \ {k} : InBuffer(j)' = InBuffer(j)
  <2> DEFINE appended == unread[k] \o received
  <2>1. buffers' = [buffers EXCEPT ![k] = @ \o appended]
    BY <1>2 DEF ClientData
  <2> HIDE DEF appended
  <2>2. InBuffer(k) = buffers[k] /\ InBuffer(k)' = buffers'[k]
    BY <1>1, <1>5, <2>1 DEF InBuffer
  <2>3. buffers'[k] = buffers[k] \o appended
    BY <1>5, <2>1
  <2>4. \A j \in Conns \ {k} : InBuffer(j)' = InBuffer(j)
    BY <1>1, <1>5, <2>1 DEF InBuffer
  <2> QED
    BY <2>2, <2>3, <2>4 DEF appended
<1>7. /\ unread'[k] = <<>> /\ toServer'[k] = Without(toServer[k], received)
      /\ \A j \in Conns \ {k} : unread'[j] = unread[j] /\ toServer'[j] = toServer[j]
  BY <1>1, <1>2 DEF RInv, StreamTypes
<1>8. \A j \in Conns : UpStream(j)' = UpStream(j)
  <2> SUFFICES ASSUME NEW j \in Conns PROVE UpStream(j)' = UpStream(j)
    OBVIOUS
  <2>1. CASE j # k
    BY <1>6, <1>7, <2>1 DEF UpStream
  <2>2. CASE j = k
    <3>1. PICK b \in Seq(Parts), u \in Seq(Parts), rest \in Seq(Parts) :
              b = InBuffer(k) /\ u = unread[k] /\ rest = Without(toServer[k], received)
      BY <1>3
    <3>2. UpStream(k)' = ((b \o (u \o received)) \o <<>>) \o rest
      BY <1>6, <1>7, <3>1 DEF UpStream
    <3>3. UpStream(k) = (b \o u) \o (received \o rest)
      BY <1>4, <3>1 DEF UpStream
    <3>4. (b \o (u \o received)) \o <<>> = b \o (u \o received)
      BY <1>3, Joined, ConcatEmptySeq
    <3>5. received \in Seq(Parts)
      BY <1>3
    <3>6. (b \o (u \o received)) \o rest = (b \o u) \o (received \o rest)
      <4>1. PICK front \in Seq(Parts) : front = b \o u
        BY Joined
      <4>2. b \o (u \o received) = front \o received
        BY <3>5, <4>1, Regrouped
      <4>3. (front \o received) \o rest = front \o (received \o rest)
        BY <3>5, Regrouped
      <4> QED
        BY <4>1, <4>2, <4>3
    <3> QED
      BY <2>2, <3>2, <3>3, <3>4, <3>6
  <2> QED
    BY <2>1, <2>2
<1>9. CallsUp' = CallsUp
  BY <1>8 DEF CallsUp
<1>10. Stages' = Stages
  BY <1>1 DEF Stages
<1>11. DownInv' /\ DownQuiet
  BY <1>1, DownKept DEF replyVars, clientVars, downVars, DownQuiet
<1>12. (\A i \in DOMAIN frames : Announced(frames[i].conn))'
  <2>1. frames' = Append(frames, NewFrame(k, TRUE))
    BY <1>2 DEF ClientData
  <2>2. \A j \in Conns : Announced(j) => signals'[j] # <<>> /\ j \notin rejected'
    BY <1>1 DEF Announced
  <2> QED
    BY <1>1, <1>5, <2>1, <2>2, FramePushed
<1>13. UpInv'
  <2>1. (\A j \in Conns : Framed(UpStream(j)')) /\ \A j \in Conns \ clients' : unread'[j] = <<>>
    BY <1>1, <1>5, <1>7, <1>8 DEF UpInv
  <2>2. \A j \in clients' : link'[j] # "new"
    BY <1>1 DEF UpInv, clientVars
  <2> QED
    BY <1>12, <2>1, <2>2 DEF UpInv
<1> QED
  BY <1>1, <1>9, <1>10, <1>11, <1>13, QuietStep DEF UpQuiet

\* What comes while a slot waits stays where it was in the stream.
LEMMA ReceiveInsideMaps ==
    ASSUME CInv, NEW k \in Conns, ReceiveInside(k)
    PROVE  UpInv' /\ DownInv' /\ Channels!Next
<1> USE DEF CInv
<1>1. /\ k \in handlers
      /\ UNCHANGED dispatchVars /\ UNCHANGED tableVars /\ UNCHANGED replyVars /\ UNCHANGED clientVars
  BY DEF ReceiveInside
<1>2. PICK received \in Prefixes(toServer[k]) \ {<<>>} :
          /\ unread' = [unread EXCEPT ![k] = @ \o received]
          /\ toServer' = [toServer EXCEPT ![k] = Without(@, received)]
  BY DEF ReceiveInside
<1>3. /\ InBuffer(k) \in Seq(Parts) /\ unread[k] \in Seq(Parts) /\ toServer[k] \in Seq(Parts)
      /\ received \in Seq(Parts) /\ Without(toServer[k], received) \in Seq(Parts)
  BY Streams, PieceTypes
<1>4. received \o Without(toServer[k], received) = toServer[k]
  BY <1>3, Divided
<1>5. /\ unread'[k] = unread[k] \o received /\ toServer'[k] = Without(toServer[k], received)
      /\ \A j \in Conns \ {k} : unread'[j] = unread[j] /\ toServer'[j] = toServer[j]
  BY <1>2 DEF RInv, StreamTypes
<1>6. UNCHANGED <<taken, frames, clients, buffers, signals, rejected, link>>
  BY <1>1 DEF dispatchVars, tableVars, clientVars
<1>7. \A j \in Conns : UpStream(j)' = UpStream(j)
  <2> SUFFICES ASSUME NEW j \in Conns PROVE UpStream(j)' = UpStream(j)
    OBVIOUS
  <2>1. InBuffer(j)' = InBuffer(j)
    BY <1>6 DEF InBuffer
  <2>2. CASE j # k
    BY <1>5, <2>1, <2>2 DEF UpStream
  <2>3. CASE j = k
    <3>1. PICK b \in Seq(Parts), u \in Seq(Parts), rest \in Seq(Parts) :
              b = InBuffer(k) /\ u = unread[k] /\ rest = Without(toServer[k], received)
      BY <1>3
    <3>2. UpStream(k)' = (b \o (u \o received)) \o rest
      BY <1>5, <2>1, <2>3, <3>1 DEF UpStream
    <3>3. UpStream(k) = (b \o u) \o (received \o rest)
      BY <1>4, <3>1 DEF UpStream
    <3>4. received \in Seq(Parts)
      BY <1>3
    <3>5. (b \o (u \o received)) \o rest = (b \o u) \o (received \o rest)
      <4>1. PICK front \in Seq(Parts) : front = b \o u
        BY Joined
      <4>2. b \o (u \o received) = front \o received
        BY <3>4, <4>1, Regrouped
      <4>3. (front \o received) \o rest = front \o (received \o rest)
        BY <3>4, Regrouped
      <4> QED
        BY <4>1, <4>2, <4>3
    <3> QED
      BY <2>3, <3>2, <3>3, <3>5
  <2> QED
    BY <2>2, <2>3
<1>8. UpQuiet
  BY <1>6, <1>7 DEF CallsUp, Stages, UpQuiet
<1>9. DownInv' /\ DownQuiet
  BY <1>1, DownKept DEF replyVars, clientVars, downVars, DownQuiet
<1>10. UpInv'
  <2>1. k \in clients
    BY <1>1 DEF RInv, TablesAgree
  <2>2. (\A j \in Conns : Framed(UpStream(j)')) /\ \A j \in Conns \ clients' : unread'[j] = <<>>
    BY <1>5, <1>6, <1>7, <2>1 DEF UpInv
  <2>3. (\A i \in DOMAIN frames : Announced(frames[i].conn))'
    BY <1>6 DEF UpInv, Announced
  <2>4. \A j \in clients' : link'[j] # "new"
    BY <1>6 DEF UpInv
  <2> QED
    BY <2>2, <2>3, <2>4 DEF UpInv
<1> QED
  BY <1>8, <1>9, <1>10, QuietStep

\* Nothing of what was sent moves.
LEMMA StreamsKept ==
    ASSUME CInv, UNCHANGED tableVars, UNCHANGED streamVars, UNCHANGED link, UNCHANGED taken,
           \A i \in DOMAIN frames' : Announced(frames'[i].conn)
    PROVE  UpInv' /\ UpQuiet
<1>1. UNCHANGED upVars
  BY DEF tableVars, streamVars, upVars
<1> QED
  BY <1>1, UpKept DEF CInv, UpQuiet

LEMMA ClientsUntouched ==
    ASSUME CInv, UNCHANGED replyVars, UNCHANGED clientVars
    PROVE  DownInv' /\ DownQuiet /\ UNCHANGED link
<1>1. UNCHANGED downVars /\ UNCHANGED heard /\ UNCHANGED link
  BY DEF replyVars, clientVars, downVars
<1> QED
  BY <1>1, DownKept DEF CInv, DownQuiet

LEMMA LocalMaps ==
    ASSUME CInv, UNCHANGED tableVars, UNCHANGED streamVars, UNCHANGED replyVars, UNCHANGED clientVars,
           UNCHANGED taken,
           \/ frames' = frames
           \/ frames # <<>> /\ frames' = Below
           \/ frames # <<>> /\ \E frame \in Frame : frame.conn = Top.conn /\ frames' = Replace(frame)
    PROVE  UpInv' /\ DownInv' /\ Channels!Next
<1>1. DownInv' /\ DownQuiet /\ UNCHANGED link
  BY ClientsUntouched
<1>2. \A i \in DOMAIN frames' : Announced(frames'[i].conn)
  BY FramesAnnounced DEF CInv
<1>3. UpInv' /\ UpQuiet
  BY <1>1, <1>2, StreamsKept
<1> QED
  BY <1>1, <1>3, QuietStep

LEMMA DisconnectMaps ==
    ASSUME CInv, NEW k \in Conns, DisconnectClient(k), UNCHANGED taken,
           UNCHANGED replyVars, UNCHANGED clientVars,
           \/ frames' = frames
           \/ frames # <<>> /\ frames' = Below
           \/ frames # <<>> /\ \E frame \in Frame : frame.conn = Top.conn /\ frames' = Replace(frame)
    PROVE  UpInv' /\ DownInv' /\ Channels!Next
<1>1. DownInv' /\ DownQuiet /\ UNCHANGED link
  BY ClientsUntouched
<1>2. \A i \in DOMAIN frames' : Announced(frames'[i].conn)
  BY FramesAnnounced DEF CInv
<1>3. UpInv' /\ (UNCHANGED <<Stages, CallsUp>> \/ LeaveUp(k))
  BY <1>1, <1>2, Leaving DEF CInv
<1>4. CASE UNCHANGED <<Stages, CallsUp>>
  BY <1>1, <1>3, <1>4, QuietStep DEF UpQuiet
<1>5. CASE LeaveUp(k)
  BY <1>1, <1>3, <1>5, LeaveStep
<1> QED
  BY <1>3, <1>4, <1>5

LEMMA ServerNoticesEndMaps ==
    ASSUME CInv, NEW k \in Conns, ServerNoticesEnd(k) PROVE UpInv' /\ DownInv' /\ Channels!Next
<1>1. /\ DisconnectClient(k) /\ UNCHANGED <<frames, taken>>
      /\ UNCHANGED replyVars /\ UNCHANGED clientVars
  BY DEF ServerNoticesEnd
<1> QED
  BY <1>1, DisconnectMaps

\* The first call in the buffer of a connection is taken.
LEMMA DispatchMaps ==
    ASSUME CInv, DispatchMessage PROVE UpInv' /\ DownInv' /\ Channels!Next
<1> USE DEF CInv
<1>0. PICK k \in Conns : k = Top.conn
  <2>1. frames # <<>>
    BY DEF DispatchMessage, Executing
  <2>2. Top \in Frame
    BY <2>1, TopOfFrames DEF RInv
  <2> QED
    BY <2>2 DEF Frame
<1>1. /\ frames # <<>> /\ k \in DOMAIN buffers /\ CanDeserialize(buffers[k])
      /\ UNCHANGED replyVars /\ UNCHANGED clientVars
  BY <1>0 DEF DispatchMessage, Executing
<1>2. Top \in Frame /\ k \in Conns /\ Announced(k)
  <2>1. Top \in Frame /\ Len(frames) \in DOMAIN frames
    BY <1>1, TopOfFrames DEF RInv
  <2> QED
    BY <1>0, <2>1 DEF UpInv, Top
<1>3. k \in clients
  BY <1>1, <1>2 DEF RInv, TablesAgree, Announced
<1>4. PICK kind \in Deserialized(buffers[k], Kinds) :
          IF kind = "bad" THEN ProtocolError
          ELSE /\ taken' = taken + 1
               /\ buffers' = [buffers EXCEPT ![k] = Rest(@)]
               /\ frames' = Replace([Top EXCEPT !.todo = IF kind = "call" THEN Receivers ELSE <<>>])
               /\ UNCHANGED <<clients, handlers, signals, rejected, streamVars, overrun>>
  BY <1>0 DEF DispatchMessage
<1>5. CASE kind = "bad"
  <2>1. DisconnectClient(k) /\ frames' = Below /\ UNCHANGED taken
    BY <1>0, <1>4, <1>5 DEF ProtocolError
  <2> QED
    BY <1>1, <1>2, <2>1, DisconnectMaps
<1>6. CASE kind # "bad"
  <2> DEFINE frame == [Top EXCEPT !.todo = IF kind = "call" THEN Receivers ELSE <<>>]
             rest == unread[k] \o toServer[k]
  <2>1. /\ taken' = taken + 1
        /\ buffers' = [buffers EXCEPT ![k] = Rest(@)]
        /\ frames' = Replace(frame)
        /\ UNCHANGED <<clients, signals, rejected>> /\ UNCHANGED streamVars
    BY <1>4, <1>6
  <2>2. frame \in Frame /\ frame.conn = Top.conn
    <3>1. Receivers \in Seq(Objects) /\ <<>> \in Seq(Objects)
      BY ReceiversExist, EmptySeq DEF RInv
    <3>2. Top \in [conn : Conns, signalled : BOOLEAN, todo : Seq(Objects), inside : BOOLEAN]
      BY <1>2 DEF Frame
    <3> QED
      BY <3>1, <3>2 DEF Frame
  <2>3. DownInv' /\ DownQuiet /\ UNCHANGED link
    BY <1>1, ClientsUntouched
  <2> HIDE DEF frame
  <2>4. buffers[k] \in Seq(Parts) /\ rest \in Seq(Parts) /\ InBuffer(k) = buffers[k]
    BY <1>2, <1>3, Streams, UpStreamIs DEF RInv, TableTypes, InBuffer, TablesAgree
  <2>5. UpStream(k) = buffers[k] \o rest /\ UpStream(k) \in Seq(Parts) /\ Framed(UpStream(k))
    BY <1>2, <2>4, UpStreamIs, Streams DEF UpInv
  <2>6. /\ Rest(buffers[k]) \o rest = Rest(UpStream(k)) /\ Len(UpStream(k)) >= 2
    BY <1>1, <2>4, <2>5, RestOfConcat
  <2>7. /\ Framed(Rest(UpStream(k))) /\ CallsIn(UpStream(k)) # <<>>
        /\ CallsIn(Rest(UpStream(k))) = Tail(CallsIn(UpStream(k)))
    BY <2>5, <2>6, FirstMessage
  <2>8. /\ InBuffer(k)' = Rest(buffers[k]) /\ toServer' = toServer /\ unread' = unread
        /\ \A j \in Conns \ {k} : InBuffer(j)' = InBuffer(j)
    BY <1>1, <1>3, <2>1 DEF InBuffer, streamVars
  <2>9. UpStream(k)' = Rest(UpStream(k))
    <3>1. Rest(buffers[k]) \in Seq(Parts)
      BY <2>4, RestType
    <3>2. (Rest(buffers[k]) \o unread[k]) \o toServer[k] = Rest(buffers[k]) \o rest
      BY <1>2, <3>1, Streams, Regrouped
    <3> QED
      BY <2>6, <2>8, <3>2 DEF UpStream
  <2>10. \A j \in Conns \ {k} : UpStream(j)' = UpStream(j)
    BY <2>8 DEF UpStream
  <2>11. CallsUp' = [CallsUp EXCEPT ![k] = Tail(@)]
    BY <1>2, <2>7, <2>9, <2>10 DEF CallsUp
  <2>12. Stages' = Stages /\ Stages[k] = "member" /\ CallsUp[k] # <<>>
    BY <1>2, <1>3, <2>1, <2>7 DEF Stages, CallsUp, Announced
  <2>13. Channels!Dispatch(k)
    BY <2>1, <2>3, <2>11, <2>12 DEF Channels!Dispatch, DownQuiet
  <2>14. \A i \in DOMAIN frames' : Announced(frames'[i].conn)
    BY <1>1, <2>1, <2>2, FramesAnnounced
  <2>15. UpInv'
    <3>1. (\A j \in Conns : Framed(UpStream(j)')) /\ \A j \in Conns \ clients' : unread'[j] = <<>>
      BY <2>1, <2>7, <2>8, <2>9, <2>10 DEF UpInv
    <3>2. \A j \in clients' : link'[j] # "new"
      BY <2>1, <2>3 DEF UpInv
    <3>3. (\A i \in DOMAIN frames : Announced(frames[i].conn))'
      BY <2>1, <2>14 DEF Announced
    <3> QED
      BY <3>1, <3>2, <3>3 DEF UpInv
  <2> QED
    BY <1>2, <2>3, <2>13, <2>15 DEF Channels!Next
<1> QED
  BY <1>5, <1>6

-----------------------------------------------------------------------------
(* The calls of the server.                                                *)

LEMMA CallToMaps ==
    ASSUME CInv, NEW ids, CallTo(ids), UpQuiet, UNCHANGED clientVars
    PROVE  DownInv' /\ Channels!Send(ids \cap clients)
<1> USE DEF CInv
<1> DEFINE n == sentDown'
           targets == ids \cap clients
           Written(k) == k \in targets /\ link[k] = "open"
<1>1. n \in Numbers
  <2>1. MaxUp \in Nat /\ MaxDown \in Nat /\ sentDown \in 0 .. MaxDown /\ sentDown < MaxDown /\ n = sentDown + 1
    BY RpcServiceAssumption DEF ReplyTypes, CallTo, RInv
  <2> QED
    BY <2>1 DEF Numbers
<1>2. \A k \in Conns : toClient'[k] = IF Written(k) THEN toClient[k] \o Message(n) ELSE toClient[k]
  BY DEF CallTo
<1>3. UNCHANGED <<link, device, serverBuffer, misframed, heard>>
  BY DEF clientVars
<1> HIDE DEF n, targets
<1>4. Message(n) \in Seq(Parts)
  BY <1>1, MessageType DEF Numbers
<1>5. \A k \in Conns : DownStream(k)' = IF Written(k) THEN DownStream(k) \o Message(n) ELSE DownStream(k)
  <2> SUFFICES ASSUME NEW k \in Conns
               PROVE  DownStream(k)' = IF Written(k) THEN DownStream(k) \o Message(n) ELSE DownStream(k)
    OBVIOUS
  <2>1. InServerBuffer(k)' = InServerBuffer(k)
    BY <1>3 DEF InServerBuffer
  <2>2. CASE Written(k)
    <3>1. DownStream(k)' = InServerBuffer(k) \o (toClient[k] \o Message(n))
      BY <1>2, <2>1, <2>2 DEF DownStream
    <3>2. InServerBuffer(k) \in Seq(Parts) /\ toClient[k] \in Seq(Parts)
      BY Streams
    <3> DEFINE b == InServerBuffer(k)
    <3> HIDE DEF b
    <3>3. (b \o toClient[k]) \o Message(n) = b \o (toClient[k] \o Message(n))
      BY <1>4, <3>2, Regrouped DEF b
    <3> QED
      BY <2>2, <3>1, <3>3 DEF b, DownStream
  <2>3. CASE ~Written(k)
    BY <1>2, <2>1, <2>3 DEF DownStream
  <2> QED
    BY <2>2, <2>3
<1>6. \A k \in Conns : DownStream(k) \in Seq(Parts)
  BY Streams
<1>7. \A k \in Conns \ misframed : Framed(DownStream(k)')
  BY <1>1, <1>5, <1>6, FramedByMessage DEF DownInv
<1>8. DownInv'
  BY <1>3, <1>7 DEF DownInv, OneEach
<1>9. Deaf' = Deaf
  BY <1>3 DEF Deaf
<1>10. \A k \in targets \ Deaf : Written(k) /\ k \notin misframed /\ k \in Conns
  <2> SUFFICES ASSUME NEW k \in targets \ Deaf PROVE link[k] = "open" /\ k \notin misframed /\ k \in Conns
    OBVIOUS
  <2>1. k \in clients /\ k \in Conns
    BY DEF targets, RInv, TableTypes
  <2>2. link[k] \in {"new", "open", "closed"} /\ link[k] # "new"
    BY <2>1 DEF UpInv, RInv, ClientTypes
  <2> QED
    BY <2>1, <2>2 DEF Deaf
<1>11. \A k \in Conns : k \notin targets \ Deaf => ~Written(k) \/ k \in misframed
  BY DEF Deaf
<1>12. ASSUME NEW k \in Conns, k \in targets \ Deaf
       PROVE  CallsDown'[k] = Append(CallsDown[k], n)
  <2>1. DownStream(k)' = DownStream(k) \o Message(n) /\ k \notin misframed /\ k \notin misframed'
    BY <1>3, <1>5, <1>10, <1>12
  <2>2. CallsIn(DownStream(k) \o Message(n)) = Append(CallsIn(DownStream(k)), n)
    BY <1>1, <1>6, CallsOfMessage
  <2> QED
    BY <2>1, <2>2 DEF CallsDown
<1>13. ASSUME NEW k \in Conns, k \notin targets \ Deaf
       PROVE  CallsDown'[k] = CallsDown[k]
  BY <1>3, <1>5, <1>11, <1>13 DEF CallsDown
<1>14. DOMAIN CallsDown' = Conns
  BY DEF CallsDown
<1>15. Channels!Send(targets)
  <2>1. n \in 1 .. MaxUp + MaxDown
    BY <1>1 DEF Numbers
  <2> QED
    BY <1>3, <1>9, <1>12, <1>13, <1>14, <2>1 DEF Channels!Send, UpQuiet
<1> QED
  BY <1>8, <1>15 DEF targets

LEMMA SlotReturnsMaps == ASSUME CInv, SlotReturns PROVE UpInv' /\ DownInv' /\ Channels!Next
<1> USE DEF CInv
<1> DEFINE k == Top.conn
<1>1. /\ Calling /\ frames' = Replace(Called)
      /\ UNCHANGED taken
      /\ UNCHANGED tableVars /\ UNCHANGED streamVars /\ UNCHANGED clientVars
      /\ UNCHANGED replyVars \/ CallTo({k}) \/ CallTo(clients \ {k})
  BY DEF SlotReturns, CallExcept
<1>2. frames # <<>> /\ Called \in Frame /\ Called.conn = k /\ k \in Conns
  <2>1. frames # <<>> /\ Called \in Frame
    BY <1>1, CalledTop DEF RInv
  <2>2. Top \in Frame
    BY <2>1, TopOfFrames DEF RInv
  <2> QED
    BY <2>1, <2>2 DEF Called, Frame
<1>3. \A i \in DOMAIN frames' : Announced(frames'[i].conn)
  BY <1>1, <1>2, FramesAnnounced
<1>4. UpInv' /\ UpQuiet
  BY <1>1, <1>3, StreamsKept DEF clientVars
<1>5. CASE UNCHANGED replyVars
  BY <1>1, <1>2, <1>5, LocalMaps
<1>6. CASE CallTo({k})
  <2>1. DownInv' /\ Channels!Send({k} \cap clients)
    BY <1>1, <1>4, <1>6, CallToMaps
  <2>2. {k} \cap clients = Channels!Members \cap {k}
    BY MembersAre
  <2>3. Channels!Send(Channels!Members \cap {k})
    BY <2>1, <2>2
  <2> QED
    BY <1>2, <1>4, <2>1, <2>3 DEF Channels!Next
<1>7. CASE CallTo(clients \ {k})
  <2>1. DownInv' /\ Channels!Send((clients \ {k}) \cap clients)
    BY <1>1, <1>4, <1>7, CallToMaps
  <2>2. (clients \ {k}) \cap clients = Channels!Members \ {k}
    BY MembersAre
  <2>3. Channels!Send(Channels!Members \ {k})
    BY <2>1, <2>2
  <2> QED
    BY <1>2, <1>4, <2>1, <2>3 DEF Channels!Next
<1> QED
  BY <1>1, <1>5, <1>6, <1>7

LEMMA EmitSignalMaps == ASSUME CInv, EmitSignal PROVE UpInv' /\ DownInv' /\ Channels!Next
<1> USE DEF CInv
<1>1. /\ CallTo(clients) /\ UNCHANGED dispatchVars
      /\ UNCHANGED tableVars /\ UNCHANGED streamVars /\ UNCHANGED clientVars
  BY DEF EmitSignal
<1>2. UpInv' /\ UpQuiet
  <2>1. frames' = frames /\ taken' = taken /\ link' = link
    BY <1>1 DEF dispatchVars, clientVars
  <2>2. \A i \in DOMAIN frames' : Announced(frames'[i].conn)
    BY <2>1, FramesAnnounced
  <2> QED
    BY <1>1, <2>1, <2>2, StreamsKept
<1>3. DownInv' /\ Channels!Send(clients \cap clients)
  BY <1>1, <1>2, CallToMaps
<1>4. clients \cap clients = Channels!Members
  BY MembersAre
<1>5. Channels!Send(Channels!Members)
  BY <1>3, <1>4
<1> QED
  BY <1>2, <1>3, <1>5 DEF Channels!Next

-----------------------------------------------------------------------------
(* The other steps of the server.                                          *)

LEMMA CalledMaps ==
    ASSUME CInv, Calling, UNCHANGED taken,
           UNCHANGED tableVars, UNCHANGED streamVars, UNCHANGED replyVars, UNCHANGED clientVars,
           \E b \in BOOLEAN : frames' = Replace([Called EXCEPT !.inside = b])
    PROVE  UpInv' /\ DownInv' /\ Channels!Next
<1>1. frames # <<>> /\ Called \in Frame
  BY CalledTop DEF CInv, RInv
<1>2. Called.conn = Top.conn
  <2>1. Top \in Frame
    BY <1>1, TopOfFrames DEF CInv, RInv
  <2> QED
    BY <2>1 DEF Called, Frame
<1>3. PICK b \in BOOLEAN : frames' = Replace([Called EXCEPT !.inside = b])
  OBVIOUS
<1>4. [Called EXCEPT !.inside = b] \in Frame /\ [Called EXCEPT !.inside = b].conn = Top.conn
  BY <1>1, <1>2 DEF Frame
<1> QED
  BY <1>1, <1>3, <1>4, LocalMaps

LEMMA SlotWaitsMaps == ASSUME CInv, SlotWaits PROVE UpInv' /\ DownInv' /\ Channels!Next
<1>1. /\ Calling /\ frames' = Replace([Called EXCEPT !.inside = TRUE]) /\ UNCHANGED taken
      /\ UNCHANGED tableVars /\ UNCHANGED streamVars /\ UNCHANGED replyVars /\ UNCHANGED clientVars
  BY DEF SlotWaits
<1> QED
  BY <1>1, CalledMaps

LEMMA SlotResumesMaps == ASSUME CInv, SlotResumes PROVE UpInv' /\ DownInv' /\ Channels!Next
<1>1. /\ frames # <<>> /\ frames' = Replace([Top EXCEPT !.inside = FALSE]) /\ UNCHANGED taken
      /\ UNCHANGED tableVars /\ UNCHANGED streamVars /\ UNCHANGED replyVars /\ UNCHANGED clientVars
  BY DEF SlotResumes
<1>2. Top \in Frame
  BY <1>1, TopOfFrames DEF CInv, RInv
<1>3. [Top EXCEPT !.inside = FALSE] \in Frame /\ [Top EXCEPT !.inside = FALSE].conn = Top.conn
  BY <1>2 DEF Frame
<1> QED
  BY <1>1, <1>3, LocalMaps

LEMMA SlotDisconnectsMaps ==
    ASSUME CInv, NEW k \in Conns, SlotDisconnects(k) PROVE UpInv' /\ DownInv' /\ Channels!Next
<1>1. /\ Calling /\ DisconnectClient(k) /\ frames' = Replace(Called) /\ UNCHANGED taken
      /\ UNCHANGED replyVars /\ UNCHANGED clientVars
  BY DEF SlotDisconnects
<1>2. frames # <<>> /\ Called \in Frame /\ Top \in Frame
  BY <1>1, CalledTop, TopOfFrames DEF CInv, RInv
<1>3. Called.conn = Top.conn
  BY <1>2 DEF Called, Frame
<1> QED
  BY <1>1, <1>2, <1>3, DisconnectMaps

LEMMA SlotDetachesMaps ==
    ASSUME CInv, NEW o \in Objects, SlotDetaches(o) PROVE UpInv' /\ DownInv' /\ Channels!Next
<1>1. /\ Calling /\ frames' = Replace(Called) /\ UNCHANGED taken
      /\ UNCHANGED tableVars /\ UNCHANGED streamVars /\ UNCHANGED replyVars /\ UNCHANGED clientVars
  BY DEF SlotDetaches
<1>2. frames # <<>> /\ Called \in Frame /\ Top \in Frame
  BY <1>1, CalledTop, TopOfFrames DEF CInv, RInv
<1>3. Called.conn = Top.conn
  BY <1>2 DEF Called, Frame
<1> QED
  BY <1>1, <1>2, <1>3, LocalMaps

LEMMA IdleMaps ==
    ASSUME CInv, BufferIsGone \/ ReceiverIsGone \/ NoneIsWhole \/ \E o \in Objects : AttachSlot(o) \/ SetFallbackSlot(o)
    PROVE  UpInv' /\ DownInv' /\ Channels!Next
<1>1. /\ frames' = frames \/ (frames # <<>> /\ frames' = Below)
      /\ UNCHANGED taken
      /\ UNCHANGED tableVars /\ UNCHANGED streamVars /\ UNCHANGED replyVars /\ UNCHANGED clientVars
  <2>1. CASE BufferIsGone
    BY <2>1 DEF BufferIsGone, Crash
  <2>2. CASE ReceiverIsGone
    BY <2>2 DEF ReceiverIsGone, Crash
  <2>3. CASE NoneIsWhole
    BY <2>3 DEF NoneIsWhole, Executing
  <2>4. CASE \E o \in Objects : AttachSlot(o)
    BY <2>4 DEF AttachSlot
  <2>5. CASE \E o \in Objects : SetFallbackSlot(o)
    BY <2>5 DEF SetFallbackSlot
  <2> QED
    BY <2>1, <2>2, <2>3, <2>4, <2>5
<1> QED
  BY <1>1, LocalMaps

LEMMA EventLoopMaps == ASSUME CInv, EventLoop PROVE UpInv' /\ DownInv' /\ Channels!Next
<1> DEFINE Maps == UpInv' /\ DownInv' /\ Channels!Next
<1> SUFFICES Maps
  OBVIOUS
<1>1. CASE BufferIsGone \/ ReceiverIsGone \/ NoneIsWhole BY <1>1, IdleMaps
<1>2. CASE DispatchMessage BY <1>2, DispatchMaps
<1>3. CASE SlotReturns BY <1>3, SlotReturnsMaps
<1>4. CASE SlotWaits BY <1>4, SlotWaitsMaps
<1>5. CASE SlotResumes BY <1>5, SlotResumesMaps
<1>6. ASSUME NEW k \in Conns, SlotDisconnects(k) PROVE Maps BY <1>6, SlotDisconnectsMaps
<1>7. ASSUME NEW o \in Objects, SlotDetaches(o) PROVE Maps BY <1>7, SlotDetachesMaps
<1>8. ASSUME NEW k \in Conns, Accept(k) PROVE Maps BY <1>8, AcceptMaps
<1>9. ASSUME NEW k \in Conns, Reject(k) PROVE Maps BY <1>9, RejectMaps
<1>10. ASSUME NEW k \in Conns, ReadyRead(k) PROVE Maps BY <1>10, ReadyReadMaps
<1>11. ASSUME NEW k \in Conns, ReceiveInside(k) PROVE Maps BY <1>11, ReceiveInsideMaps
<1> HIDE DEF Maps
<1> QED
  BY <1>1, <1>2, <1>3, <1>4, <1>5, <1>6, <1>7, <1>8, <1>9, <1>10, <1>11 DEF EventLoop, Loop

-----------------------------------------------------------------------------
(* The clients.                                                            *)

LEMMA ConnsPositive == \A k \in Conns : k # 0
  BY RpcServiceAssumption DEF Conns

LEMMA ServerUntouched ==
    ASSUME CInv, UNCHANGED dispatchVars, UNCHANGED tableVars, UNCHANGED streamVars,
           \A k \in Conns : link[k] # "new" => link'[k] # "new"
    PROVE  UpInv' /\ UpQuiet
<1>1. UNCHANGED upVars /\ UNCHANGED frames /\ UNCHANGED taken
  BY DEF dispatchVars, tableVars, streamVars, upVars
<1>2. \A i \in DOMAIN frames' : Announced(frames'[i].conn)
  BY <1>1, FramesAnnounced DEF CInv
<1>3. clients \subseteq Conns
  BY DEF CInv, RInv, TableTypes
<1> QED
  BY <1>1, <1>2, <1>3, UpKept DEF CInv, UpQuiet

LEMMA ConnectMaps == ASSUME CInv, NEW k \in Conns, Connect(k) PROVE UpInv' /\ DownInv' /\ Channels!Next
<1> USE DEF CInv
<1>1. /\ link[k] = "new" /\ link' = [link EXCEPT ![k] = "open"]
      /\ UNCHANGED dispatchVars /\ UNCHANGED tableVars /\ UNCHANGED streamVars
      /\ UNCHANGED <<toClient, device, serverBuffer, misframed, heard>>
  BY DEF Connect, replyVars
<1>2. UpInv' /\ UpQuiet
  BY <1>1, ServerUntouched DEF RInv, ClientTypes
<1>3. \A j \in Conns : DownStream(j)' = DownStream(j)
  BY <1>1 DEF DownStream, InServerBuffer
<1>4. Deaf' = Deaf
  <2>1. \A j \in Conns : link'[j] = "closed" <=> link[j] = "closed"
    BY <1>1 DEF RInv, ClientTypes
  <2> QED
    BY <1>1, <2>1 DEF Deaf
<1>5. DownQuiet
  BY <1>1, <1>3, <1>4 DEF DownQuiet, CallsDown
<1>6. DownInv'
  BY <1>1, <1>3 DEF DownInv, OneEach
<1> QED
  BY <1>2, <1>5, <1>6, QuietStep

\* The buffer that is read for a connection.
LEMMA ServerBufferOf ==
    ASSUME OneEach, NEW c \in Clients, NEW k \in Conns, device[c] = k
    PROVE  InServerBuffer(k) = serverBuffer[c] /\ DownStream(k) = serverBuffer[c] \o toClient[k]
<1>1. \A d \in Clients : device[d] = k => d = c
  BY ConnsPositive DEF OneEach
<1>2. InServerBuffer(k) = serverBuffer[c]
  BY <1>1 DEF InServerBuffer
<1> QED
  BY <1>2 DEF DownStream

LEMMA ServerBufferOfNext ==
    ASSUME OneEach', NEW c \in Clients, NEW k \in Conns, device'[c] = k
    PROVE  InServerBuffer(k)' = serverBuffer'[c] /\ DownStream(k)' = serverBuffer'[c] \o toClient'[k]
<1>1. \A d \in Clients : device'[d] = k => d = c
  BY ConnsPositive DEF OneEach
<1>2. InServerBuffer(k)' = serverBuffer'[c]
  BY <1>1 DEF InServerBuffer
<1> QED
  BY <1>2 DEF DownStream

LEMMA OtherStreams ==
    ASSUME OneEach, OneEach', NEW c \in Clients,
           \A d \in Clients \ {c} : device'[d] = device[d] /\ serverBuffer'[d] = serverBuffer[d],
           NEW k \in Conns, device[c] # k, device'[c] # k, toClient'[k] = toClient[k]
    PROVE  DownStream(k)' = DownStream(k)
<1>1. CASE \E d \in Clients : device[d] = k
  <2>1. PICK d \in Clients : device[d] = k
    BY <1>1
  <2>2. device'[d] = k /\ serverBuffer'[d] = serverBuffer[d]
    BY <2>1
  <2>3. DownStream(k) = serverBuffer[d] \o toClient[k]
    BY <2>1, ServerBufferOf
  <2>4. DownStream(k)' = serverBuffer'[d] \o toClient'[k]
    BY <2>2, ServerBufferOfNext
  <2> QED
    BY <2>2, <2>3, <2>4
<1>2. CASE ~ \E d \in Clients : device[d] = k
  <2>1. \A d \in Clients : device[d] # k /\ device'[d] # k
    BY <1>2
  <2>2. InServerBuffer(k) = <<>> /\ InServerBuffer(k)' = <<>>
    BY <2>1 DEF InServerBuffer
  <2> QED
    BY <2>2 DEF DownStream
<1> QED
  BY <1>1, <1>2

LEMMA NobodyReads ==
    ASSUME NEW k \in Conns, \A c \in Clients : device'[c] # k, toClient'[k] = <<>>
    PROVE  DownStream(k)' = <<>> /\ CallsIn(DownStream(k)') = <<>> /\ Framed(DownStream(k)')
<1>1. InServerBuffer(k)' = <<>> /\ <<>> \o <<>> = <<>>
  BY ConcatEmptySeq, EmptySeq DEF InServerBuffer
<1>2. DownStream(k)' = <<>>
  BY <1>1 DEF DownStream
<1> QED
  BY <1>2, CallsInNone DEF Framed

\* A client closes its connection, perhaps after a last call.
LEMMA EndMaps ==
    ASSUME CInv, NEW c \in Clients, NEW k \in Conns, device[c] = k, DisconnectServer(c),
           UNCHANGED dispatchVars, UNCHANGED tableVars, UNCHANGED streamVars, UNCHANGED misframed,
           \A d \in Clients \ {c} : serverBuffer'[d] = serverBuffer[d],
           heard' = heard \/ (CallsDown[k] # <<>> /\ heard' = heard + 1)
    PROVE  UpInv' /\ DownInv' /\ Channels!Next
<1> USE DEF CInv
<1>1. /\ device' = [device EXCEPT ![c] = 0]
      /\ link' = [link EXCEPT ![k] = "closed"]
      /\ toClient' = [toClient EXCEPT ![k] = <<>>]
  BY DEF DisconnectServer, Close
<1>2. UpInv' /\ UpQuiet
  BY <1>1, ServerUntouched DEF RInv, ClientTypes
<1>3. /\ device \in [Clients -> Conns \cup {0}] /\ link \in [Conns -> {"new", "open", "closed"}]
      /\ toClient \in [Conns -> Seq(Parts)]
  BY DEF RInv, ClientTypes, ReplyTypes
<1>4. OneEach /\ OneEach'
  BY <1>1, <1>3 DEF DownInv, OneEach
<1>5. \A d \in Clients : device'[d] # k
  BY <1>1, <1>3, <1>4, ConnsPositive DEF OneEach
<1>6. \A j \in Conns \ {k} : DownStream(j)' = DownStream(j)
  BY <1>1, <1>3, <1>4, <1>5, ConnsPositive, OtherStreams
<1>7. DownStream(k)' = <<>> /\ CallsIn(DownStream(k)') = <<>> /\ Framed(DownStream(k)')
  BY <1>1, <1>3, <1>5, NobodyReads
<1>8. DownInv'
  BY <1>4, <1>6, <1>7 DEF DownInv
<1>9. Deaf' = Deaf \cup {k}
  BY <1>1, <1>3 DEF Deaf
<1>10. CallsDown' = [j \in Conns |-> IF j \in {k} THEN <<>> ELSE CallsDown[j]]
  BY <1>6, <1>7 DEF CallsDown
<1>11. Channels!End({k})
  BY <1>2, <1>9, <1>10 DEF Channels!End, UpQuiet
<1> QED
  BY <1>2, <1>8, <1>11 DEF Channels!Next

LEMMA ClientDisconnectsMaps ==
    ASSUME CInv, NEW c \in Clients, ClientDisconnects(c) PROVE UpInv' /\ DownInv' /\ Channels!Next
<1>1. /\ device[c] # 0 /\ DisconnectServer(c)
      /\ UNCHANGED dispatchVars /\ UNCHANGED tableVars /\ UNCHANGED streamVars
      /\ UNCHANGED <<serverBuffer, misframed, heard>>
  BY DEF ClientDisconnects
<1>2. PICK k \in Conns : device[c] = k
  BY <1>1 DEF CInv, RInv, ClientTypes
<1> QED
  BY <1>1, <1>2, EndMaps

LEMMA SetDeviceMaps ==
    ASSUME CInv, NEW c \in Clients, NEW k \in Conns, SetDevice(c, k) PROVE UpInv' /\ DownInv' /\ Channels!Next
<1> USE DEF CInv
<1> DEFINE stale == serverBuffer[c] # <<>>
           silent == {j \in Conns : j = device[c] \/ (j = k /\ stale)}
<1>1. /\ link[k] = "open" /\ \A d \in Clients : device[d] # k
      /\ device' = [device EXCEPT ![c] = k]
      /\ misframed' = IF stale THEN misframed \cup {k} ELSE misframed
      /\ link' = [j \in Conns |-> IF j = device[c] THEN "closed" ELSE link[j]]
      /\ UNCHANGED dispatchVars /\ UNCHANGED tableVars /\ UNCHANGED streamVars /\ UNCHANGED heard
  BY DEF SetDevice, Unused
<1>2. PICK received \in Prefixes(toClient[k]) :
          /\ IF received # <<>> THEN ServerData(c, received) ELSE UNCHANGED <<serverBuffer, reading>>
          /\ toClient' = [j \in Conns |-> IF j = k THEN Without(toClient[k], received)
                                          ELSE IF j = device[c] THEN <<>> ELSE toClient[j]]
  BY DEF SetDevice
<1>3. /\ device \in [Clients -> Conns \cup {0}] /\ link \in [Conns -> {"new", "open", "closed"}]
      /\ serverBuffer \in [Clients -> Seq(Parts)] /\ toClient \in [Conns -> Seq(Parts)]
      /\ received \in Seq(Parts) /\ Without(toClient[k], received) \in Seq(Parts)
  BY PieceTypes DEF RInv, ClientTypes, ReplyTypes
<1>4. /\ serverBuffer'[c] = serverBuffer[c] \o received
      /\ \A d \in Clients \ {c} : serverBuffer'[d] = serverBuffer[d] /\ device'[d] = device[d]
  <2>1. CASE received # <<>>
    BY <1>1, <1>2, <1>3, <2>1 DEF ServerData
  <2>2. CASE received = <<>>
    <3>1. serverBuffer[c] \o <<>> = serverBuffer[c]
      BY <1>3, ConcatEmptySeq
    <3> QED
      BY <1>1, <1>2, <1>3, <2>2, <3>1
  <2> QED
    BY <2>1, <2>2
<1>5. UpInv' /\ UpQuiet
  BY <1>1, ServerUntouched
<1>6. OneEach /\ OneEach'
  BY <1>1, <1>3 DEF DownInv, OneEach
<1>7. ASSUME NEW j \in Conns, j # k, j # device[c]
      PROVE  DownStream(j)' = DownStream(j)
  <2>1. device'[c] # j /\ toClient'[j] = toClient[j]
    BY <1>1, <1>2, <1>3, <1>7
  <2> QED
    BY <1>4, <1>6, <1>7, <2>1, OtherStreams
<1>8. ASSUME NEW j \in Conns, j = device[c]
      PROVE  j # k /\ DownStream(j)' = <<>> /\ CallsIn(DownStream(j)') = <<>> /\ Framed(DownStream(j)')
  <2>1. j # k
    BY <1>1, <1>8
  <2>2. \A d \in Clients : device'[d] # j
    BY <1>1, <1>3, <1>6, <1>8, <2>1, ConnsPositive DEF OneEach
  <2>3. toClient'[j] = <<>>
    BY <1>2, <1>8, <2>1
  <2> QED
    BY <2>1, <2>2, <2>3, NobodyReads
<1>9. ~stale => DownStream(k)' = DownStream(k)
  <2> SUFFICES ASSUME ~stale PROVE DownStream(k)' = DownStream(k)
    OBVIOUS
  <2>1. DownStream(k)' = serverBuffer'[c] \o toClient'[k]
    BY <1>1, <1>3, <1>6, ServerBufferOfNext
  <2>2. InServerBuffer(k) = <<>>
    BY <1>1 DEF InServerBuffer
  <2>3. received \o Without(toClient[k], received) = toClient[k]
    BY <1>3, Divided
  <2>4. <<>> \o received = received /\ <<>> \o toClient[k] = toClient[k]
    BY <1>3, ConcatEmptySeq
  <2>5. serverBuffer'[c] = received /\ toClient'[k] = Without(toClient[k], received)
    BY <1>2, <1>4, <2>4
  <2> QED
    BY <2>1, <2>2, <2>3, <2>4, <2>5 DEF DownStream
<1>10. Deaf' = Deaf \cup silent
  BY <1>1, <1>3 DEF Deaf
<1>11. ASSUME NEW j \in Conns
       PROVE  CallsDown'[j] = IF j \in silent THEN <<>> ELSE CallsDown[j]
  <2>1. CASE j = device[c]
    BY <1>8, <2>1 DEF CallsDown
  <2>2. CASE j = k /\ stale
    BY <1>1, <2>2 DEF CallsDown
  <2>3. CASE j = k /\ ~stale
    <3>1. j \notin silent
      BY <1>1, <2>3
    <3> QED
      BY <1>1, <1>9, <2>3, <3>1 DEF CallsDown
  <2>4. CASE j # k /\ j # device[c]
    BY <1>1, <1>7, <2>4 DEF CallsDown
  <2> QED
    BY <2>1, <2>2, <2>3, <2>4
<1>12. DownInv'
  <2>1. ASSUME NEW j \in Conns, j \notin misframed' PROVE Framed(DownStream(j)')
    <3>1. CASE j = device[c]
      BY <1>8, <3>1
    <3>2. CASE j = k
      BY <1>1, <1>9, <2>1, <3>2 DEF DownInv
    <3>3. CASE j # k /\ j # device[c]
      BY <1>1, <1>7, <2>1, <3>3 DEF DownInv
    <3> QED
      BY <3>1, <3>2, <3>3
  <2> QED
    BY <1>6, <2>1 DEF DownInv
<1>13. Channels!End(silent)
  <2>1. CallsDown' = [j \in Conns |-> IF j \in silent THEN <<>> ELSE CallsDown[j]]
    <3> HIDE DEF silent
    <3> QED
      BY <1>11 DEF CallsDown
  <2> QED
    BY <1>1, <1>5, <1>10, <2>1 DEF Channels!End, UpQuiet
<1>14. silent \in SUBSET Conns
  OBVIOUS
<1> HIDE DEF silent
<1> QED
  BY <1>5, <1>12, <1>13, <1>14 DEF Channels!Next

LEMMA ClientCallsMaps ==
    ASSUME CInv, NEW c \in Clients, ClientCalls(c) PROVE UpInv' /\ DownInv' /\ Channels!Next
<1> USE DEF CInv
<1>1. PICK k \in Conns : device[c] = k
  BY DEF ClientCalls, RInv, ClientTypes
<1>2. /\ sentUp < MaxUp /\ sentUp' = sentUp + 1
      /\ toServer' = IF HasLeft(k) THEN toServer ELSE [toServer EXCEPT ![k] = @ \o Message(sentUp')]
      /\ UNCHANGED unread
      /\ UNCHANGED dispatchVars /\ UNCHANGED tableVars /\ UNCHANGED replyVars /\ UNCHANGED clientVars
  BY <1>1 DEF ClientCalls
<1>3. DownInv' /\ DownQuiet /\ UNCHANGED link
  BY <1>2, ClientsUntouched
<1>4. UNCHANGED <<frames, taken, clients, buffers, signals, rejected>>
  BY <1>2 DEF dispatchVars, tableVars
<1>5. \A i \in DOMAIN frames' : Announced(frames'[i].conn)
  BY <1>4, FramesAnnounced
<1>6. CASE HasLeft(k)
  <2>1. UNCHANGED upVars
    BY <1>2, <1>4, <1>6 DEF upVars
  <2>2. UpInv' /\ UpQuiet
    BY <1>3, <1>4, <1>5, <2>1, UpKept DEF UpQuiet
  <2> QED
    BY <1>3, <2>2, QuietStep
<1>7. CASE ~HasLeft(k)
  <2> DEFINE n == sentUp'
             m == Message(n)
  <2>1. n \in Numbers /\ n \in 1 .. MaxUp + MaxDown
    <3>1. MaxUp \in Nat /\ MaxDown \in Nat /\ sentUp \in 0 .. MaxUp
      BY RpcServiceAssumption DEF StreamTypes, RInv
    <3> QED
      BY <1>2, <3>1 DEF Numbers
  <2>2. m \in Seq(Parts)
    BY <2>1, MessageType
  <2>3. /\ toServer'[k] = toServer[k] \o m
        /\ \A j \in Conns \ {k} : toServer'[j] = toServer[j]
    BY <1>2, <1>7 DEF RInv, StreamTypes
  <2>4. \A j \in Conns : InBuffer(j)' = InBuffer(j) /\ unread'[j] = unread[j]
    BY <1>2, <1>4 DEF InBuffer
  <2>5. UpStream(k)' = UpStream(k) \o m
    <3> DEFINE a == InBuffer(k) \o unread[k]
    <3>1. a \in Seq(Parts) /\ toServer[k] \in Seq(Parts)
      BY Streams, ConcatProperties
    <3>2. UpStream(k)' = a \o (toServer[k] \o m)
      BY <2>3, <2>4 DEF UpStream
    <3>3. UpStream(k) = a \o toServer[k]
      BY DEF UpStream
    <3> HIDE DEF a, m
    <3>4. (a \o toServer[k]) \o m = a \o (toServer[k] \o m)
      BY <2>2, <3>1, Regrouped
    <3> QED
      BY <3>2, <3>3, <3>4
  <2>6. \A j \in Conns \ {k} : UpStream(j)' = UpStream(j)
    BY <2>3, <2>4 DEF UpStream
  <2>7. UpStream(k) \in Seq(Parts) /\ Framed(UpStream(k))
    BY Streams DEF UpInv
  <2>8. CallsIn(UpStream(k)') = Append(CallsIn(UpStream(k)), n)
    BY <2>1, <2>5, <2>7, CallsOfMessage
  <2>9. Framed(UpStream(k)')
    BY <2>1, <2>5, <2>7, FramedByMessage
  <2>10. Stages' = Stages /\ Stages[k] # "left"
    BY <1>4, <1>7 DEF Stages, HasLeft
  <2>11. CallsUp' = [CallsUp EXCEPT ![k] = Append(@, n)]
    <3> HIDE DEF n
    <3> QED
      BY <2>6, <2>8 DEF CallsUp
  <2>12. Channels!Call(k)
    BY <1>3, <1>4, <2>1, <2>10, <2>11 DEF Channels!Call, DownQuiet
  <2>13. UpInv'
    <3>1. (\A j \in Conns : Framed(UpStream(j)')) /\ \A j \in Conns \ clients' : unread'[j] = <<>>
      BY <1>4, <2>4, <2>6, <2>9 DEF UpInv
    <3>2. (\A j \in clients : link[j] # "new")'
      BY <1>3, <1>4 DEF UpInv
    <3>3. (\A i \in DOMAIN frames : Announced(frames[i].conn))'
      BY <1>4, <1>5 DEF Announced
    <3> QED
      BY <3>1, <3>2, <3>3 DEF UpInv
  <2> QED
    BY <1>3, <2>12, <2>13 DEF Channels!Next
<1> QED
  BY <1>6, <1>7

LEMMA ClientReadyReadMaps ==
    ASSUME CInv, NEW c \in Clients, ClientReadyRead(c) PROVE UpInv' /\ DownInv' /\ Channels!Next
<1> USE DEF CInv
<1>1. PICK k \in Conns : device[c] = k
  BY DEF ClientReadyRead, RInv, ClientTypes
<1>2. /\ UNCHANGED dispatchVars /\ UNCHANGED tableVars /\ UNCHANGED streamVars
      /\ UNCHANGED <<link, device, heard, misframed>>
  BY DEF ClientReadyRead
<1>3. PICK received \in Prefixes(toClient[k]) \ {<<>>} :
          ServerData(c, received) /\ toClient' = [toClient EXCEPT ![k] = Without(@, received)]
  BY <1>1 DEF ClientReadyRead
<1>4. /\ device \in [Clients -> Conns \cup {0}] /\ toClient \in [Conns -> Seq(Parts)]
      /\ serverBuffer \in [Clients -> Seq(Parts)]
      /\ received \in Seq(Parts) /\ Without(toClient[k], received) \in Seq(Parts)
  BY PieceTypes DEF RInv, ClientTypes, ReplyTypes
<1>5. /\ serverBuffer'[c] = serverBuffer[c] \o received
      /\ \A d \in Clients \ {c} : serverBuffer'[d] = serverBuffer[d]
  BY <1>3, <1>4 DEF ServerData
<1>6. UpInv' /\ UpQuiet
  BY <1>2, ServerUntouched
<1>7. OneEach /\ OneEach'
  BY <1>2 DEF DownInv, OneEach
<1>8. DownStream(k)' = DownStream(k)
  <2> DEFINE rest == Without(toClient[k], received)
             b == serverBuffer[c]
  <2>1. DownStream(k) = serverBuffer[c] \o toClient[k]
    BY <1>1, <1>7, ServerBufferOf
  <2>2. DownStream(k)' = serverBuffer'[c] \o toClient'[k]
    BY <1>1, <1>2, <1>7, ServerBufferOfNext
  <2>3. toClient'[k] = rest /\ rest \in Seq(Parts) /\ received \o rest = toClient[k]
    BY <1>3, <1>4, Divided
  <2>4. b \in Seq(Parts) /\ received \in Seq(Parts)
    BY <1>4
  <2> HIDE DEF rest, b
  <2>5. (b \o received) \o rest = b \o (received \o rest)
    BY <2>3, <2>4, Regrouped
  <2> QED
    BY <1>5, <2>1, <2>2, <2>3, <2>5 DEF b
<1>9. \A j \in Conns \ {k} : DownStream(j)' = DownStream(j)
  BY <1>1, <1>2, <1>3, <1>4, <1>5, <1>7, OtherStreams
<1>10. DownQuiet
  BY <1>2, <1>8, <1>9 DEF DownQuiet, Deaf, CallsDown
<1>11. DownInv'
  BY <1>2, <1>7, <1>8, <1>9 DEF DownInv
<1> QED
  BY <1>6, <1>10, <1>11, QuietStep

LEMMA ClientDispatchesMaps ==
    ASSUME CInv, NEW c \in Clients, ClientDispatches(c) PROVE UpInv' /\ DownInv' /\ Channels!Next
<1> USE DEF CInv
<1>1. UNCHANGED dispatchVars /\ UNCHANGED tableVars /\ UNCHANGED streamVars /\ UNCHANGED misframed
  BY DEF ClientDispatches
<1>2. CASE ~CanDeserialize(serverBuffer[c])
  <2>1. UNCHANGED downVars /\ UNCHANGED heard /\ UNCHANGED link
    BY <1>1, <1>2 DEF ClientDispatches, downVars
  <2>2. DownInv' /\ DownQuiet
    BY <2>1, DownKept DEF DownQuiet
  <2>3. UpInv' /\ UpQuiet
    BY <1>1, <2>1, ServerUntouched
  <2> QED
    BY <2>2, <2>3, QuietStep
<1>3. CASE CanDeserialize(serverBuffer[c])
  <2>1. /\ serverBuffer' = [serverBuffer EXCEPT ![c] = Rest(@)]
        /\ heard' = IF device[c] \in Conns \ misframed THEN heard + 1 ELSE heard
    BY <1>3 DEF ClientDispatches
  <2>2. PICK kind \in Deserialized(serverBuffer[c], {"call"}) :
            \/ kind # "bad" /\ UNCHANGED <<link, device, toClient>>
            \/ kind # "noop" /\ device[c] # 0 /\ DisconnectServer(c)
            \/ kind = "bad" /\ device[c] = 0 /\ UNCHANGED <<link, device, toClient>>
    BY <1>3 DEF ClientDispatches
  <2>3. /\ device \in [Clients -> Conns \cup {0}] /\ toClient \in [Conns -> Seq(Parts)]
        /\ serverBuffer \in [Clients -> Seq(Parts)]
    BY DEF RInv, ClientTypes, ReplyTypes
  <2>4. \A d \in Clients \ {c} : serverBuffer'[d] = serverBuffer[d]
    BY <2>1, <2>3
  <2>5. serverBuffer'[c] = Rest(serverBuffer[c])
    BY <2>1, <2>3
  <2>6. CASE device[c] = 0
    <3>1. UNCHANGED <<link, device, toClient>> /\ UNCHANGED heard
      <4>1. 0 \notin Conns
        BY ConnsPositive
      <4> QED
        BY <2>1, <2>2, <2>6, <4>1
    <3>2. UpInv' /\ UpQuiet
      BY <1>1, <3>1, ServerUntouched
    <3>3. OneEach /\ OneEach'
      BY <3>1 DEF DownInv, OneEach
    <3>4. \A j \in Conns : DownStream(j)' = DownStream(j)
      BY <2>4, <2>6, <3>1, <3>3, ConnsPositive, OtherStreams
    <3>5. DownQuiet
      BY <1>1, <3>1, <3>4 DEF DownQuiet, Deaf, CallsDown
    <3>6. DownInv'
      BY <1>1, <3>3, <3>4 DEF DownInv
    <3> QED
      BY <3>2, <3>5, <3>6, QuietStep
  <2>7. CASE device[c] # 0
    <3>1. PICK k \in Conns : device[c] = k
      BY <2>3, <2>7
    <3>2. OneEach
      BY DEF DownInv
    <3>3. /\ serverBuffer[c] \in Seq(Parts) /\ toClient[k] \in Seq(Parts)
          /\ DownStream(k) = serverBuffer[c] \o toClient[k]
      BY <2>3, <3>1, <3>2, ServerBufferOf
    <3> DEFINE b == serverBuffer[c]
               t == toClient[k]
               w == DownStream(k)
    <3>4. /\ b \in Seq(Parts) /\ t \in Seq(Parts) /\ w = b \o t /\ CanDeserialize(b)
      BY <1>3, <3>3
    <3>5. k \notin misframed => Framed(w)
      BY DEF DownInv
    <3>6. /\ Rest(b) \o t = Rest(w) /\ w \in Seq(Parts) /\ Len(w) >= 2 /\ w[1] = b[1]
      <4> HIDE DEF b, t, w
      <4> QED
        BY <3>4, RestOfConcat
    <3>7. k \notin misframed =>
             /\ w[1].part = "length" /\ Framed(Rest(w))
             /\ CallsIn(w) # <<>> /\ CallsIn(Rest(w)) = Tail(CallsIn(w))
      <4> HIDE DEF w
      <4> QED
        BY <3>5, <3>6, FirstMessage
    <3>8. heard' = heard \/ (CallsDown[k] # <<>> /\ heard' = heard + 1)
      BY <2>1, <3>1, <3>7 DEF CallsDown
    <3>9. CASE DisconnectServer(c)
      BY <1>1, <2>4, <3>1, <3>8, <3>9, EndMaps
    <3>10. CASE UNCHANGED <<link, device, toClient>>
      <4>1. UpInv' /\ UpQuiet
        BY <1>1, <3>10, ServerUntouched
      <4>2. OneEach'
        BY <3>2, <3>10 DEF OneEach
      <4>3. \A j \in Conns \ {k} : DownStream(j)' = DownStream(j)
        BY <2>4, <3>1, <3>2, <3>10, <4>2, OtherStreams
      <4>4. DownStream(k)' = Rest(w)
        <5>1. DownStream(k)' = serverBuffer'[c] \o toClient'[k]
          BY <3>1, <3>10, <4>2, ServerBufferOfNext
        <5> QED
          BY <2>5, <3>6, <3>10, <5>1
      <4>5. DownInv'
        <5>1. ASSUME NEW j \in Conns, j \notin misframed' PROVE Framed(DownStream(j)')
          <6>1. CASE j = k
            <7>1. k \notin misframed
              BY <1>1, <5>1, <6>1
            <7> HIDE DEF w
            <7> QED
              BY <3>7, <4>4, <6>1, <7>1
          <6>2. CASE j # k
            BY <1>1, <4>3, <5>1, <6>2 DEF DownInv
          <6> QED
            BY <6>1, <6>2
        <5> QED
          BY <4>2, <5>1 DEF DownInv
      <4>6. Deaf' = Deaf
        BY <1>1, <3>10 DEF Deaf
      <4>7. CASE k \in misframed
        <5>1. CallsDown' = CallsDown
          BY <1>1, <4>3, <4>7 DEF CallsDown
        <5>2. heard' = heard
          BY <2>1, <3>1, <4>7
        <5> QED
          BY <4>1, <4>5, <4>6, <5>1, <5>2, QuietStep DEF DownQuiet
      <4>8. CASE k \notin misframed
        <5>1. CallsIn(DownStream(k)') = Tail(CallsIn(DownStream(k))) /\ CallsIn(DownStream(k)) # <<>>
          <6> HIDE DEF w
          <6>1. CallsIn(w) # <<>> /\ CallsIn(DownStream(k)') = Tail(CallsIn(w))
            BY <3>7, <4>4, <4>8
          <6> QED
            BY <6>1 DEF w
        <5>2. CallsDown' = [CallsDown EXCEPT ![k] = Tail(@)] /\ CallsDown[k] # <<>>
          BY <1>1, <4>3, <4>8, <5>1 DEF CallsDown
        <5>3. heard' = heard + 1
          BY <2>1, <3>1, <4>8
        <5>4. Channels!Hear(k)
          BY <4>1, <4>6, <5>2, <5>3 DEF Channels!Hear, UpQuiet
        <5> QED
          BY <4>1, <4>5, <5>4 DEF Channels!Next
      <4> QED
        BY <4>7, <4>8
    <3> QED
      BY <2>2, <3>9, <3>10
  <2> QED
    BY <2>6, <2>7
<1> QED
  BY <1>2, <1>3

-----------------------------------------------------------------------------
(* The refinement.                                                         *)

LEMMA ChannelsInitially == ASSUME Init PROVE UpInv /\ DownInv /\ Channels!Init
<1>1. <<>> \o <<>> = <<>>
  BY ConcatEmptySeq, EmptySeq
<1>2. ASSUME NEW k \in Conns PROVE UpStream(k) = <<>> /\ DownStream(k) = <<>>
  <2>1. InBuffer(k) = <<>> /\ unread[k] = <<>> /\ toServer[k] = <<>> /\ toClient[k] = <<>>
    BY DEF Init, InBuffer
  <2>2. InServerBuffer(k) = <<>>
    BY ConnsPositive DEF Init, InServerBuffer
  <2> QED
    BY <1>1, <2>1, <2>2 DEF UpStream, DownStream
<1>3. \A k \in Conns : CallsIn(UpStream(k)) = <<>> /\ CallsIn(DownStream(k)) = <<>>
  BY <1>2, CallsInNone
<1>4. UpInv
  <2>1. DOMAIN frames = {}
    BY EmptySeq, LenProperties DEF Init
  <2> QED
    BY <1>2, <2>1 DEF Init, UpInv, Framed
<1>5. DownInv
  BY <1>2 DEF Init, DownInv, OneEach, Framed
<1>6. Stages = [k \in Conns |-> "new"] /\ Deaf = {} /\ taken = 0 /\ heard = 0
  BY DEF Init, Stages, Deaf
<1>7. CallsUp = [k \in Conns |-> <<>>] /\ CallsDown = [k \in Conns |-> <<>>]
  BY <1>3 DEF CallsUp, CallsDown
<1> QED
  BY <1>4, <1>5, <1>6, <1>7 DEF Channels!Init

LEMMA ChannelsKept == ASSUME CInv, UNCHANGED vars PROVE UpInv' /\ DownInv' /\ UNCHANGED Channels!vars
<1>1. /\ UNCHANGED dispatchVars /\ UNCHANGED tableVars /\ UNCHANGED streamVars
      /\ UNCHANGED replyVars /\ UNCHANGED clientVars
  BY DEF vars
<1>2. DownInv' /\ DownQuiet /\ UNCHANGED link
  BY <1>1, ClientsUntouched
<1>3. UpInv' /\ UpQuiet
  BY <1>1, <1>2, ServerUntouched
<1> QED
  BY <1>2, <1>3 DEF UpQuiet, DownQuiet, Channels!vars

LEMMA NextMaps == ASSUME CInv, Next PROVE UpInv' /\ DownInv' /\ Channels!Next
<1> DEFINE Maps == UpInv' /\ DownInv' /\ Channels!Next
<1> SUFFICES Maps
  OBVIOUS
<1>1. CASE EventLoop BY <1>1, EventLoopMaps
<1>2. ASSUME NEW k \in Conns, ServerNoticesEnd(k) PROVE Maps BY <1>2, ServerNoticesEndMaps
<1>3. ASSUME NEW o \in Objects, AttachSlot(o) \/ SetFallbackSlot(o) PROVE Maps BY <1>3, IdleMaps
<1>4. CASE EmitSignal BY <1>4, EmitSignalMaps
<1>5. ASSUME NEW k \in Conns, Connect(k) PROVE Maps BY <1>5, ConnectMaps
<1>6. ASSUME NEW k \in Conns, NEW c \in Clients, SetDevice(c, k) PROVE Maps BY <1>6, SetDeviceMaps
<1>7. ASSUME NEW c \in Clients, ClientCalls(c) PROVE Maps BY <1>7, ClientCallsMaps
<1>8. ASSUME NEW c \in Clients, ClientDisconnects(c) PROVE Maps BY <1>8, ClientDisconnectsMaps
<1>9. ASSUME NEW c \in Clients, ClientReadyRead(c) PROVE Maps BY <1>9, ClientReadyReadMaps
<1>10. ASSUME NEW c \in Clients, ClientDispatches(c) PROVE Maps BY <1>10, ClientDispatchesMaps
<1> HIDE DEF Maps
<1> QED
  BY <1>1, <1>2, <1>3, <1>4, <1>5, <1>6, <1>7, <1>8, <1>9, <1>10 DEF Next, ClientLoop

\* Each call of a client is taken by the server once and in the order the
\* clients made them, and each call of the server by the clients it was meant
\* for, however the bytes arrive and whatever the slots do: every step of
\* QxtRPCService is a step of CallChannels or changes nothing of it.
THEOREM CallsStayInOrder == Spec => CallsTravelInOrder
<1>1. Init => UpInv /\ DownInv /\ Channels!Init
  BY ChannelsInitially
<1>2. RInv /\ RInv' /\ UpInv /\ DownInv /\ [Next]_vars => UpInv' /\ DownInv' /\ [Channels!Next]_(Channels!vars)
  <2>1. ASSUME RInv, RInv', UpInv, DownInv, Next PROVE UpInv' /\ DownInv' /\ Channels!Next
    BY <2>1, NextMaps DEF CInv
  <2>2. ASSUME RInv, RInv', UpInv, DownInv, UNCHANGED vars PROVE UpInv' /\ DownInv' /\ UNCHANGED Channels!vars
    BY <2>2, ChannelsKept DEF CInv
  <2> QED
    BY <2>1, <2>2
<1> QED
  BY <1>1, <1>2, InvariantAlways, PTL DEF Spec, CallsTravelInOrder, Channels!Spec
=============================================================================
