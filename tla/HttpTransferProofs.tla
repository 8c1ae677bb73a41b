------------------------ MODULE HttpTransferProofs -------------------------
(***************************************************************************)
(* Proofs about HttpTransfer, for every number of requests and every       *)
(* length of their responses.                                              *)
(*                                                                         *)
(* The inductive invariant Inv relates the parts of a connection: what is  *)
(* still to be parsed (RequestsOK), what was written and by which source   *)
(* (WireOK), and who will notice that the response at its end is over      *)
(* (TransferOK): a queued call, a handler of the source that is still to   *)
(* end, or bytesWritten().  The handlers are proved one lemma each, from   *)
(* what each adds to the wire and which calls it removes; what Without()   *)
(* keeps of the queued calls is found by induction on their number.        *)
(***************************************************************************)
EXTENDS HttpTransfer, SequenceTheorems, WellFoundedInduction, TLAPS

-----------------------------------------------------------------------------
(* Induction.                                                              *)

LEMMA LeastNumber ==
    ASSUME NEW T, T \subseteq Nat, T # {}
    PROVE  \E x \in T : \A y \in T : x <= y
<1>1. PICK x \in T : \A y \in T : ~(<<y, x>> \in OpToRel(<, Nat))
  BY WFMin, NatLessThanWellFounded, Zenon
<1>2. \A y \in T : ~(y < x)
  BY <1>1 DEF OpToRel
<1>3. \A y \in T : x <= y
  <2> SUFFICES ASSUME NEW y \in T PROVE x <= y
    OBVIOUS
  <2>1. x \in Nat /\ y \in Nat
    OBVIOUS
  <2>2. ~(y < x)
    BY <1>2
  <2> QED
    BY <2>1, <2>2
<1> QED
  BY <1>3

LEMMA Induction ==
    ASSUME NEW T, 0 \in T, \A n \in Nat : n \in T => n + 1 \in T
    PROVE  Nat \subseteq T
<1> SUFFICES ASSUME Nat \ T # {} PROVE FALSE
  OBVIOUS
<1>1. PICK x \in Nat \ T : \A y \in Nat \ T : x <= y
  BY LeastNumber
<1>2. x # 0
  BY <1>1
<1>3. x - 1 \in Nat /\ x - 1 + 1 = x /\ ~(x <= x - 1)
  BY <1>1, <1>2
<1>4. x - 1 \in T
  BY <1>1, <1>3
<1> QED
  BY <1>1, <1>3, <1>4

-----------------------------------------------------------------------------
(* What Without() keeps.                                                   *)

KeptUpTo(calls, ops, kept, n) ==
    IF n = 0 THEN <<>>
    ELSE IF calls[n].op \in ops THEN kept[n - 1]
    ELSE Append(kept[n - 1], calls[n])

LEMMA KeptExists ==
    \A calls, ops : \A N \in Nat : \E kept : kept = [n \in 0 .. N |-> KeptUpTo(calls, ops, kept, n)]
<1> TAKE calls, ops
<1> DEFINE T == {N \in Nat : \E kept : kept = [n \in 0 .. N |-> KeptUpTo(calls, ops, kept, n)]}
<1>1. 0 \in T
  <2>1. [n \in 0 .. 0 |-> <<>>] = [n \in 0 .. 0 |-> KeptUpTo(calls, ops, [m \in 0 .. 0 |-> <<>>], n)]
    BY DEF KeptUpTo
  <2> QED
    BY <2>1
<1>2. ASSUME NEW N \in Nat, N \in T PROVE N + 1 \in T
  <2>1. PICK f : f = [n \in 0 .. N |-> KeptUpTo(calls, ops, f, n)]
    BY <1>2
  <2> DEFINE g == [n \in 0 .. N + 1 |-> IF n = N + 1 THEN KeptUpTo(calls, ops, f, N + 1) ELSE f[n]]
  <2>2. \A n \in 0 .. N + 1 : g[n] = KeptUpTo(calls, ops, g, n)
    <3> SUFFICES ASSUME NEW n \in 0 .. N + 1 PROVE g[n] = KeptUpTo(calls, ops, g, n)
      OBVIOUS
    <3>1. n # 0 => g[n - 1] = f[n - 1]
      OBVIOUS
    <3>2. CASE n = N + 1
      BY <3>1, <3>2 DEF KeptUpTo
    <3>3. CASE n \in 0 .. N
      <4>1. f[n] = KeptUpTo(calls, ops, f, n)
        BY <2>1, <3>3
      <4> QED
        BY <3>1, <3>3, <4>1 DEF KeptUpTo
    <3> QED
      BY <3>2, <3>3
  <2>3. g = [n \in 0 .. N + 1 |-> KeptUpTo(calls, ops, g, n)]
    <3>1. g = [n \in 0 .. N + 1 |-> g[n]]
      OBVIOUS
    <3> HIDE DEF g
    <3> QED
      BY <2>2, <3>1
  <2> HIDE DEF g
  <2> QED
    BY <2>3
<1> HIDE DEF T
<1>3. Nat \subseteq T
  BY <1>1, <1>2, Induction
<1> QED
  BY <1>3 DEF T

LEMMA WithoutKeeps ==
    ASSUME NEW S, NEW calls \in Seq(S), NEW ops
    PROVE  /\ Without(calls, ops) \in Seq(S)
           /\ \A i \in DOMAIN Without(calls, ops) : \E j \in DOMAIN calls :
                 Without(calls, ops)[i] = calls[j] /\ calls[j].op \notin ops
<1> DEFINE kept == CHOOSE f : f = [n \in 0 .. Len(calls) |-> KeptUpTo(calls, ops, f, n)]
           From(s) == s \in Seq(S) /\ \A i \in DOMAIN s : \E j \in DOMAIN calls :
                         s[i] = calls[j] /\ calls[j].op \notin ops
           T == {n \in Nat : n <= Len(calls) => From(kept[n])}
<1>1. Without(calls, ops) = kept[Len(calls)]
  BY DEF Without, KeptUpTo
<1>2. kept = [n \in 0 .. Len(calls) |-> KeptUpTo(calls, ops, kept, n)]
  <2>1. Len(calls) \in Nat
    OBVIOUS
  <2>2. \E f : f = [n \in 0 .. Len(calls) |-> KeptUpTo(calls, ops, f, n)]
    BY <2>1, KeptExists, Zenon
  <2> QED
    BY <2>2, Zenon
<1> HIDE DEF kept
<1>3. 0 \in T
  <2>1. 0 \in 0 .. Len(calls)
    OBVIOUS
  <2>2. kept[0] = KeptUpTo(calls, ops, kept, 0)
    BY <1>2, <2>1
  <2>3. kept[0] = <<>>
    BY <2>2 DEF KeptUpTo
  <2>4. From(<<>>)
    OBVIOUS
  <2> HIDE DEF From
  <2> QED
    BY <2>3, <2>4
<1>4. ASSUME NEW n \in Nat, n \in T PROVE n + 1 \in T
  <2> SUFFICES ASSUME n + 1 <= Len(calls) PROVE From(kept[n + 1])
    OBVIOUS
  <2>1. kept[n + 1] = IF calls[n + 1].op \in ops THEN kept[n] ELSE Append(kept[n], calls[n + 1])
    <3>1. n + 1 \in 0 .. Len(calls) /\ n + 1 # 0 /\ n + 1 - 1 = n
      OBVIOUS
    <3>2. kept[n + 1] = KeptUpTo(calls, ops, kept, n + 1)
      BY <1>2, <3>1
    <3> QED
      BY <3>1, <3>2 DEF KeptUpTo
  <2>2. From(kept[n])
    BY <1>4
  <2>3. calls[n + 1] \in S /\ n + 1 \in DOMAIN calls
    OBVIOUS
  <2>4. CASE calls[n + 1].op \in ops
    BY <2>1, <2>2, <2>4
  <2>5. CASE calls[n + 1].op \notin ops
    <3> DEFINE s == kept[n]
    <3>1. kept[n + 1] = Append(s, calls[n + 1])
      BY <2>1, <2>5
    <3>2. s \in Seq(S) /\ \A i \in DOMAIN s : \E j \in DOMAIN calls : s[i] = calls[j] /\ calls[j].op \notin ops
      BY <2>2
    <3> HIDE DEF s
    <3> QED
      BY <2>3, <2>5, <3>1, <3>2
  <2> QED
    BY <2>4, <2>5
<1>5. Len(calls) \in T
  <2> HIDE DEF T
  <2> QED
    BY <1>3, <1>4, Induction
<1> QED
  BY <1>1, <1>5

\* The first head of a sequence.
LEMMA FirstHead ==
    ASSUME NEW S, NEW s \in Seq(S), \E i \in DOMAIN s : IsHead(s[i])
    PROVE  /\ SelectInSeq(s, IsHead) \in DOMAIN s
           /\ IsHead(s[SelectInSeq(s, IsHead)])
           /\ \A i \in DOMAIN s : IsHead(s[i]) => SelectInSeq(s, IsHead) <= i
<1> DEFINE I == {i \in 1 .. Len(s) : IsHead(s[i])}
<1>1. I # {} /\ I \subseteq Nat
  OBVIOUS
<1>2. \E x \in I : \A y \in I : x <= y
  <2> HIDE DEF I
  <2> QED
    BY <1>1, LeastNumber
<1>3. SelectInSeq(s, IsHead) = Min(I)
  BY <1>1 DEF SelectInSeq
<1>4. Min(I) \in I /\ \A y \in I : Min(I) <= y
  BY <1>2 DEF Min
<1> QED
  BY <1>3, <1>4

-----------------------------------------------------------------------------
(* Types.                                                                  *)

Words == Heads \cup {"body"}

Connections ==
    [device : {"open", "closing", "gone"}, buffer : Seq(Words), content : Nat,
     needs : {0, 1, All}, parsed : Nat, onBytesWritten : 0 .. MaxRequests,
     onSource : 0 .. MaxRequests, finished : BOOLEAN, keepAlive : BOOLEAN,
     streaming : BOOLEAN, chunked : BOOLEAN, sourceClosed : BOOLEAN,
     readyRead : BOOLEAN, old : BOOLEAN, calls : Seq(Calls), toWrite : BOOLEAN,
     wire : Seq(Tokens), sent : Nat, final : BOOLEAN, pipelined : BOOLEAN,
     garbled : BOOLEAN, dropped : BOOLEAN, aborted : BOOLEAN]

Sources ==
    [kind : SourceKinds \cup {"none"}, chunked : BOOLEAN, avail : Nat, left : Nat,
     ended : BOOLEAN, early : BOOLEAN, lost : BOOLEAN]

Types ==
    /\ conn \in Connections
    /\ source \in [Rids -> Sources]
    /\ pages \in Seq(Rids)
    /\ net \in Seq(Words)

LEMMA NewConnectionType == NewConnection \in Connections
BY HttpTransferAssumption DEF NewConnection, Connections

LEMMA WriteType ==
    ASSUME NEW c \in Connections, NEW tok \in {"header", "data", "last"}, NEW r \in Rids
    PROVE  Write(c, tok, r) \in Connections
<1>1. [tok |-> tok, rid |-> r] \in Tokens
  BY DEF Tokens
<1>2. Append(c.wire, [tok |-> tok, rid |-> r]) \in Seq(Tokens)
  BY <1>1 DEF Connections
<1> QED
  BY <1>2 DEF Write, Connections

LEMMA DropCallsType ==
    ASSUME NEW c \in Connections, NEW ops
    PROVE  DropCalls(c, ops) \in Connections
<1>1. c.calls \in Seq(Calls)
  BY DEF Connections
<1>2. Without(c.calls, ops) \in Seq(Calls)
  BY <1>1, WithoutKeeps
<1> QED
  BY <1>2 DEF DropCalls, Connections

LEMMA UnboundType ==
    ASSUME NEW c \in Connections
    PROVE  /\ [c EXCEPT !.onBytesWritten = 0] \in Connections
           /\ [c EXCEPT !.onBytesWritten = 0, !.onSource = 0] \in Connections
<1>1. 0 \in 0 .. MaxRequests
  BY HttpTransferAssumption
<1> QED
  BY <1>1 DEF Connections

LEMMA ClearHandlersType ==
    ASSUME NEW c \in Connections
    PROVE  ClearHandlers(c) \in Connections
<1>1. DropCalls(c, {"written", "ready", "closed"}) \in Connections
  BY DropCallsType
<1> QED
  BY <1>1, UnboundType DEF ClearHandlers

LEMMA DisconnectedType ==
    ASSUME NEW c \in Connections
    PROVE  Disconnected(c) \in Connections
<1>1. ClearHandlers(c) \in Connections
  BY ClearHandlersType
<1> QED
  BY <1>1, NewConnectionType DEF Disconnected, Connections

LEMMA CloseConnectionType ==
    ASSUME NEW c \in Connections
    PROVE  CloseConnection(c) \in Connections
<1> DEFINE d == [c EXCEPT !.finished = TRUE, !.device = "closing"]
<1>1. d \in Connections
  BY DEF Connections
<1>2. Disconnected(d) \in Connections
  BY <1>1, DisconnectedType
<1> QED
  BY <1>1, <1>2 DEF CloseConnection

LEMMA NewRequestType ==
    ASSUME NEW c \in Connections, \E i \in DOMAIN c.buffer : IsHead(c.buffer[i])
    PROVE  NewRequest(c) \in Connections
<1> DEFINE i == SelectInSeq(c.buffer, IsHead)
           head == c.buffer[i]
           rest == SubSeq(c.buffer, i + 1, Len(c.buffer))
           waits == head = "close" \/ (head = "post" /\ rest = <<>>)
           buffer == IF head = "close" \/ rest = <<>> THEN <<>>
                     ELSE IF head = "post" THEN Tail(rest) ELSE rest
           calls == IF head = "post" /\ Len(rest) > 1
                    THEN Append(c.calls, [op |-> "incoming", rid |-> 0]) ELSE c.calls
           parsed == c.parsed + 1
           content == IF waits THEN c.parsed + 1 ELSE 0
           needs == IF ~waits THEN 0 ELSE IF head = "close" THEN All ELSE 1
           garbled == c.garbled \/ i > 1
           keepAlive == head \in {"get", "post"}
           old == head = "old"
<1>1. c.buffer \in Seq(Words) /\ c.calls \in Seq(Calls) /\ c.parsed \in Nat
  BY DEF Connections
<1>2. i \in DOMAIN c.buffer
  BY <1>1, FirstHead
<1>3. rest \in Seq(Words)
  BY <1>1, <1>2, SubSeqProperties
<1>4. buffer \in Seq(Words)
  <2> HIDE DEF rest, head
  <2> QED
    BY <1>3
<1>5. calls \in Seq(Calls)
  <2>1. [op |-> "incoming", rid |-> 0] \in Calls
    BY DEF Calls
  <2> HIDE DEF rest, head
  <2> QED
    BY <1>1, <2>1
<1>6. NewRequest(c) =
         [c EXCEPT !.parsed = parsed, !.garbled = garbled, !.buffer = buffer,
                   !.content = content, !.needs = needs, !.calls = calls,
                   !.keepAlive = keepAlive, !.old = old]
  BY Zenon DEF NewRequest
<1>7. /\ parsed \in Nat /\ content \in Nat /\ needs \in {0, 1, All}
      /\ garbled \in BOOLEAN /\ keepAlive \in BOOLEAN /\ old \in BOOLEAN
  <2> HIDE DEF i, head, rest, waits
  <2>1. c.garbled \in BOOLEAN
    BY DEF Connections
  <2> QED
    BY <1>1, <2>1
<1> HIDE DEF i, head, rest, waits, buffer, calls, parsed, content, needs, garbled, keepAlive, old
<1> DEFINE d == [c EXCEPT !.parsed = parsed, !.content = content, !.needs = needs, !.buffer = buffer, !.calls = calls]
<1>8. d \in Connections
  BY <1>4, <1>5, <1>7 DEF Connections
<1>9. NewRequest(c) = [d EXCEPT !.garbled = garbled, !.keepAlive = keepAlive, !.old = old]
  BY <1>6 DEF Connections
<1> HIDE DEF d
<1> QED
  BY <1>7, <1>8, <1>9, ZenonT(30) DEF Connections

LEMMA IncomingDataType ==
    ASSUME NEW c \in Connections, NEW block \in Seq(Words)
    PROVE  IncomingData(c, block) \in Connections
<1> DEFINE expecting == c.content # 0 /\ c.needs > 0
           taken == IF ~expecting THEN 0
                    ELSE IF c.needs = All \/ Len(block) < c.needs THEN Len(block) ELSE c.needs
           rest == SubSeq(block, taken + 1, Len(block))
           d == [c EXCEPT !.content = 0, !.needs = 0, !.buffer = c.buffer \o rest]
           w == [c EXCEPT !.needs = IF c.needs = All THEN All ELSE c.needs - taken]
<1>1. c.buffer \in Seq(Words) /\ c.needs \in {0, 1, All} /\ All \in Nat
  BY HttpTransferAssumption DEF Connections, All
<1>2. taken \in 0 .. Len(block)
  BY <1>1
<1>3. rest \in Seq(Words)
  BY <1>2, SubSeqProperties
<1>4. d \in Connections
  <2> DEFINE buffer == c.buffer \o rest
  <2>1. buffer \in Seq(Words)
    BY <1>1, <1>3, ConcatProperties
  <2>2. d = [c EXCEPT !.content = 0, !.needs = 0, !.buffer = buffer]
    OBVIOUS
  <2> HIDE DEF rest, buffer, d
  <2> QED
    BY <2>1, <2>2 DEF Connections
<1>5. expecting => w \in Connections
  <2>1. expecting /\ c.needs # All => c.needs - taken \in {0, 1}
    BY <1>1, <1>2
  <2> HIDE DEF taken
  <2> QED
    BY <2>1, <1>1 DEF Connections
<1>6. IncomingData(c, block) =
         IF expecting /\ rest = <<>> THEN w
         ELSE IF \E i \in DOMAIN d.buffer : IsHead(d.buffer[i]) THEN NewRequest(d) ELSE d
  BY Zenon DEF IncomingData
<1> HIDE DEF d, w, rest, expecting
<1> QED
  BY <1>4, <1>5, <1>6, NewRequestType

LEMMA SendEmptyChunkType ==
    ASSUME NEW c \in Connections, NEW r \in Rids
    PROVE  SendEmptyChunk(c, r) \in Connections
<1> DEFINE f == [c EXCEPT !.finished = TRUE]
           d == Write(f, "last", r)
           e == [DropCalls(d, {"written"}) EXCEPT !.onBytesWritten = 0]
<1>1. f \in Connections
  BY DEF Connections
<1>2. d \in Connections
  <2> HIDE DEF f
  <2> QED
    BY <1>1, WriteType
<1>3. e \in Connections
  <2> HIDE DEF d
  <2>1. DropCalls(d, {"written"}) \in Connections
    BY <1>2, DropCallsType
  <2> QED
    BY <2>1, UnboundType
<1>4. SendEmptyChunk(c, r) = IF c.finished THEN c ELSE IF d.keepAlive THEN IncomingData(e, <<>>)
                             ELSE CloseConnection(d)
  BY Zenon DEF SendEmptyChunk
<1>5. <<>> \in Seq(Words)
  OBVIOUS
<1> HIDE DEF d, e
<1> QED
  BY <1>2, <1>3, <1>4, <1>5, IncomingDataType, CloseConnectionType

LEMMA SendNextType ==
    ASSUME NEW c \in Connections, NEW r \in Rids, NEW s \in Sources
    PROVE  SendNext(c, r, s) \in Connections /\ SourceAfter(c, s) \in Sources
<1> DEFINE w == Write(c, "data", r)
           d == [w EXCEPT !.readyRead = FALSE]
<1>1. w \in Connections
  BY WriteType
<1>2. d \in Connections
  <2> HIDE DEF w
  <2> QED
    BY <1>1 DEF Connections
<1>3. [c EXCEPT !.readyRead = FALSE] \in Connections
  BY DEF Connections
<1>4. SendNext(c, r, s) =
         IF c.finished THEN c
         ELSE IF s.avail = 0 THEN [c EXCEPT !.readyRead = FALSE]
         ELSE IF ~Exhausted(c, ReadFrom(s)) THEN d
              ELSE IF c.chunked THEN SendEmptyChunk(d, r)
              ELSE ClearHandlers(CloseConnection(d))
  BY Zenon DEF SendNext
<1>5. SendNext(c, r, s) \in Connections
  <2> HIDE DEF d
  <2>1. CloseConnection(d) \in Connections
    BY <1>2, CloseConnectionType
  <2> QED
    BY <1>2, <1>3, <1>4, <2>1, SendEmptyChunkType, ClearHandlersType
<1>6. SourceAfter(c, s) \in Sources
  BY DEF SourceAfter, ReadFrom, Sources
<1> QED
  BY <1>5, <1>6

LEMMA SourceClosedType ==
    ASSUME NEW c \in Connections, NEW r \in Rids, NEW s \in Sources
    PROVE  SourceClosed(c, r, s) \in Connections
<1> DEFINE d == [c EXCEPT !.sourceClosed = TRUE]
<1>1. d \in Connections
  BY DEF Connections
<1>2. SourceClosed(c, r, s) = IF c.finished THEN c ELSE IF s.avail > 0 THEN d
                              ELSE IF c.chunked THEN SendEmptyChunk(d, r) ELSE CloseConnection(d)
  BY DEF SourceClosed
<1> HIDE DEF d
<1> QED
  BY <1>1, <1>2, SendEmptyChunkType, CloseConnectionType

-----------------------------------------------------------------------------
(* What is still to be parsed.                                             *)

Rest(s, k) == SubSeq(s, k + 1, Len(s))

\* Each head that has a body is followed by it, and nothing follows "close".
Framed(s) ==
    /\ \A i \in DOMAIN s : s[i] = "post" => i < Len(s) /\ s[i + 1] = "body"
    /\ \A i \in DOMAIN s : s[i] = "close" => i = Len(s)

\* Each body follows its head.
NoBodyAlone(s) == \A i \in DOMAIN s : s[i] = "body" => i > 1 /\ s[i - 1] = "post"

\* The heads in s are those of the requests lo + 1 .. hi.
Numbered(s, lo, hi) ==
    \E p \in [lo + 1 .. hi -> DOMAIN s] :
        /\ \A r \in lo + 1 .. hi : IsHead(s[p[r]])
        /\ \A q, r \in lo + 1 .. hi : q < r => p[q] < p[r]
        /\ \A i \in DOMAIN s : IsHead(s[i]) => \E r \in lo + 1 .. hi : p[r] = i

StreamOK(s, dropped, final, lo, hi) ==
    /\ Framed(s)
    /\ ~dropped => NoBodyAlone(s)
    /\ ~final => \A i \in DOMAIN s : s[i] # "close"
    /\ Numbered(s, lo, hi)

LEMMA RestOfSequence ==
    ASSUME NEW S, NEW s \in Seq(S), NEW k \in 0 .. Len(s)
    PROVE  /\ Rest(s, k) \in Seq(S) /\ Len(Rest(s, k)) = Len(s) - k
           /\ \A i \in 1 .. Len(s) - k : Rest(s, k)[i] = s[k + i]
<1>1. \A i \in k + 1 .. Len(s) : s[i] \in S
  OBVIOUS
<1>2. k + 1 \in Int /\ Len(s) \in Int
  OBVIOUS
<1>3. /\ SubSeq(s, k + 1, Len(s)) \in Seq(S)
      /\ Len(SubSeq(s, k + 1, Len(s))) = IF k + 1 <= Len(s) THEN Len(s) - (k + 1) + 1 ELSE 0
      /\ \A i \in 1 .. Len(s) - (k + 1) + 1 : SubSeq(s, k + 1, Len(s))[i] = s[k + 1 + i - 1]
  BY <1>1, <1>2, SubSeqProperties
<1> QED
  BY <1>3 DEF Rest

LEMMA RestOfConcat ==
    ASSUME NEW S, NEW s \in Seq(S), NEW t \in Seq(S), NEW k \in 0 .. Len(s)
    PROVE  Rest(s, k) \o t = Rest(s \o t, k)
<1>1. /\ s \o t \in Seq(S) /\ Len(s \o t) = Len(s) + Len(t)
      /\ \A i \in 1 .. Len(s) + Len(t) : (s \o t)[i] = IF i <= Len(s) THEN s[i] ELSE t[i - Len(s)]
  BY ConcatProperties
<1> DEFINE u == s \o t
           a == Rest(s, k)
           b == Rest(u, k)
<1>2. a \in Seq(S) /\ Len(a) = Len(s) - k /\ \A i \in 1 .. Len(s) - k : a[i] = s[k + i]
  BY RestOfSequence
<1>3. b \in Seq(S) /\ Len(b) = Len(u) - k /\ \A i \in 1 .. Len(u) - k : b[i] = u[k + i]
  <2> HIDE DEF u
  <2>1. u \in Seq(S) /\ k \in 0 .. Len(u)
    BY <1>1 DEF u
  <2> QED
    BY <2>1, RestOfSequence
<1>4. /\ a \o t \in Seq(S) /\ Len(a \o t) = Len(a) + Len(t)
      /\ \A i \in 1 .. Len(a) + Len(t) : (a \o t)[i] = IF i <= Len(a) THEN a[i] ELSE t[i - Len(a)]
  <2> HIDE DEF a
  <2> QED
    BY <1>2, ConcatProperties
<1> HIDE DEF a, b, u
<1>5. Len(a \o t) = Len(b)
  BY <1>1, <1>2, <1>3, <1>4 DEF u
<1>6. ASSUME NEW i \in 1 .. Len(a \o t) PROVE (a \o t)[i] = b[i]
  <2>1. i \in 1 .. Len(a) + Len(t) /\ k + i \in 1 .. Len(s) + Len(t) /\ i \in 1 .. Len(u) - k
    BY <1>1, <1>2, <1>4, <1>6 DEF u
  <2>2. b[i] = IF k + i <= Len(s) THEN s[k + i] ELSE t[k + i - Len(s)]
    BY <1>1, <1>3, <2>1 DEF u
  <2>3. (a \o t)[i] = IF i <= Len(a) THEN a[i] ELSE t[i - Len(a)]
    BY <1>4, <2>1
  <2>4. CASE i <= Len(a)
    <3>1. i \in 1 .. Len(s) - k /\ k + i <= Len(s)
      BY <1>2, <2>1, <2>4
    <3> QED
      BY <1>2, <2>2, <2>3, <2>4, <3>1
  <2>5. CASE ~(i <= Len(a))
    <3>1. ~(k + i <= Len(s)) /\ k + i - Len(s) = i - Len(a)
      BY <1>2, <2>1, <2>5
    <3> QED
      BY <2>2, <2>3, <2>5, <3>1
  <2> QED
    BY <2>4, <2>5
<1>7. a \o t = b
  BY <1>3, <1>4, <1>5, <1>6, SeqEqual
<1> QED
  BY <1>7 DEF a, b, u

LEMMA RestOfRest ==
    ASSUME NEW S, NEW s \in Seq(S), s # <<>>
    PROVE  Tail(s) = Rest(s, 1)
BY TailIsSubSeq DEF Rest

\* A request is taken from the front, and its body with it.
LEMMA StreamLosesRequest ==
    ASSUME NEW s \in Seq(Words), NEW dropped \in BOOLEAN, NEW final \in BOOLEAN, NEW lo \in Nat, NEW hi \in Nat,
           StreamOK(s, dropped, final, lo, hi),
           NEW k \in DOMAIN s, s[k] # "post",
           NEW i \in 1 .. k, IsHead(s[i]), \A j \in 1 .. k : IsHead(s[j]) => j = i
    PROVE  StreamOK(Rest(s, k), dropped, final, lo + 1, hi) /\ lo < hi
<1> DEFINE t == Rest(s, k)
<1>1. t \in Seq(Words) /\ Len(t) = Len(s) - k /\ \A j \in 1 .. Len(s) - k : t[j] = s[k + j]
  <2>1. k \in 0 .. Len(s)
    OBVIOUS
  <2> QED
    BY <2>1, RestOfSequence
<1> HIDE DEF t
<1>2. Framed(t)
  <2>1. ASSUME NEW j \in DOMAIN t, t[j] = "post" PROVE j < Len(t) /\ t[j + 1] = "body"
    <3>1. k + j \in DOMAIN s /\ s[k + j] = "post"
      BY <1>1, <2>1
    <3>2. k + j < Len(s) /\ s[k + j + 1] = "body"
      BY <3>1 DEF StreamOK, Framed
    <3>3. j + 1 \in 1 .. Len(s) - k /\ k + (j + 1) = k + j + 1
      BY <1>1, <3>2
    <3> QED
      BY <1>1, <3>2, <3>3
  <2>2. ASSUME NEW j \in DOMAIN t, t[j] = "close" PROVE j = Len(t)
    <3>1. k + j \in DOMAIN s /\ s[k + j] = "close"
      BY <1>1, <2>2
    <3>2. k + j = Len(s)
      BY <3>1 DEF StreamOK, Framed
    <3> QED
      BY <1>1, <3>2
  <2> QED
    BY <2>1, <2>2 DEF Framed
<1>3. ~dropped => NoBodyAlone(t)
  <2> SUFFICES ASSUME ~dropped, NEW j \in DOMAIN t, t[j] = "body" PROVE j > 1 /\ t[j - 1] = "post"
    BY DEF NoBodyAlone
  <2>1. k + j \in DOMAIN s /\ s[k + j] = "body"
    BY <1>1
  <2>2. NoBodyAlone(s)
    BY Zenon DEF StreamOK
  <2>3. s[k + j - 1] = "post"
    <3> DEFINE m == k + j
    <3>1. m \in DOMAIN s /\ s[m] = "body"
      BY <2>1
    <3> HIDE DEF m
    <3>2. s[m - 1] = "post"
      BY <2>2, <3>1 DEF NoBodyAlone
    <3>3. m - 1 = k + j - 1
      BY <1>1 DEF m
    <3> QED
      BY <3>2, <3>3
  <2>4. j # 1
    BY <2>3, <1>1
  <2>5. j - 1 \in 1 .. Len(s) - k /\ k + (j - 1) = k + j - 1
    BY <1>1, <2>4
  <2> QED
    BY <1>1, <2>3, <2>4, <2>5
<1>4. ~final => \A j \in DOMAIN t : t[j] # "close"
  <2> SUFFICES ASSUME ~final PROVE \A j \in DOMAIN t : t[j] # "close"
    OBVIOUS
  <2>1. \A j \in DOMAIN s : s[j] # "close"
    BY Zenon DEF StreamOK
  <2> QED
    BY <1>1, <2>1
<1>5. Numbered(t, lo + 1, hi) /\ lo < hi
  <2>1. PICK p \in [lo + 1 .. hi -> DOMAIN s] :
           /\ \A r \in lo + 1 .. hi : IsHead(s[p[r]])
           /\ \A q, r \in lo + 1 .. hi : q < r => p[q] < p[r]
           /\ \A j \in DOMAIN s : IsHead(s[j]) => \E r \in lo + 1 .. hi : p[r] = j
    BY DEF StreamOK, Numbered
  <2>2. PICK n \in lo + 1 .. hi : p[n] = i
    BY <2>1
  <2>3. n = lo + 1
    <3> SUFFICES ASSUME n # lo + 1 PROVE FALSE
      OBVIOUS
    <3>1. lo + 1 \in lo + 1 .. hi /\ lo + 1 < n
      OBVIOUS
    <3>2. p[lo + 1] < i /\ IsHead(s[p[lo + 1]]) /\ p[lo + 1] \in DOMAIN s
      BY <2>1, <2>2, <3>1
    <3> QED
      BY <3>2
  <2>4. lo < hi
    BY <2>2
  <2> DEFINE L == lo + 1
             o == [r \in L + 1 .. hi |-> p[r] - k]
  <2>5. ASSUME NEW r \in L + 1 .. hi PROVE p[r] \in k + 1 .. Len(s)
    <3>1. r \in lo + 1 .. hi /\ n < r
      BY <2>3
    <3>2. p[r] \in DOMAIN s /\ IsHead(s[p[r]]) /\ i < p[r]
      BY <2>1, <2>2, <3>1
    <3>3. ~(p[r] \in 1 .. k)
      BY <3>2
    <3> QED
      BY <3>2, <3>3
  <2>6. o \in [L + 1 .. hi -> DOMAIN t]
    BY <1>1, <2>5
  <2>7. \A r \in L + 1 .. hi : IsHead(t[o[r]])
    <3> SUFFICES ASSUME NEW r \in L + 1 .. hi PROVE IsHead(t[o[r]])
      OBVIOUS
    <3>1. t[p[r] - k] = s[p[r]]
      BY <1>1, <2>5, SMTT(30)
    <3> QED
      BY <2>1, <3>1
  <2>8. \A q, r \in L + 1 .. hi : q < r => o[q] < o[r]
    <3> SUFFICES ASSUME NEW q \in L + 1 .. hi, NEW r \in L + 1 .. hi, q < r PROVE p[q] - k < p[r] - k
      OBVIOUS
    <3>1. q \in lo + 1 .. hi /\ r \in lo + 1 .. hi
      OBVIOUS
    <3> QED
      BY <2>1, <3>1, <2>5
  <2>9. \A j \in DOMAIN t : IsHead(t[j]) => \E r \in L + 1 .. hi : o[r] = j
    <3> SUFFICES ASSUME NEW j \in DOMAIN t, IsHead(t[j]) PROVE \E r \in L + 1 .. hi : o[r] = j
      OBVIOUS
    <3>1. k + j \in DOMAIN s /\ IsHead(s[k + j])
      BY <1>1
    <3>2. PICK r \in lo + 1 .. hi : p[r] = k + j
      BY <2>1, <3>1
    <3>3. r # lo + 1
      BY <2>2, <2>3, <3>2, <1>1
    <3>4. r \in L + 1 .. hi /\ o[r] = j
      BY <3>2, <3>3, <1>1
    <3> QED
      BY <3>4
  <2> HIDE DEF o, L
  <2>10. Numbered(t, L, hi)
    BY <2>6, <2>7, <2>8, <2>9 DEF Numbered
  <2> QED
    BY <2>4, <2>10 DEF L
<1> QED
  BY <1>2, <1>3, <1>4, <1>5 DEF StreamOK, t

\* The browser sends a request.
LEMMA StreamGainsRequest ==
    ASSUME NEW s \in Seq(Words), NEW dropped \in BOOLEAN, NEW lo \in Nat, NEW hi \in Nat, lo <= hi,
           StreamOK(s, dropped, FALSE, lo, hi), NEW h \in Heads
    PROVE  StreamOK(s \o (IF h = "post" THEN <<h, "body">> ELSE <<h>>), dropped, h \in {"close", "old"}, lo, hi + 1)
<1> DEFINE e == IF h = "post" THEN <<h, "body">> ELSE <<h>>
           t == s \o e
           N == Len(s)
<1>1. /\ e \in Seq(Words) /\ Len(e) \in 1 .. 2 /\ e[1] = h
      /\ Len(e) = 2 <=> h = "post"
      /\ Len(e) = 2 => e[2] = "body"
  <2>1. h \in Words /\ "body" \in Words
    BY DEF Words
  <2>2. CASE h = "post"
    <3>1. e = <<h, "body">>
      BY <2>2
    <3> HIDE DEF e
    <3> QED
      BY <2>1, <2>2, <3>1
  <2>3. CASE h # "post"
    <3>1. e = <<h>>
      BY <2>3
    <3> HIDE DEF e
    <3> QED
      BY <2>1, <2>3, <3>1
  <2> QED
    BY <2>2, <2>3
<1> HIDE DEF e
<1>2. /\ t \in Seq(Words) /\ Len(t) = N + Len(e)
      /\ \A i \in 1 .. N + Len(e) : t[i] = IF i <= N THEN s[i] ELSE e[i - N]
  BY <1>1, ConcatProperties
<1>3. /\ \A i \in 1 .. N : t[i] = s[i]
      /\ t[N + 1] = h
      /\ Len(e) = 2 => t[N + 2] = "body"
  BY <1>1, <1>2
<1>4. \A i \in DOMAIN t : i \in 1 .. N \/ i = N + 1 \/ (i = N + 2 /\ Len(e) = 2)
  BY <1>1, <1>2
<1>5. h # "body" /\ IsHead(h)
  BY DEF Heads, IsHead
<1> HIDE DEF t
<1>6. Framed(s) /\ (\A i \in 1 .. N : s[i] # "close") /\ Numbered(s, lo, hi) /\ (~dropped => NoBodyAlone(s))
  BY DEF StreamOK
<1>7. Framed(t)
  <2>1. ASSUME NEW i \in DOMAIN t, t[i] = "post" PROVE i < Len(t) /\ t[i + 1] = "body"
    <3>1. CASE i \in 1 .. N
      <4>1. i < N /\ s[i + 1] = "body"
        BY <1>3, <1>6, <2>1, <3>1 DEF Framed
      <4> QED
        BY <1>1, <1>2, <1>3, <4>1, <3>1
    <3>2. CASE i = N + 1
      <4>1. Len(e) = 2
        BY <1>1, <1>3, <2>1, <3>2
      <4>2. i + 1 = N + 2
        BY <3>2
      <4> QED
        BY <1>2, <1>3, <3>2, <4>1, <4>2
    <3>3. CASE i = N + 2
      BY <1>3, <1>4, <2>1, <3>3
    <3> QED
      BY <1>4, <3>1, <3>2, <3>3
  <2>2. ASSUME NEW i \in DOMAIN t, t[i] = "close" PROVE i = Len(t)
    <3>1. i = N + 1
      BY <1>3, <1>4, <1>6, <2>2
    <3>2. h # "post"
      BY <1>3, <2>2, <3>1
    <3> QED
      BY <1>1, <1>2, <3>1, <3>2
  <2> QED
    BY <2>1, <2>2 DEF Framed
<1>8. ASSUME ~dropped PROVE NoBodyAlone(t)
  <2>1. NoBodyAlone(s)
    BY <1>6, <1>8
  <2> SUFFICES ASSUME NEW i \in DOMAIN t, t[i] = "body" PROVE i > 1 /\ t[i - 1] = "post"
    BY DEF NoBodyAlone
  <2>2. CASE i \in 1 .. N
    <3>1. i > 1 /\ s[i - 1] = "post"
      BY <1>3, <2>1, <2>2 DEF NoBodyAlone
    <3>2. i - 1 \in 1 .. N
      BY <2>2, <3>1
    <3> QED
      BY <1>3, <3>1, <3>2
  <2>3. CASE i = N + 2 /\ Len(e) = 2
    <3>1. i - 1 = N + 1 /\ i > 1
      BY <2>3
    <3> QED
      BY <1>1, <1>3, <2>3, <3>1
  <2>4. i # N + 1
    BY <1>3, <1>5
  <2> QED
    BY <1>4, <2>2, <2>3, <2>4
<1>9. ASSUME h \notin {"close", "old"} PROVE \A i \in DOMAIN t : t[i] # "close"
  BY <1>3, <1>4, <1>6, <1>9
<1>10. Numbered(t, lo, hi + 1)
  <2>1. PICK p \in [lo + 1 .. hi -> DOMAIN s] :
           /\ \A r \in lo + 1 .. hi : IsHead(s[p[r]])
           /\ \A q, r \in lo + 1 .. hi : q < r => p[q] < p[r]
           /\ \A j \in DOMAIN s : IsHead(s[j]) => \E r \in lo + 1 .. hi : p[r] = j
    BY <1>6 DEF Numbered
  <2> DEFINE H == hi + 1
             o == [r \in lo + 1 .. H |-> IF r = H THEN N + 1 ELSE p[r]]
  <2>2. \A r \in lo + 1 .. H : r = H \/ r \in lo + 1 .. hi
    OBVIOUS
  <2>3. \A r \in lo + 1 .. hi : o[r] = p[r] /\ p[r] \in 1 .. N
    OBVIOUS
  <2>4. H \in lo + 1 .. H /\ o[H] = N + 1
    OBVIOUS
  <2>5. DOMAIN t = 1 .. N + Len(e) /\ Len(e) >= 1 /\ N \in Nat
    BY <1>1, <1>2
  <2>6. o \in [lo + 1 .. H -> DOMAIN t]
    BY <2>2, <2>3, <2>5
  <2> HIDE DEF o
  <2>7. \A r \in lo + 1 .. H : IsHead(t[o[r]])
    BY <1>3, <1>5, <2>1, <2>2, <2>3, <2>4
  <2>8. \A q, r \in lo + 1 .. H : q < r => o[q] < o[r]
    <3> SUFFICES ASSUME NEW q \in lo + 1 .. H, NEW r \in lo + 1 .. H, q < r PROVE o[q] < o[r]
      OBVIOUS
    <3>1. q \in lo + 1 .. hi
      OBVIOUS
    <3>2. CASE r = H
      BY <2>3, <2>4, <3>1, <3>2
    <3>3. CASE r \in lo + 1 .. hi
      BY <2>1, <2>3, <3>1, <3>3
    <3> QED
      BY <2>2, <3>2, <3>3
  <2>9. \A j \in DOMAIN t : IsHead(t[j]) => \E r \in lo + 1 .. H : o[r] = j
    <3> SUFFICES ASSUME NEW j \in DOMAIN t, IsHead(t[j]) PROVE \E r \in lo + 1 .. H : o[r] = j
      OBVIOUS
    <3>1. CASE j \in 1 .. N
      <4>1. IsHead(s[j])
        BY <1>3, <3>1
      <4>2. PICK r \in lo + 1 .. hi : p[r] = j
        BY <2>1, <3>1, <4>1
      <4>3. r \in lo + 1 .. H
        BY <4>2
      <4> QED
        BY <2>3, <4>2, <4>3
    <3>2. CASE j = N + 1
      BY <2>4, <3>2
    <3>3. ~(j = N + 2 /\ Len(e) = 2)
      BY <1>3 DEF IsHead
    <3> QED
      BY <1>4, <3>1, <3>2, <3>3
  <2> HIDE DEF H
  <2>10. Numbered(t, lo, H)
    BY <2>6, <2>7, <2>8, <2>9 DEF Numbered
  <2> QED
    BY <2>10 DEF H
<1>11. StreamOK(t, dropped, h \in {"close", "old"}, lo, hi + 1)
  BY <1>7, <1>8, <1>9, <1>10 DEF StreamOK
<1> QED
  BY <1>11 DEF t, e

\* A body is left alone at the front.
LEMMA StreamGainsBody ==
    ASSUME NEW s \in Seq(Words), NEW final \in BOOLEAN, NEW lo \in Nat, NEW hi \in Nat,
           s # <<>>, Head(s) = "body", NEW dropped, StreamOK(Tail(s), dropped, final, lo, hi)
    PROVE  StreamOK(s, TRUE, final, lo, hi)
<1> DEFINE t == Tail(s)
           N == Len(s)
<1>1. t \in Seq(Words) /\ Len(t) = N - 1 /\ \A i \in 1 .. N - 1 : t[i] = s[i + 1]
  BY HeadTailProperties
<1>2. s[1] = "body" /\ N \in Nat \ {0}
  OBVIOUS
<1>3. StreamOK(t, dropped, final, lo, hi)
  OBVIOUS
<1> HIDE DEF t
<1>4. \A i \in DOMAIN s : i = 1 \/ (i - 1 \in DOMAIN t /\ s[i] = t[i - 1])
  <2> SUFFICES ASSUME NEW i \in DOMAIN s, i # 1 PROVE i - 1 \in DOMAIN t /\ s[i] = t[i - 1]
    OBVIOUS
  <2>1. i - 1 \in 1 .. N - 1 /\ i - 1 + 1 = i
    OBVIOUS
  <2> QED
    BY <1>1, <2>1
<1>5. Framed(s)
  <2>1. Framed(t)
    BY <1>3 DEF StreamOK
  <2>2. ASSUME NEW i \in DOMAIN s, s[i] = "post" PROVE i < N /\ s[i + 1] = "body"
    <3>1. i - 1 \in DOMAIN t /\ t[i - 1] = "post"
      BY <1>2, <1>4, <2>2
    <3>2. i - 1 < N - 1 /\ t[i - 1 + 1] = "body"
      BY <1>1, <2>1, <3>1 DEF Framed
    <3>3. i - 1 + 1 = i /\ i \in 1 .. N - 1
      BY <3>2
    <3> QED
      BY <1>1, <3>2, <3>3
  <2>3. ASSUME NEW i \in DOMAIN s, s[i] = "close" PROVE i = N
    <3>1. i - 1 \in DOMAIN t /\ t[i - 1] = "close"
      BY <1>2, <1>4, <2>3
    <3> QED
      BY <1>1, <2>1, <3>1 DEF Framed
  <2> QED
    BY <2>2, <2>3 DEF Framed
<1>6. ~final => \A i \in DOMAIN s : s[i] # "close"
  <2> SUFFICES ASSUME ~final PROVE \A i \in DOMAIN s : s[i] # "close"
    OBVIOUS
  <2>1. \A i \in DOMAIN t : t[i] # "close"
    BY <1>3, Zenon DEF StreamOK
  <2> QED
    BY <1>2, <1>4, <2>1
<1>7. Numbered(s, lo, hi)
  <2>1. PICK p \in [lo + 1 .. hi -> DOMAIN t] :
           /\ \A r \in lo + 1 .. hi : IsHead(t[p[r]])
           /\ \A q, r \in lo + 1 .. hi : q < r => p[q] < p[r]
           /\ \A j \in DOMAIN t : IsHead(t[j]) => \E r \in lo + 1 .. hi : p[r] = j
    BY <1>3 DEF StreamOK, Numbered
  <2> DEFINE o == [r \in lo + 1 .. hi |-> p[r] + 1]
  <2>2. \A r \in lo + 1 .. hi : p[r] \in 1 .. N - 1 /\ o[r] = p[r] + 1 /\ s[p[r] + 1] = t[p[r]]
    BY <1>1
  <2>3. o \in [lo + 1 .. hi -> DOMAIN s]
    BY <2>2
  <2> HIDE DEF o
  <2>4. \A r \in lo + 1 .. hi : IsHead(s[o[r]])
    BY <2>1, <2>2
  <2>5. \A q, r \in lo + 1 .. hi : q < r => o[q] < o[r]
    BY <2>1, <2>2
  <2>6. \A j \in DOMAIN s : IsHead(s[j]) => \E r \in lo + 1 .. hi : o[r] = j
    <3> SUFFICES ASSUME NEW j \in DOMAIN s, IsHead(s[j]) PROVE \E r \in lo + 1 .. hi : o[r] = j
      OBVIOUS
    <3>1. j - 1 \in DOMAIN t /\ IsHead(t[j - 1])
      BY <1>2, <1>4 DEF IsHead
    <3>2. PICK r \in lo + 1 .. hi : p[r] = j - 1
      BY <2>1, <3>1
    <3>3. o[r] = j - 1 + 1
      BY <2>2, <3>2
    <3>4. o[r] = j
      BY <3>3
    <3> QED
      BY <3>4
  <2> QED
    BY <2>3, <2>4, <2>5, <2>6 DEF Numbered
<1> QED
  BY <1>5, <1>6, <1>7 DEF StreamOK

-----------------------------------------------------------------------------
(* The requests of a connection c, to which n is on its way.               *)

Expecting(c) == c.content # 0 /\ c.needs = 1

Remaining(c, n) == IF Expecting(c) THEN Tail(n) ELSE c.buffer \o n

RequestsOK(c, n) ==
    /\ c.content <= c.parsed /\ c.parsed <= c.sent /\ c.sent <= MaxRequests
    /\ c.garbled => c.dropped
    /\ c.device = "gone" => c.buffer = <<>> /\ c.content = 0
    /\ c.device # "gone" =>
          /\ Expecting(c) => c.buffer = <<>> /\ n # <<>> /\ Head(n) = "body"
          /\ c.needs = All => c.buffer = <<>> /\ n = <<>> /\ c.final
          /\ StreamOK(Remaining(c, n), c.dropped, c.final, c.parsed, c.sent)

\* What a handler leaves alone when it parses a request.
SameResponse(c, d) ==
    /\ d.device = c.device /\ d.onBytesWritten = c.onBytesWritten /\ d.onSource = c.onSource
    /\ d.finished = c.finished /\ d.streaming = c.streaming /\ d.sourceClosed = c.sourceClosed
    /\ d.toWrite = c.toWrite /\ d.wire = c.wire /\ d.sent = c.sent
    /\ d.pipelined = c.pipelined /\ d.aborted = c.aborted
    /\ d.calls = c.calls \/ d.calls = Append(c.calls, [op |-> "incoming", rid |-> 0])

LEMMA NewRequestIs ==
    ASSUME NEW c \in Connections, \E i \in DOMAIN c.buffer : IsHead(c.buffer[i])
    PROVE  LET i == SelectInSeq(c.buffer, IsHead)
               head == c.buffer[i]
               rest == Rest(c.buffer, i)
               d == NewRequest(c)
           IN  /\ SameResponse(c, d) /\ d.final = c.final /\ d.dropped = c.dropped
               /\ d.parsed = c.parsed + 1
               /\ d.garbled = (c.garbled \/ i > 1)
               /\ d.buffer = IF head = "close" \/ rest = <<>> THEN <<>>
                             ELSE IF head = "post" THEN Tail(rest) ELSE rest
               /\ d.content = IF head = "close" \/ (head = "post" /\ rest = <<>>) THEN c.parsed + 1 ELSE 0
               /\ d.needs = IF head = "close" THEN All
                            ELSE IF head = "post" /\ rest = <<>> THEN 1 ELSE 0
BY DEF NewRequest, SameResponse, Connections, Rest

LEMMA NewRequestKeepsRequests ==
    ASSUME NEW c \in Connections, NEW n \in Seq(Words), c.device # "gone",
           c.content = 0, c.needs = 0, \E i \in DOMAIN c.buffer : IsHead(c.buffer[i]),
           RequestsOK(c, n)
    PROVE  RequestsOK(NewRequest(c), n)
<1> DEFINE b == c.buffer
           i == SelectInSeq(b, IsHead)
           head == b[i]
           rest == Rest(b, i)
           d == NewRequest(c)
           s == b \o n
<1>1. /\ b \in Seq(Words) /\ c.parsed \in Nat /\ c.sent \in Nat
      /\ c.dropped \in BOOLEAN /\ c.final \in BOOLEAN /\ c.garbled \in BOOLEAN
  BY DEF Connections
<1>2. d \in Connections
  BY NewRequestType
<1>3. /\ SameResponse(c, d) /\ d.final = c.final /\ d.dropped = c.dropped
      /\ d.parsed = c.parsed + 1
      /\ d.garbled = (c.garbled \/ i > 1)
      /\ d.buffer = IF head = "close" \/ rest = <<>> THEN <<>>
                    ELSE IF head = "post" THEN Tail(rest) ELSE rest
      /\ d.content = IF head = "close" \/ (head = "post" /\ rest = <<>>) THEN c.parsed + 1 ELSE 0
      /\ d.needs = IF head = "close" THEN All
                   ELSE IF head = "post" /\ rest = <<>> THEN 1 ELSE 0
  BY NewRequestIs
<1>4. i \in DOMAIN b /\ IsHead(head) /\ \A j \in DOMAIN b : IsHead(b[j]) => i <= j
  BY <1>1, FirstHead
<1>5. rest \in Seq(Words) /\ Len(rest) = Len(b) - i /\ \A j \in 1 .. Len(b) - i : rest[j] = b[i + j]
  <2> HIDE DEF b, i
  <2>1. i \in 0 .. Len(b)
    BY <1>1, <1>4
  <2> QED
    BY <1>1, <2>1, RestOfSequence
<1>6. /\ s \in Seq(Words) /\ Len(s) = Len(b) + Len(n)
      /\ \A j \in 1 .. Len(b) + Len(n) : s[j] = IF j <= Len(b) THEN b[j] ELSE n[j - Len(b)]
  BY <1>1, ConcatProperties
<1>7. rest \o n = Rest(s, i)
  <2> HIDE DEF b, i
  <2>1. i \in 0 .. Len(b)
    BY <1>1, <1>4
  <2> QED
    BY <1>1, <2>1, RestOfConcat
<1>8. StreamOK(s, c.dropped, c.final, c.parsed, c.sent)
  BY DEF RequestsOK, Remaining, Expecting
<1>9. head \in {"get", "post", "close", "old"} /\ b # <<>>
  BY <1>1, <1>4 DEF Words, Heads, IsHead
<1> HIDE DEF b, i, head, rest, d, s
<1>10. i \in DOMAIN s /\ s[i] = head /\ (\A j \in 1 .. i : IsHead(s[j]) => j = i)
  <2>1. \A j \in 1 .. Len(b) : s[j] = b[j] /\ j \in DOMAIN s
    BY <1>1, <1>6
  <2>2. i \in 1 .. Len(b) /\ head = b[i]
    BY <1>1, <1>4 DEF head
  <2> QED
    BY <1>1, <1>4, <2>1, <2>2
<1>11. c.dropped \/ i = 1
  <2> SUFFICES ASSUME ~c.dropped PROVE i = 1
    BY <1>1
  <2>1. NoBodyAlone(s)
    BY <1>8 DEF StreamOK
  <2>2. 1 \in DOMAIN s
    BY <1>10, <1>6
  <2>3. s[1] # "body"
    BY <2>1, <2>2 DEF NoBodyAlone
  <2>4. 1 \in 1 .. i
    BY <1>10, <1>6
  <2> QED
    BY <1>10, <2>3, <2>4 DEF IsHead
<1>12. d.garbled => d.dropped
  BY <1>1, <1>3, <1>11 DEF RequestsOK
<1>13. d.device # "gone" /\ d.sent = c.sent
  BY <1>3 DEF SameResponse
<1>14. ASSUME head # "post" PROVE StreamOK(Rest(s, i), c.dropped, c.final, c.parsed + 1, c.sent) /\ c.parsed < c.sent
  <2>1. s[i] # "post" /\ i \in 1 .. i /\ IsHead(s[i])
    BY <1>10, <1>6, <1>4, <1>14 DEF head
  <2>2. s \in Seq(Words) /\ i \in DOMAIN s /\ \A j \in 1 .. i : IsHead(s[j]) => j = i
    BY <1>6, <1>10
  <2>3. \A dropped, final \in BOOLEAN, lo, hi \in Nat : StreamOK(s, dropped, final, lo, hi) =>
           StreamOK(Rest(s, i), dropped, final, lo + 1, hi) /\ lo < hi
    BY <2>1, <2>2, StreamLosesRequest
  <2> QED
    BY <1>1, <1>8, <2>3
<1>15. ASSUME head = "post"
       PROVE  /\ i + 1 \in DOMAIN s /\ s[i + 1] = "body"
              /\ StreamOK(Rest(s, i + 1), c.dropped, c.final, c.parsed + 1, c.sent) /\ c.parsed < c.sent
  <2>1. i < Len(s) /\ s[i + 1] = "body"
    BY <1>8, <1>10, <1>15 DEF StreamOK, Framed
  <2>2. i + 1 \in DOMAIN s
    BY <1>6, <1>10, <2>1
  <2>3. i \in 1 .. i + 1 /\ IsHead(s[i])
    BY <1>6, <1>10, <1>4 DEF head
  <2>4. \A j \in 1 .. i + 1 : IsHead(s[j]) => j = i
    <3> SUFFICES ASSUME NEW j \in 1 .. i + 1, IsHead(s[j]) PROVE j = i
      OBVIOUS
    <3>1. j # i + 1
      BY <2>1 DEF IsHead
    <3>2. j \in 1 .. i
      BY <1>6, <1>10, <3>1
    <3> QED
      BY <1>10, <3>2
  <2>5. s[i + 1] # "post"
    BY <2>1
  <2>6. StreamOK(Rest(s, i + 1), c.dropped, c.final, c.parsed + 1, c.sent) /\ c.parsed < c.sent
    <3>1. s \in Seq(Words)
      BY <1>6
    <3>2. \A dropped, final \in BOOLEAN, lo, hi \in Nat : StreamOK(s, dropped, final, lo, hi) =>
             StreamOK(Rest(s, i + 1), dropped, final, lo + 1, hi) /\ lo < hi
      BY <2>2, <2>3, <2>4, <2>5, <3>1, StreamLosesRequest
    <3> QED
      BY <1>1, <1>8, <3>2
  <2> QED
    BY <2>1, <2>2, <2>6
<1>16. c.parsed < c.sent
  BY <1>14, <1>15
<1>17. /\ d.content <= d.parsed /\ d.parsed <= d.sent /\ d.sent <= MaxRequests
  BY <1>1, <1>3, <1>13, <1>16 DEF RequestsOK
<1>18. All # 0 /\ All # 1
  BY HttpTransferAssumption DEF All
<1>19. /\ Expecting(d) => d.buffer = <<>> /\ n # <<>> /\ Head(n) = "body"
       /\ d.needs = All => d.buffer = <<>> /\ n = <<>> /\ d.final
       /\ StreamOK(Remaining(d, n), d.dropped, d.final, d.parsed, d.sent)
  <2>1. CASE head \in {"get", "old"}
    <3>1. d.buffer = rest /\ d.content = 0 /\ d.needs = 0
      BY <1>3, <2>1
    <3>2. Remaining(d, n) = Rest(s, i)
      BY <1>7, <3>1 DEF Remaining, Expecting
    <3> QED
      BY <1>3, <1>13, <1>14, <1>18, <2>1, <3>1, <3>2 DEF Expecting
  <2>2. CASE head = "close"
    <3>1. i = Len(s)
      BY <1>8, <1>10, <2>2 DEF StreamOK, Framed
    <3>2. n = <<>> /\ rest = <<>>
      BY <1>1, <1>4, <1>5, <1>6, <3>1
    <3>3. c.final
      BY <1>8, <1>10, <2>2 DEF StreamOK
    <3>4. d.buffer = <<>> /\ d.needs = All
      BY <1>3, <2>2
    <3>5. Remaining(d, n) = Rest(s, i)
      <4>1. Remaining(d, n) = <<>> \o <<>>
        BY <1>18, <3>2, <3>4 DEF Remaining, Expecting
      <4> QED
        BY <1>7, <3>2, <4>1
    <3> QED
      BY <1>3, <1>13, <1>14, <1>18, <2>2, <3>2, <3>3, <3>4, <3>5 DEF Expecting
  <2>3. CASE head = "post" /\ rest = <<>>
    <3>1. d.buffer = <<>> /\ d.content = c.parsed + 1 /\ d.needs = 1 /\ c.parsed + 1 # 0
      BY <1>1, <1>3, <2>3
    <3>2. i = Len(b)
      BY <1>1, <1>4, <1>5, <2>3
    <3>3. i + 1 \in DOMAIN s /\ s[i + 1] = "body"
      BY <1>15, <2>3
    <3>4. Len(n) > 0 /\ n[1] = "body"
      <4>1. i + 1 <= Len(b) + Len(n) /\ ~(i + 1 <= Len(b)) /\ i + 1 - Len(b) = 1
        BY <1>1, <1>6, <3>2, <3>3
      <4> QED
        BY <1>1, <1>6, <3>2, <3>3, <4>1
    <3>5. n # <<>> /\ Head(n) = "body"
      BY <3>4
    <3>6. Tail(n) = Rest(s, i + 1)
      <4>1. Tail(n) \in Seq(Words) /\ Len(Tail(n)) = Len(n) - 1 /\ \A j \in 1 .. Len(n) - 1 : Tail(n)[j] = n[j + 1]
        BY <3>5, HeadTailProperties
      <4>2. i + 1 \in 0 .. Len(s)
        BY <1>6, <3>3
      <4>3. /\ Rest(s, i + 1) \in Seq(Words) /\ Len(Rest(s, i + 1)) = Len(s) - (i + 1)
            /\ \A j \in 1 .. Len(s) - (i + 1) : Rest(s, i + 1)[j] = s[i + 1 + j]
        BY <1>6, <4>2, RestOfSequence
      <4>4. Len(Rest(s, i + 1)) = Len(n) - 1
        BY <1>1, <1>6, <3>2, <4>3
      <4>5. ASSUME NEW j \in 1 .. Len(n) - 1 PROVE Tail(n)[j] = Rest(s, i + 1)[j]
        <5>1. /\ i + 1 + j \in 1 .. Len(b) + Len(n) /\ ~(i + 1 + j <= Len(b))
              /\ i + 1 + j - Len(b) = j + 1 /\ j \in 1 .. Len(s) - (i + 1)
          BY <1>1, <1>6, <3>2, <4>5
        <5>2. Rest(s, i + 1)[j] = s[i + 1 + j]
          BY <4>3, <5>1
        <5>3. s[i + 1 + j] = n[j + 1]
          <6> DEFINE m == i + 1 + j
          <6>1. m \in 1 .. Len(b) + Len(n) /\ ~(m <= Len(b)) /\ m - Len(b) = j + 1
            BY <1>1, <1>6, <3>2, <4>5
          <6> HIDE DEF m
          <6>2. s[m] = n[j + 1]
            BY <1>6, <6>1
          <6> QED
            BY <6>2 DEF m
        <5>4. Tail(n)[j] = n[j + 1]
          BY <4>1
        <5> QED
          BY <5>2, <5>3, <5>4
      <4> HIDE DEF Rest
      <4> QED
        BY <4>1, <4>3, <4>4, <4>5, SeqEqual
    <3>7. Remaining(d, n) = Rest(s, i + 1)
      BY <3>1, <3>6 DEF Remaining, Expecting
    <3> QED
      BY <1>3, <1>13, <1>15, <1>18, <2>3, <3>1, <3>5, <3>7 DEF Expecting
  <2>4. CASE head = "post" /\ rest # <<>>
    <3>1. d.buffer = Tail(rest) /\ d.content = 0 /\ d.needs = 0
      BY <1>3, <2>4
    <3>2. Len(rest) > 0 /\ i + 1 \in 0 .. Len(b)
      BY <1>1, <1>4, <1>5, <2>4
    <3>3. Tail(rest) = Rest(b, i + 1)
      <4>1. Tail(rest) \in Seq(Words) /\ Len(Tail(rest)) = Len(rest) - 1 /\ \A j \in 1 .. Len(rest) - 1 : Tail(rest)[j] = rest[j + 1]
        BY <1>5, <2>4, HeadTailProperties
      <4>2. /\ Rest(b, i + 1) \in Seq(Words) /\ Len(Rest(b, i + 1)) = Len(b) - (i + 1)
            /\ \A j \in 1 .. Len(b) - (i + 1) : Rest(b, i + 1)[j] = b[i + 1 + j]
        BY <1>1, <3>2, RestOfSequence
      <4>3. Len(Rest(b, i + 1)) = Len(rest) - 1
        BY <1>1, <1>4, <1>5, <4>2
      <4>4. ASSUME NEW j \in 1 .. Len(rest) - 1 PROVE Tail(rest)[j] = Rest(b, i + 1)[j]
        <5>1. j + 1 \in 1 .. Len(b) - i /\ j \in 1 .. Len(b) - (i + 1) /\ i + (j + 1) = i + 1 + j
          BY <1>1, <1>4, <1>5, <4>4
        <5> QED
          BY <1>5, <4>1, <4>2, <5>1
      <4> HIDE DEF Rest
      <4> QED
        BY <4>1, <4>2, <4>3, <4>4, SeqEqual
    <3>4. Rest(b, i + 1) \o n = Rest(s, i + 1)
      BY <1>1, <3>2, RestOfConcat DEF s
    <3>5. Remaining(d, n) = Rest(s, i + 1)
      BY <3>1, <3>3, <3>4 DEF Remaining, Expecting
    <3> QED
      BY <1>3, <1>13, <1>15, <1>18, <2>4, <3>1, <3>5 DEF Expecting
  <2> QED
    BY <1>9, <2>1, <2>2, <2>3, <2>4
<1>20. RequestsOK(d, n)
  BY <1>12, <1>13, <1>17, <1>19 DEF RequestsOK
<1> QED
  BY <1>20 DEF d

LEMMA NothingIncomes ==
    ASSUME NEW c \in Connections
    PROVE  c.buffer \o Rest(<<>>, 0) = c.buffer /\ Rest(<<>>, 0) = <<>>
<1>1. c.buffer \in Seq(Words)
  BY DEF Connections
<1>2. Rest(<<>>, 0) = <<>>
  BY SubSeqEmpty DEF Rest
<1> QED
  BY <1>1, <1>2, ConcatEmptySeq

\* The connection with what is left of a block behind a body.
Received(c, block) ==
    [c EXCEPT !.content = 0, !.needs = 0,
              !.buffer = c.buffer \o Rest(block, IF Expecting(c) THEN 1 ELSE 0)]

\* incomingData() waits for more of a body, or forgets what it expected and
\* parses a request if there is one.
LEMMA IncomingDataCases ==
    ASSUME NEW c \in Connections, NEW block \in Seq(Words)
    PROVE  \/ /\ c.content # 0 /\ c.needs # 0
              /\ c.needs = All \/ Len(block) <= 1
              /\ IncomingData(c, block) = [c EXCEPT !.needs = IF c.needs = All THEN All ELSE IF block = <<>> THEN 1 ELSE 0]
           \/ /\ ~Expecting(c) \/ Len(block) > 1
              /\ c.content = 0 \/ c.needs # All
              /\ LET d == Received(c, block)
                 IN  IncomingData(c, block) =
                        IF \E i \in DOMAIN d.buffer : IsHead(d.buffer[i]) THEN NewRequest(d) ELSE d
<1> DEFINE expecting == c.content # 0 /\ c.needs > 0
           taken == IF ~expecting THEN 0
                    ELSE IF c.needs = All \/ Len(block) < c.needs THEN Len(block) ELSE c.needs
           rest == SubSeq(block, taken + 1, Len(block))
           d == [c EXCEPT !.content = 0, !.needs = 0, !.buffer = c.buffer \o rest]
           w == [c EXCEPT !.needs = IF c.needs = All THEN All ELSE c.needs - taken]
<1>1. /\ c.needs \in {0, 1, All} /\ All \in Nat /\ All > 1 /\ Len(block) \in Nat
      /\ block = <<>> <=> Len(block) = 0
  BY HttpTransferAssumption DEF Connections, All
<1>2. IncomingData(c, block) =
         IF expecting /\ rest = <<>> THEN w
         ELSE IF \E i \in DOMAIN d.buffer : IsHead(d.buffer[i]) THEN NewRequest(d) ELSE d
  BY Zenon DEF IncomingData
<1>3. taken \in 0 .. Len(block) /\ rest = Rest(block, taken)
  BY <1>1 DEF Rest
<1>4. Len(rest) = Len(block) - taken /\ (rest = <<>> <=> Len(block) = taken)
  <2> HIDE DEF taken, rest
  <2>1. Rest(block, taken) \in Seq(Words) /\ Len(Rest(block, taken)) = Len(block) - taken
    BY <1>3, RestOfSequence
  <2> QED
    BY <1>1, <1>3, <2>1
<1> HIDE DEF rest
<1>5. CASE expecting /\ rest = <<>>
  <2>1. IncomingData(c, block) = w
    BY <1>2, <1>5
  <2>2. c.needs = All \/ Len(block) <= 1
    BY <1>1, <1>4, <1>5
  <2>3. c.needs # All => c.needs - taken = IF block = <<>> THEN 1 ELSE 0
    BY <1>1, <1>4, <1>5
  <2>4. w = [c EXCEPT !.needs = IF c.needs = All THEN All ELSE IF block = <<>> THEN 1 ELSE 0]
    <3> HIDE DEF taken
    <3> QED
      BY <2>3
  <2> QED
    BY <1>1, <1>5, <2>1, <2>2, <2>4
<1>6. CASE ~(expecting /\ rest = <<>>)
  <2>1. IncomingData(c, block) = IF \E i \in DOMAIN d.buffer : IsHead(d.buffer[i]) THEN NewRequest(d) ELSE d
    BY <1>2, <1>6
  <2>2. c.content = 0 \/ c.needs # All
    BY <1>1, <1>4, <1>6
  <2>3. ~Expecting(c) \/ Len(block) > 1
    BY <1>1, <1>4, <1>6 DEF Expecting
  <2>4. taken = IF Expecting(c) THEN 1 ELSE 0
    BY <1>1, <2>2, <2>3 DEF Expecting
  <2>5. d = Received(c, block)
    <3> HIDE DEF taken
    <3> QED
      BY <1>3, <2>4 DEF Received
  <2> HIDE DEF d
  <2> QED
    BY <2>1, <2>2, <2>3, <2>5
<1> QED
  BY <1>5, <1>6

LEMMA WordsAssociate == \A s, t, u \in Seq(Words) : (s \o t) \o u = s \o (t \o u)
BY ConcatAssociative

LEMMA OneIsFirst == \A k \in Nat \ {0} : k <= 1 => k = 1
OBVIOUS

LEMMA ReceivedKeepsRequests ==
    ASSUME NEW c \in Connections, NEW block \in Seq(Words), NEW n \in Seq(Words),
           c.device # "gone", RequestsOK(c, block \o n),
           ~Expecting(c) \/ Len(block) > 1, c.content = 0 \/ c.needs # All
    PROVE  /\ Received(c, block) \in Connections
           /\ SameResponse(c, Received(c, block))
           /\ Received(c, block).content = 0 /\ Received(c, block).needs = 0
           /\ Received(c, block).parsed = c.parsed
           /\ RequestsOK(Received(c, block), n)
<1> DEFINE k == IF Expecting(c) THEN 1 ELSE 0
           buffer == c.buffer \o Rest(block, k)
           d == Received(c, block)
<1>1. c.buffer \in Seq(Words) /\ k \in 0 .. Len(block) /\ Len(block) \in Nat
  BY DEF Connections
<1>2. Rest(block, k) \in Seq(Words)
  <2> HIDE DEF k
  <2> QED
    BY <1>1, RestOfSequence
<1>3. buffer \in Seq(Words)
  <2> HIDE DEF k
  <2> QED
    BY <1>1, <1>2, ConcatProperties
<1>4. d = [c EXCEPT !.content = 0, !.needs = 0, !.buffer = buffer]
  BY DEF Received
<1> HIDE DEF buffer, d
<1>5. d \in Connections
  BY <1>3, <1>4 DEF Connections
<1>6. /\ SameResponse(c, d) /\ d.content = 0 /\ d.needs = 0 /\ d.buffer = buffer
      /\ d.parsed = c.parsed /\ d.sent = c.sent /\ d.dropped = c.dropped /\ d.final = c.final
      /\ d.garbled = c.garbled /\ d.device = c.device
  BY <1>4 DEF Connections, SameResponse
<1>7. buffer \o n = Remaining(c, block \o n)
  <2>1. CASE Expecting(c)
    <3>1. c.buffer = <<>> /\ k = 1
      BY <2>1 DEF RequestsOK
    <3>2. buffer = Rest(block, 1)
      <4>1. Rest(block, 1) \in Seq(Words)
        BY <1>2, <3>1
      <4> QED
        BY <3>1, <4>1, ConcatEmptySeq DEF buffer
    <3>3. 1 \in 0 .. Len(block)
      BY <1>1, <3>1
    <3>4. buffer \o n = Rest(block \o n, 1)
      BY <3>2, <3>3, RestOfConcat
    <3>5. block \o n \in Seq(Words) /\ block \o n # <<>>
      BY <2>1 DEF RequestsOK
    <3> QED
      BY <2>1, <3>4, <3>5, RestOfRest DEF Remaining
  <2>2. CASE ~Expecting(c)
    <3>1. buffer = c.buffer \o block
      <4>1. Rest(block, 0) = block
        BY SubSeqFull DEF Rest
      <4> QED
        BY <2>2, <4>1 DEF buffer
    <3>2. (c.buffer \o block) \o n = c.buffer \o (block \o n)
      <4>1. c.buffer \in Seq(Words)
        BY <1>1
      <4> QED
        BY <4>1, WordsAssociate, Zenon
    <3> QED
      BY <2>2, <3>1, <3>2 DEF Remaining
  <2> QED
    BY <2>1, <2>2
<1>8. Remaining(d, n) = buffer \o n /\ ~Expecting(d)
  BY <1>6 DEF Remaining, Expecting
<1>9. d.needs # All
  BY <1>6, HttpTransferAssumption DEF All
<1>10. c.parsed \in Nat
  BY DEF Connections
<1>11. RequestsOK(d, n)
  BY <1>6, <1>7, <1>8, <1>9, <1>10 DEF RequestsOK
<1> QED
  BY <1>5, <1>6, <1>11 DEF d

LEMMA IncomingDataKeepsRequests ==
    ASSUME NEW c \in Connections, NEW block \in Seq(Words), NEW n \in Seq(Words),
           c.device # "gone", RequestsOK(c, block \o n)
    PROVE  LET d == IncomingData(c, block)
           IN  /\ RequestsOK(d, n) /\ SameResponse(c, d)
               /\ d.parsed = c.parsed \/ d.parsed = c.parsed + 1
               /\ (\E i \in DOMAIN d.buffer : IsHead(d.buffer[i])) => d.parsed = c.parsed + 1
<1> DEFINE d == IncomingData(c, block)
           e == Received(c, block)
<1>1. block \o n \in Seq(Words) /\ c.buffer \in Seq(Words) /\ c.needs \in {0, 1, All} /\ All > 1 /\ All \in Nat
  BY HttpTransferAssumption DEF Connections, All
<1>2. CASE /\ c.content # 0 /\ c.needs # 0
           /\ c.needs = All \/ Len(block) <= 1
           /\ d = [c EXCEPT !.needs = IF c.needs = All THEN All ELSE IF block = <<>> THEN 1 ELSE 0]
  <2>1. /\ SameResponse(c, d) /\ d.buffer = c.buffer /\ d.content = c.content /\ d.parsed = c.parsed
        /\ d.final = c.final /\ d.dropped = c.dropped /\ d.garbled = c.garbled /\ d.sent = c.sent /\ d.device = c.device
        /\ d.needs = IF c.needs = All THEN All ELSE IF block = <<>> THEN 1 ELSE 0
    BY <1>2 DEF SameResponse, Connections
  <2> HIDE DEF d
  <2>2. c.buffer = <<>>
    BY <1>1, <1>2 DEF RequestsOK, Expecting
  <2>3. ~\E i \in DOMAIN d.buffer : IsHead(d.buffer[i])
    BY <2>1, <2>2
  <2>4. RequestsOK(d, n)
    <3>1. CASE c.needs = All
      <4>1. block \o n = <<>>
        BY <3>1 DEF RequestsOK
      <4>2. block = <<>> /\ n = <<>>
        BY <4>1, ConcatEqualIffEmpty
      <4>3. Remaining(d, n) = Remaining(c, block \o n) /\ ~Expecting(d)
        BY <1>1, <2>1, <3>1, <4>1, <4>2 DEF Remaining, Expecting
      <4> QED
        BY <1>1, <2>1, <3>1, <4>1, <4>2, <4>3 DEF RequestsOK, Expecting
    <3>2. CASE c.needs = 1 /\ block = <<>>
      <4>1. block \o n = n
        BY <3>2, ConcatEmptySeq
      <4>2. d.needs = c.needs
        BY <1>1, <2>1, <3>2
      <4>3. Remaining(d, n) = Remaining(c, n) /\ (Expecting(d) <=> Expecting(c))
        BY <2>1, <4>2 DEF Remaining, Expecting
      <4> QED
        BY <2>1, <4>1, <4>2, <4>3 DEF RequestsOK
    <3>3. CASE c.needs = 1 /\ block # <<>>
      <4>1. Expecting(c) /\ d.needs = 0 /\ ~Expecting(d) /\ d.needs # All /\ Len(block) = 1 /\ 1 \in 0 .. Len(block)
        <5>1. Len(block) = 1
          <6>1. Len(block) <= 1
            BY <1>1, <1>2, <3>3
          <6>2. Len(block) \in Nat \ {0}
            BY <3>3, EmptySeq
          <6> QED
            BY <6>1, <6>2, OneIsFirst, Zenon
        <5>2. d.needs = 0
          BY <1>1, <2>1, <3>3
        <5> QED
          BY <1>1, <1>2, <3>3, <5>1, <5>2 DEF Expecting
      <4>2. Remaining(c, block \o n) = Tail(block \o n)
        BY <4>1 DEF Remaining
      <4>3. Tail(block \o n) = n
        <5>1. block \o n # <<>>
          BY <4>1 DEF RequestsOK
        <5>2. Tail(block \o n) = Rest(block \o n, 1)
          BY <1>1, <5>1, RestOfRest
        <5>3. Rest(block \o n, 1) = Rest(block, 1) \o n
          <6>1. 1 \in 0 .. Len(block)
            BY <4>1
          <6> QED
            BY <6>1, RestOfConcat
        <5>4. Rest(block, 1) = <<>>
          BY <4>1, SubSeqEmpty DEF Rest
        <5> QED
          BY <5>2, <5>3, <5>4, ConcatEmptySeq
      <4>4. Remaining(d, n) = n
        <5>1. Remaining(d, n) = <<>> \o n
          BY <2>1, <2>2, <4>1 DEF Remaining
        <5> QED
          BY <5>1, ConcatEmptySeq
      <4> QED
        BY <1>1, <2>1, <2>2, <4>1, <4>2, <4>3, <4>4 DEF RequestsOK
    <3> QED
      BY <1>1, <1>2, <3>1, <3>2, <3>3
  <2> QED
    BY <2>1, <2>3, <2>4 DEF d
<1>3. CASE /\ ~Expecting(c) \/ Len(block) > 1
           /\ c.content = 0 \/ c.needs # All
           /\ d = IF \E i \in DOMAIN e.buffer : IsHead(e.buffer[i]) THEN NewRequest(e) ELSE e
  <2>1. /\ e \in Connections /\ SameResponse(c, e) /\ e.content = 0 /\ e.needs = 0
        /\ e.parsed = c.parsed /\ RequestsOK(e, n)
    BY <1>3, ReceivedKeepsRequests
  <2> HIDE DEF d, e
  <2>2. e.device # "gone"
    BY <2>1 DEF SameResponse
  <2>3. CASE \E i \in DOMAIN e.buffer : IsHead(e.buffer[i])
    <3>1. d = NewRequest(e)
      BY <1>3, <2>3
    <3>2. RequestsOK(d, n)
      BY <2>1, <2>2, <2>3, <3>1, NewRequestKeepsRequests
    <3>3. SameResponse(e, d) /\ d.parsed = e.parsed + 1
      BY <2>1, <2>3, <3>1, NewRequestIs
    <3>4. e.calls = c.calls
      BY DEF e, Received, Connections
    <3>5. SameResponse(c, d)
      BY <2>1, <3>3, <3>4 DEF SameResponse
    <3> QED
      BY <2>1, <3>2, <3>3, <3>5 DEF d
  <2>4. CASE ~\E i \in DOMAIN e.buffer : IsHead(e.buffer[i])
    <3>1. d = e
      BY <1>3, <2>4
    <3> QED
      BY <2>1, <2>4, <3>1 DEF d
  <2> QED
    BY <2>3, <2>4
<1> QED
  BY <1>2, <1>3, IncomingDataCases

-----------------------------------------------------------------------------
(* The wire w, written from the sources src.                               *)

Token(tok, r) == [tok |-> tok, rid |-> r]

Begun(w, r) == \E i \in DOMAIN w : w[i] = Token("header", r)

\* Every byte of the source went out, or a process was closed over it.
Complete(src, r) ==
    \/ src[r].avail = 0 /\ src[r].left = 0 /\ ~src[r].lost
    \/ src[r].kind = "cgi"

WireOK(w, src) ==
    \A i \in DOMAIN w :
       /\ w[i].tok = "header" <=> i = 1 \/ w[i].rid # w[i - 1].rid
       /\ w[i].tok = "header" => \A j \in 1 .. i - 1 : w[j].rid # w[i].rid
       /\ w[i].tok = "last" =>
             /\ Complete(src, w[i].rid)
             /\ i < Len(w) => w[i + 1].tok = "header"
       /\ src[w[i].rid] # NoSource
       /\ Begun(w, w[i].rid)

LEMMA WireGrows ==
    ASSUME NEW w \in Seq(Tokens), NEW src, NEW tok \in {"header", "data", "last"}, NEW r \in Rids,
           WireOK(w, src), src[r] # NoSource,
           tok = "header" => ~Begun(w, r),
           tok # "header" => w # <<>> /\ Last(w).rid = r /\ Last(w).tok # "last",
           tok = "last" => Complete(src, r)
    PROVE  LET v == Append(w, Token(tok, r))
           IN  /\ WireOK(v, src) /\ v \in Seq(Tokens) /\ v # <<>> /\ Last(v) = Token(tok, r)
               /\ \A q : Begun(v, q) <=> Begun(w, q) \/ (tok = "header" /\ q = r)
<1> DEFINE t == Token(tok, r)
           v == Append(w, t)
           N == Len(w)
<1>1. t \in Tokens /\ t.tok = tok /\ t.rid = r /\ (tok = "header" => t = Token("header", r))
  BY DEF Tokens, Token
<1> HIDE DEF t
<1>2. /\ v \in Seq(Tokens) /\ Len(v) = N + 1 /\ N \in Nat
      /\ \A i \in 1 .. N : v[i] = w[i]
      /\ v[N + 1] = t
  BY <1>1, AppendProperties
<1> HIDE DEF v
<1>3. Last(v) = t /\ v # <<>>
  BY <1>2 DEF Last
<1>4. \A q : Begun(v, q) <=> Begun(w, q) \/ (tok = "header" /\ q = r)
  <2> TAKE q
  <2>1. ASSUME Begun(v, q) PROVE Begun(w, q) \/ (tok = "header" /\ q = r)
    <3>1. PICK i \in DOMAIN v : v[i] = Token("header", q)
      BY <2>1 DEF Begun
    <3>2. CASE i \in 1 .. N
      <4>1. i \in DOMAIN w /\ w[i] = Token("header", q)
        BY <1>2, <3>1, <3>2
      <4> QED
        BY <4>1 DEF Begun
    <3>3. CASE i = N + 1
      <4>1. t = Token("header", q)
        BY <1>2, <3>1, <3>3
      <4>2. tok = "header" /\ r = q
        BY <1>1, <4>1 DEF Token
      <4> QED
        BY <4>2
    <3> QED
      BY <1>2, <3>2, <3>3
  <2>2. ASSUME Begun(w, q) PROVE Begun(v, q)
    <3>1. PICK i \in DOMAIN w : w[i] = Token("header", q)
      BY <2>2 DEF Begun
    <3>2. i \in DOMAIN v /\ v[i] = Token("header", q)
      BY <1>2, <3>1
    <3> QED
      BY <3>2 DEF Begun
  <2>3. ASSUME tok = "header", q = r PROVE Begun(v, q)
    <3>1. N + 1 \in DOMAIN v /\ v[N + 1] = Token("header", q)
      BY <1>1, <1>2, <2>3
    <3> QED
      BY <3>1 DEF Begun
  <2> QED
    BY <2>1, <2>2, <2>3
<1>5. tok # "header" => N \in 1 .. N /\ w[N].rid = r /\ w[N].tok # "last"
  BY <1>2 DEF Last
<1>6. WireOK(v, src)
  <2> SUFFICES ASSUME NEW i \in DOMAIN v
               PROVE  /\ v[i].tok = "header" <=> i = 1 \/ v[i].rid # v[i - 1].rid
                      /\ v[i].tok = "header" => \A j \in 1 .. i - 1 : v[j].rid # v[i].rid
                      /\ v[i].tok = "last" =>
                            /\ Complete(src, v[i].rid)
                            /\ i < Len(v) => v[i + 1].tok = "header"
                      /\ src[v[i].rid] # NoSource
                      /\ Begun(v, v[i].rid)
    BY DEF WireOK
  <2>1. CASE i \in 1 .. N
    <3>1. /\ w[i].tok = "header" <=> i = 1 \/ w[i].rid # w[i - 1].rid
          /\ w[i].tok = "header" => \A j \in 1 .. i - 1 : w[j].rid # w[i].rid
          /\ w[i].tok = "last" =>
                /\ Complete(src, w[i].rid)
                /\ i < N => w[i + 1].tok = "header"
          /\ src[w[i].rid] # NoSource
          /\ Begun(w, w[i].rid)
      BY <2>1 DEF WireOK
    <3>2. v[i] = w[i] /\ (i # 1 => v[i - 1] = w[i - 1]) /\ (i < N => v[i + 1] = w[i + 1])
      BY <1>2, <2>1
    <3>3. \A j \in 1 .. i - 1 : v[j] = w[j]
      BY <1>2, <2>1
    <3>4. ASSUME w[i].tok = "last", i = N PROVE v[i + 1].tok = "header"
      <4>1. tok = "header"
        BY <1>5, <3>4
      <4>2. v[i + 1] = t
        BY <1>2, <3>4
      <4> QED
        BY <1>1, <4>1, <4>2
    <3>5. i < Len(v) => i < N \/ i = N
      BY <1>2
    <3>6. Begun(v, v[i].rid)
      BY <1>4, <3>1, <3>2
    <3> QED
      BY <3>1, <3>2, <3>3, <3>4, <3>5, <3>6
  <2>2. CASE i = N + 1
    <3>1. v[i].tok = tok /\ v[i].rid = r
      BY <1>1, <1>2, <2>2
    <3>2. ~(i < Len(v))
      BY <1>2, <2>2
    <3>3. CASE tok = "header"
      <4>1. \A j \in 1 .. N : w[j].rid # r
        <5>1. \A j \in 1 .. N : Begun(w, w[j].rid)
          BY DEF WireOK
        <5> QED
          BY <3>3, <5>1
      <4>2. \A j \in 1 .. i - 1 : v[j].rid # r
        BY <1>2, <2>2, <4>1
      <4>3. i = 1 \/ i - 1 \in 1 .. i - 1
        BY <1>2, <2>2
      <4>4. i = 1 \/ v[i].rid # v[i - 1].rid
        BY <3>1, <4>2, <4>3
      <4>5. Begun(v, r)
        BY <1>4, <3>3
      <4> QED
        BY <3>1, <3>2, <3>3, <4>2, <4>4, <4>5
    <3>4. CASE tok # "header"
      <4>1. i # 1 /\ v[i - 1].rid = r
        BY <1>2, <1>5, <2>2, <3>4
      <4>2. Begun(w, r)
        <5>1. Begun(w, w[N].rid)
          BY <1>5, <3>4 DEF WireOK
        <5> QED
          BY <1>5, <3>4, <5>1
      <4>3. Begun(v, r)
        BY <1>4, <4>2
      <4> QED
        BY <3>1, <3>2, <3>4, <4>1, <4>3
    <3> QED
      BY <3>3, <3>4
  <2> QED
    BY <1>2, <2>1, <2>2
<1> QED
  BY <1>2, <1>3, <1>4, <1>6 DEF v, t

\* A source goes on, but what was complete stays so.
LEMMA WireKeeps ==
    ASSUME NEW w \in Seq(Tokens), NEW src, NEW dst, WireOK(w, src),
           \A q \in Rids : src[q] # NoSource /\ Complete(src, q) => Complete(dst, q),
           \A q \in Rids : src[q] # NoSource => dst[q] # NoSource
    PROVE  WireOK(w, dst)
<1>1. \A i \in DOMAIN w : w[i].rid \in Rids
  <2>1. \A i \in DOMAIN w : w[i] \in Tokens
    OBVIOUS
  <2>2. \A t \in Tokens : t.rid \in Rids
    BY DEF Tokens
  <2> QED
    BY <2>1, <2>2
<1> QED
  BY <1>1 DEF WireOK

-----------------------------------------------------------------------------
(* The response of a connection c from the sources src.                    *)

Current(c) == Last(c.wire).rid
Busy(c) == c.wire # <<>> /\ c.device # "gone" /\ ~c.finished
Queued(c, op) == \E i \in DOMAIN c.calls : c.calls[i].op = op

HandlersOK(c) ==
    /\ c.wire = <<>> \/ c.device = "gone" =>
          /\ c.onSource = 0 /\ c.onBytesWritten = 0
          /\ \A i \in DOMAIN c.calls : c.calls[i].op = "incoming"
    /\ c.wire = <<>> /\ c.device # "gone" => c.device = "open" /\ ~c.finished
    /\ c.device = "closing" => c.toWrite
    /\ c.device = "open" /\ c.finished => Last(c.wire).tok = "last"
    /\ c.aborted => c.device = "gone" /\ c.wire = <<>>
    /\ Busy(c) =>
          /\ Last(c.wire).tok # "last"
          /\ c.onSource = Current(c) /\ c.onBytesWritten = Current(c)
          /\ \A i \in DOMAIN c.calls : c.calls[i].op # "incoming" => c.calls[i].rid = Current(c)

ProgressOK(c, src) ==
    Busy(c) =>
       LET s == src[Current(c)]
       IN  /\ c.streaming <=> s.kind # "buffer"
           /\ c.sourceClosed \/ Queued(c, "closed") => s.ended
           /\ c.sourceClosed \/ ~c.streaming => s.avail > 0

\* The end of the source is noticed.
Noticed(c, src) ==
    Busy(c) /\ c.streaming /\ src[Current(c)].ended /\ ~src[Current(c)].early =>
       c.sourceClosed \/ Queued(c, "closed")

\* What is to be read will be sent.
Served(c, src) ==
    Busy(c) /\ src[Current(c)].avail > 0 => c.toWrite \/ Queued(c, "written") \/ Queued(c, "ready")

\* The server closes after a response.
ClosedOK(c, src) ==
    c.device # "open" /\ ~c.aborted /\ ~c.pipelined /\ c.wire # <<>> => Complete(src, Current(c))

\* Without pipelining the current response is that of the last request.
OrderOK(c) ==
    ~c.pipelined =>
       /\ \A r \in 1 .. c.sent - 1 : Begun(c.wire, r)
       /\ c.wire # <<>> /\ (c.device # "open" \/ ~c.finished) => Current(c) = c.sent

SourcesOK(c, src) ==
    \A r \in Rids :
       /\ src[r].kind = "none" => src[r] = NoSource
       /\ src[r].kind = "buffer" => src[r].left = 0
       /\ src[r].lost => src[r].kind = "cgi"
       /\ src[r].ended => src[r].left = 0
       /\ src[r].ended => src[r].early \/ Begun(c.wire, r)
       /\ r > c.parsed => src[r] = NoSource

TransferOK(c, src) ==
    /\ HandlersOK(c) /\ WireOK(c.wire, src)
    /\ ClosedOK(c, src) /\ OrderOK(c) /\ SourcesOK(c, src)

\* How a response ends.
Ends(c, d) ==
    \/ /\ d.device = c.device /\ d.finished /\ Last(d.wire).tok = "last"
       /\ c.device = "closing" => d.toWrite
    \/ d.device = "closing" /\ d.finished /\ d.toWrite
    \/ /\ d.device = "gone" /\ d.onSource = 0 /\ d.onBytesWritten = 0
       /\ \A i \in DOMAIN d.calls : d.calls[i].op = "incoming"

Written(c, r) ==
    {c.wire, Append(c.wire, Token("data", r)), Append(c.wire, Token("last", r)),
     Append(Append(c.wire, Token("data", r)), Token("last", r))}

LEMMA TokenTypes == \A t \in Tokens : t.rid \in Rids /\ t.rid # 0 /\ t.tok \in {"header", "data", "last"}
BY DEF Tokens, Rids

\* The whole response was read from its source, whose state is s now.
LEMMA EndKeepsTransfer ==
    ASSUME NEW c \in Connections, NEW d \in Connections, NEW src \in [Rids -> Sources], NEW r \in Rids,
           NEW s \in Sources, s.kind = src[r].kind, s.left = src[r].left, s.lost = src[r].lost,
           s.ended = src[r].ended, s.early = src[r].early, s.avail = 0,
           s # NoSource, src[r].avail > 0 \/ s = src[r],
           TransferOK(c, src), Busy(c), Current(c) = r,
           s.left = 0,
           d.wire \in Written(c, r), d.sent = c.sent, d.pipelined = c.pipelined, ~d.aborted,
           d.parsed >= c.parsed, Ends(c, d)
    PROVE  LET dst == [src EXCEPT ![r] = s]
           IN  TransferOK(d, dst) /\ ~Busy(d) /\ \A q : Begun(d.wire, q) <=> Begun(c.wire, q)
<1> DEFINE dst == [src EXCEPT ![r] = s]
<1>1. /\ c.wire \in Seq(Tokens) /\ d.wire \in Seq(Tokens) /\ c.wire # <<>>
      /\ c.device \in {"open", "closing"} /\ ~c.finished
      /\ c.parsed \in Nat /\ d.parsed \in Nat
      /\ Last(c.wire).rid = r /\ Last(c.wire).tok # "last"
  BY DEF Connections, Busy, Current, TransferOK, HandlersOK
<1>2. dst \in [Rids -> Sources] /\ dst[r] = s /\ \A q \in Rids : q # r => dst[q] = src[q]
  OBVIOUS
<1> HIDE DEF dst
<1>3. s.left = 0 /\ (~s.lost \/ s.kind = "cgi")
  BY DEF TransferOK, SourcesOK
<1>4. Complete(dst, r)
  BY <1>2, <1>3 DEF Complete
<1>5. WireOK(c.wire, dst)
  <2>1. \A q \in Rids : Complete(src, q) => Complete(dst, q)
    BY <1>2, <1>4 DEF Complete
  <2>2. \A q \in Rids : src[q] # NoSource => dst[q] # NoSource
    BY <1>2
  <2> QED
    BY <1>1, <2>1, <2>2, WireKeeps DEF TransferOK
<1>6. dst[r] # NoSource
  BY <1>2
<1>7. /\ WireOK(d.wire, dst) /\ d.wire # <<>> /\ Last(d.wire).rid = r
      /\ \A q : Begun(d.wire, q) <=> Begun(c.wire, q)
  <2> DEFINE D == Append(c.wire, Token("data", r))
             L == Append(c.wire, Token("last", r))
             DL == Append(D, Token("last", r))
  <2>1. /\ WireOK(D, dst) /\ D \in Seq(Tokens) /\ D # <<>> /\ Last(D) = Token("data", r)
        /\ \A q : Begun(D, q) <=> Begun(c.wire, q)
    BY <1>1, <1>5, <1>6, WireGrows
  <2>2. /\ WireOK(L, dst) /\ L \in Seq(Tokens) /\ L # <<>> /\ Last(L) = Token("last", r)
        /\ \A q : Begun(L, q) <=> Begun(c.wire, q)
    BY <1>1, <1>4, <1>5, <1>6, WireGrows
  <2>3. /\ WireOK(DL, dst) /\ DL \in Seq(Tokens) /\ DL # <<>> /\ Last(DL) = Token("last", r)
        /\ \A q : Begun(DL, q) <=> Begun(D, q)
    <3>1. Last(D).rid = r /\ Last(D).tok # "last"
      BY <2>1 DEF Token
    <3> HIDE DEF D
    <3> QED
      BY <1>4, <1>6, <2>1, <3>1, WireGrows
  <2>4. Token("data", r).rid = r /\ Token("last", r).rid = r
    BY DEF Token
  <2>5. d.wire \in {c.wire, D, L, DL}
    BY DEF Written
  <2> HIDE DEF D, L, DL
  <2> QED
    BY <1>1, <1>5, <2>1, <2>2, <2>3, <2>4, <2>5
<1>8. ~Busy(d)
  BY DEF Ends, Busy
<1>9. HandlersOK(d)
  BY <1>1, <1>7, <1>8 DEF HandlersOK, Ends
<1>10. ClosedOK(d, dst)
  BY <1>4, <1>7 DEF ClosedOK, Current
<1>11. OrderOK(d)
  BY <1>1, <1>7 DEF OrderOK, TransferOK, Current
<1>12. SourcesOK(d, dst)
  <2>1. SourcesOK(c, src)
    BY DEF TransferOK
  <2> SUFFICES ASSUME NEW q \in Rids
               PROVE  /\ dst[q].kind = "none" => dst[q] = NoSource
                      /\ dst[q].kind = "buffer" => dst[q].left = 0
                      /\ dst[q].lost => dst[q].kind = "cgi"
                      /\ dst[q].ended => dst[q].left = 0
                      /\ dst[q].ended => dst[q].early \/ Begun(d.wire, q)
                      /\ q > d.parsed => dst[q] = NoSource
    BY DEF SourcesOK
  <2>2. CASE q = r
    <3>1. ~(r > c.parsed) /\ s.kind # "none"
      <4>1. src[r] # NoSource
        BY DEF NoSource
      <4> QED
        BY <2>1, <4>1 DEF SourcesOK
    <3>2. ~(q > d.parsed)
      BY <1>1, <2>2, <3>1 DEF Rids
    <3> QED
      BY <1>2, <1>7, <2>1, <2>2, <3>1, <3>2 DEF SourcesOK
  <2>3. CASE q # r
    <3>1. q > d.parsed => q > c.parsed
      BY <1>1 DEF Rids
    <3> QED
      BY <1>2, <1>7, <2>1, <2>3, <3>1 DEF SourcesOK
  <2> QED
    BY <2>2, <2>3
<1> QED
  BY <1>5, <1>7, <1>8, <1>9, <1>10, <1>11, <1>12 DEF TransferOK, dst

-----------------------------------------------------------------------------
(* The handlers.                                                           *)

SameRequests(c, d) ==
    /\ d.buffer = c.buffer /\ d.content = c.content /\ d.needs = c.needs /\ d.parsed = c.parsed
    /\ d.sent = c.sent /\ d.final = c.final /\ d.garbled = c.garbled /\ d.dropped = c.dropped

LEMMA SameRequestsOK ==
    ASSUME NEW c, NEW d, NEW n, SameRequests(c, d), c.device # "gone", d.device # "gone", RequestsOK(c, n)
    PROVE  RequestsOK(d, n)
<1>1. Expecting(d) <=> Expecting(c)
  BY DEF SameRequests, Expecting
<1>2. Remaining(d, n) = Remaining(c, n)
  BY <1>1 DEF SameRequests, Remaining
<1> QED
  BY <1>1, <1>2 DEF SameRequests, RequestsOK

LEMMA GoneRequestsOK ==
    ASSUME NEW c, NEW d, NEW n, d.device = "gone", d.buffer = <<>>, d.content = 0, d.parsed = c.parsed,
           d.sent = c.sent, d.garbled = c.garbled, d.dropped = c.dropped, c.parsed \in Nat, RequestsOK(c, n)
    PROVE  RequestsOK(d, n)
BY DEF RequestsOK

LEMMA WriteIs ==
    ASSUME NEW c \in Connections, NEW tok \in {"header", "data", "last"}, NEW r \in Rids
    PROVE  LET d == Write(c, tok, r)
           IN  /\ d \in Connections /\ SameRequests(c, d)
               /\ d.wire = Append(c.wire, Token(tok, r)) /\ d.toWrite
               /\ d.device = c.device /\ d.calls = c.calls /\ d.onSource = c.onSource
               /\ d.onBytesWritten = c.onBytesWritten /\ d.finished = c.finished /\ d.keepAlive = c.keepAlive
               /\ d.streaming = c.streaming /\ d.sourceClosed = c.sourceClosed /\ d.chunked = c.chunked
               /\ d.pipelined = c.pipelined /\ d.aborted = c.aborted
<1>1. Write(c, tok, r) \in Connections
  BY WriteType
<1> QED
  BY <1>1 DEF Write, Token, Connections, SameRequests

LEMMA DropCallsIs ==
    ASSUME NEW c \in Connections, NEW ops
    PROVE  LET d == DropCalls(c, ops)
           IN  /\ d \in Connections
               /\ d = [c EXCEPT !.calls = d.calls]
               /\ \A i \in DOMAIN d.calls : \E j \in DOMAIN c.calls :
                     d.calls[i] = c.calls[j] /\ c.calls[j].op \notin ops
<1> DEFINE d == DropCalls(c, ops)
<1>1. d \in Connections
  BY DropCallsType
<1>2. c.calls \in Seq(Calls)
  BY DEF Connections
<1>3. d.calls = Without(c.calls, ops) /\ d = [c EXCEPT !.calls = d.calls]
  BY DEF DropCalls, Connections
<1>4. \A i \in DOMAIN Without(c.calls, ops) : \E j \in DOMAIN c.calls :
         Without(c.calls, ops)[i] = c.calls[j] /\ c.calls[j].op \notin ops
  BY <1>2, WithoutKeeps
<1> HIDE DEF d
<1>5. \A i \in DOMAIN d.calls : \E j \in DOMAIN c.calls : d.calls[i] = c.calls[j] /\ c.calls[j].op \notin ops
  BY <1>3, <1>4
<1> QED
  BY <1>1, <1>3, <1>5 DEF d

LEMMA CallTypes == \A x \in Calls : x.op \in {"written", "ready", "closed", "incoming"} /\ (x.op # "incoming" => x.rid \in Rids)
BY DEF Calls

LEMMA ClearHandlersIs ==
    ASSUME NEW c \in Connections
    PROVE  LET d == ClearHandlers(c)
           IN  /\ d \in Connections
               /\ d = [c EXCEPT !.calls = d.calls, !.onBytesWritten = 0, !.onSource = 0]
               /\ \A i \in DOMAIN d.calls : d.calls[i].op = "incoming"
<1> DEFINE e == DropCalls(c, {"written", "ready", "closed"})
           d == ClearHandlers(c)
<1>1. e \in Connections /\ e = [c EXCEPT !.calls = e.calls]
      /\ \A i \in DOMAIN e.calls : \E j \in DOMAIN c.calls :
            e.calls[i] = c.calls[j] /\ c.calls[j].op \notin {"written", "ready", "closed"}
  BY DropCallsIs
<1>2. d = [e EXCEPT !.onBytesWritten = 0, !.onSource = 0]
  BY DEF ClearHandlers
<1>3. d \in Connections
  BY ClearHandlersType
<1>4. c.calls \in Seq(Calls)
  BY DEF Connections
<1> HIDE DEF d, e
<1>5. \A j \in DOMAIN c.calls : c.calls[j].op \in {"written", "ready", "closed", "incoming"}
  BY <1>4, CallTypes
<1>6. d.calls = e.calls /\ d = [c EXCEPT !.calls = d.calls, !.onBytesWritten = 0, !.onSource = 0]
  BY <1>1, <1>2 DEF Connections
<1>7. \A i \in DOMAIN d.calls : d.calls[i].op = "incoming"
  BY <1>1, <1>5, <1>6
<1> QED
  BY <1>3, <1>6, <1>7 DEF d

LEMMA DisconnectedIs ==
    ASSUME NEW c \in Connections
    PROVE  LET d == Disconnected(c)
           IN  /\ d \in Connections
               /\ d.device = "gone" /\ d.onSource = 0 /\ d.onBytesWritten = 0 /\ ~d.aborted /\ ~d.finished
               /\ \A i \in DOMAIN d.calls : d.calls[i].op = "incoming"
               /\ d.wire = c.wire /\ d.sent = c.sent /\ d.pipelined = c.pipelined /\ d.parsed = c.parsed
               /\ d.buffer = <<>> /\ d.content = 0 /\ d.garbled = c.garbled /\ d.dropped = c.dropped
<1>1. Disconnected(c) \in Connections
  BY DisconnectedType
<1>2. \A i \in DOMAIN ClearHandlers(c).calls : ClearHandlers(c).calls[i].op = "incoming"
  BY ClearHandlersIs
<1> QED
  BY <1>1, <1>2 DEF Disconnected, NewConnection

LEMMA CloseConnectionEnds ==
    ASSUME NEW c \in Connections, NEW n, c.device # "gone", ~c.aborted, RequestsOK(c, n)
    PROVE  LET d == CloseConnection(c)
           IN  /\ d \in Connections /\ RequestsOK(d, n) /\ Ends(c, d) /\ d.device # "open"
               /\ d.wire = c.wire /\ d.sent = c.sent /\ d.pipelined = c.pipelined /\ ~d.aborted
               /\ d.parsed = c.parsed /\ (c.toWrite => d.device = "closing" /\ d.finished /\ d.toWrite)
<1> DEFINE e == [c EXCEPT !.finished = TRUE, !.device = "closing"]
           d == CloseConnection(c)
<1>1. e \in Connections /\ SameRequests(c, e) /\ e.device = "closing" /\ e.finished /\ e.toWrite = c.toWrite
      /\ e.wire = c.wire /\ e.pipelined = c.pipelined /\ e.aborted = c.aborted
  BY DEF Connections, SameRequests
<1>2. d = IF e.toWrite THEN e ELSE Disconnected(e)
  BY DEF CloseConnection
<1> HIDE DEF e, d
<1>3. CASE c.toWrite
  <2>1. d = e
    BY <1>1, <1>2, <1>3
  <2>2. RequestsOK(e, n)
    BY <1>1, SameRequestsOK
  <2> QED
    BY <1>1, <1>3, <2>1, <2>2 DEF Ends, SameRequests, d
<1>4. CASE ~c.toWrite
  <2>1. d = Disconnected(e)
    BY <1>1, <1>2, <1>4
  <2>2. /\ d \in Connections
        /\ d.device = "gone" /\ d.onSource = 0 /\ d.onBytesWritten = 0 /\ ~d.aborted
        /\ \A i \in DOMAIN d.calls : d.calls[i].op = "incoming"
        /\ d.wire = e.wire /\ d.sent = e.sent /\ d.pipelined = e.pipelined /\ d.parsed = e.parsed
        /\ d.buffer = <<>> /\ d.content = 0 /\ d.garbled = e.garbled /\ d.dropped = e.dropped
    BY <1>1, <2>1, DisconnectedIs
  <2>3. c.parsed \in Nat
    BY DEF Connections
  <2>4. RequestsOK(d, n)
    BY <1>1, <2>2, <2>3, GoneRequestsOK DEF SameRequests
  <2>5. Ends(c, d)
    BY <2>2 DEF Ends
  <2> QED
    BY <1>1, <1>4, <2>2, <2>4, <2>5 DEF SameRequests, d
<1> QED
  BY <1>3, <1>4

\* After a response there is nothing to parse, or a request was parsed.
Parsed(c, d) ==
    d.device = "open" /\ (\E i \in DOMAIN d.buffer : IsHead(d.buffer[i])) => d.parsed = c.parsed + 1

LEMMA SendEmptyChunkEnds ==
    ASSUME NEW c \in Connections, NEW n \in Seq(Words), NEW r \in Rids, c.device # "gone", ~c.finished,
           ~c.aborted, RequestsOK(c, n)
    PROVE  LET d == SendEmptyChunk(c, r)
           IN  /\ d \in Connections /\ RequestsOK(d, n) /\ Ends(c, d) /\ Parsed(c, d)
               /\ d.wire = Append(c.wire, Token("last", r)) /\ d.sent = c.sent
               /\ d.pipelined = c.pipelined /\ ~d.aborted
               /\ d.parsed = c.parsed \/ d.parsed = c.parsed + 1
<1> DEFINE f == [c EXCEPT !.finished = TRUE]
           d == Write(f, "last", r)
           e == DropCalls(d, {"written"})
           u == [e EXCEPT !.onBytesWritten = 0]
           g == SendEmptyChunk(c, r)
<1>1. g = IF d.keepAlive THEN IncomingData(u, <<>>) ELSE CloseConnection(d)
  BY Zenon DEF SendEmptyChunk
<1>2. /\ f \in Connections /\ SameRequests(c, f) /\ f.device = c.device /\ f.finished /\ f.wire = c.wire
      /\ f.pipelined = c.pipelined /\ ~f.aborted
  BY DEF Connections, SameRequests
<1> HIDE DEF f
<1>3. /\ d \in Connections /\ SameRequests(f, d)
      /\ d.wire = Append(f.wire, Token("last", r)) /\ d.toWrite
      /\ d.device = f.device /\ d.finished = f.finished
      /\ d.pipelined = f.pipelined /\ d.aborted = f.aborted
  BY <1>2, WriteIs
<1> HIDE DEF d
<1>4. e \in Connections /\ e = [d EXCEPT !.calls = e.calls]
  BY <1>3, DropCallsIs
<1> HIDE DEF e
<1>5. /\ u \in Connections /\ SameRequests(d, u) /\ u.device = d.device /\ u.finished = d.finished
      /\ u.wire = d.wire /\ u.pipelined = d.pipelined /\ u.aborted = d.aborted /\ u.toWrite = d.toWrite
  <2>1. u \in Connections
    BY <1>4, UnboundType
  <2> QED
    BY <1>3, <1>4, <2>1 DEF SameRequests, Connections
<1> HIDE DEF u, g
<1>6. c.wire \in Seq(Tokens) /\ Token("last", r) \in Tokens /\ c.parsed \in Nat
  BY DEF Connections, Token, Tokens
<1>7. Last(Append(c.wire, Token("last", r))) = Token("last", r)
  BY <1>6 DEF Last
<1>8. SameRequests(c, d) /\ SameRequests(c, u)
  BY <1>2, <1>3, <1>5 DEF SameRequests
<1>9. RequestsOK(d, n) /\ RequestsOK(u, n)
  BY <1>2, <1>3, <1>5, <1>8, SameRequestsOK
<1>10. CASE d.keepAlive
  <2>1. g = IncomingData(u, <<>>)
    BY <1>1, <1>10
  <2>2. <<>> \o n = n /\ <<>> \in Seq(Words)
    BY ConcatEmptySeq
  <2>3. RequestsOK(u, <<>> \o n) /\ u.device # "gone"
    BY <1>2, <1>3, <1>5, <1>9, <2>2
  <2>4. /\ RequestsOK(g, n) /\ SameResponse(u, g)
        /\ g.parsed = u.parsed \/ g.parsed = u.parsed + 1
        /\ (\E i \in DOMAIN g.buffer : IsHead(g.buffer[i])) => g.parsed = u.parsed + 1
    BY <1>5, <2>1, <2>2, <2>3, IncomingDataKeepsRequests
  <2>5. g \in Connections
    BY <1>5, <2>1, <2>2, IncomingDataType
  <2>6. /\ g.device = c.device /\ g.finished /\ g.wire = Append(c.wire, Token("last", r)) /\ g.toWrite
        /\ g.sent = c.sent /\ g.pipelined = c.pipelined /\ ~g.aborted
    BY <1>2, <1>3, <1>5, <1>8, <2>4 DEF SameResponse, SameRequests
  <2>7. Ends(c, g)
    BY <1>7, <2>6 DEF Ends, Token
  <2>8. u.parsed = c.parsed
    BY <1>8 DEF SameRequests
  <2> QED
    BY <2>4, <2>5, <2>6, <2>7, <2>8 DEF Parsed, g
<1>11. CASE ~d.keepAlive
  <2>1. g = CloseConnection(d)
    BY <1>1, <1>11
  <2>2. d.device # "gone" /\ ~d.aborted
    BY <1>2, <1>3
  <2>3. /\ g \in Connections /\ RequestsOK(g, n) /\ g.device = "closing" /\ g.finished /\ g.toWrite
        /\ g.wire = d.wire /\ g.sent = d.sent /\ g.pipelined = d.pipelined /\ ~g.aborted
        /\ g.parsed = d.parsed
    BY <1>3, <1>9, <2>1, <2>2, CloseConnectionEnds
  <2>4. Ends(c, g) /\ Parsed(c, g)
    BY <2>3 DEF Ends, Parsed
  <2> QED
    BY <1>2, <1>3, <1>8, <2>3, <2>4 DEF SameRequests, g
<1> QED
  BY <1>10, <1>11

-----------------------------------------------------------------------------
(* Steps that leave the current response alone.                            *)

SameTransfer(c, d) ==
    /\ d.device = c.device /\ d.onBytesWritten = c.onBytesWritten /\ d.onSource = c.onSource
    /\ d.finished = c.finished /\ d.streaming = c.streaming /\ d.sourceClosed = c.sourceClosed
    /\ d.wire = c.wire /\ d.sent = c.sent /\ d.pipelined = c.pipelined /\ d.aborted = c.aborted

\* A call was queued, is one of incomingData() or comes from a signal that is bound.
MayCall(c, x) ==
    \/ \E j \in DOMAIN c.calls : x = c.calls[j]
    \/ x.op = "incoming"
    \/ x.rid \in {c.onSource, c.onBytesWritten} \ {0}

LEMMA TransferKeeps ==
    ASSUME NEW c \in Connections, NEW d \in Connections, NEW src \in [Rids -> Sources], TransferOK(c, src),
           SameTransfer(c, d), d.device = "closing" => d.toWrite, d.parsed >= c.parsed,
           \A i \in DOMAIN d.calls : MayCall(c, d.calls[i])
    PROVE  TransferOK(d, src)
<1>1. (Busy(d) <=> Busy(c)) /\ Current(d) = Current(c)
  BY DEF SameTransfer, Busy, Current
<1>2. HandlersOK(c)
  BY DEF TransferOK
<1>3. ASSUME c.wire = <<>> \/ c.device = "gone", NEW i \in DOMAIN d.calls PROVE d.calls[i].op = "incoming"
  <2>1. c.onSource = 0 /\ c.onBytesWritten = 0 /\ \A j \in DOMAIN c.calls : c.calls[j].op = "incoming"
    BY <1>2, <1>3 DEF HandlersOK
  <2>2. MayCall(c, d.calls[i])
    OBVIOUS
  <2> QED
    BY <2>1, <2>2 DEF MayCall
<1>4. ASSUME Busy(c), NEW i \in DOMAIN d.calls, d.calls[i].op # "incoming" PROVE d.calls[i].rid = Current(c)
  <2>1. c.onSource = Current(c) /\ c.onBytesWritten = Current(c)
        /\ \A j \in DOMAIN c.calls : c.calls[j].op # "incoming" => c.calls[j].rid = Current(c)
    BY <1>2, <1>4 DEF HandlersOK
  <2>2. MayCall(c, d.calls[i])
    OBVIOUS
  <2> QED
    BY <1>4, <2>1, <2>2 DEF MayCall
<1>5. HandlersOK(d)
  BY <1>1, <1>2, <1>3, <1>4 DEF HandlersOK, SameTransfer
<1>6. WireOK(d.wire, src) /\ ClosedOK(d, src) /\ OrderOK(d)
  BY <1>1 DEF SameTransfer, TransferOK, ClosedOK, OrderOK
<1>7. SourcesOK(d, src)
  <2>1. \A r \in Rids : r > d.parsed => r > c.parsed
    BY SMTT(30) DEF Rids, Connections
  <2> QED
    BY <2>1 DEF SameTransfer, TransferOK, SourcesOK
<1> QED
  BY <1>5, <1>6, <1>7 DEF TransferOK

LEMMA ProgressKeeps ==
    ASSUME NEW c, NEW d, NEW src, ProgressOK(c, src), SameTransfer(c, d),
           Busy(c) /\ Queued(d, "closed") => Queued(c, "closed") \/ src[Current(c)].ended
    PROVE  ProgressOK(d, src)
<1>1. (Busy(d) <=> Busy(c)) /\ Current(d) = Current(c)
  BY DEF SameTransfer, Busy, Current
<1> QED
  BY <1>1 DEF ProgressOK, SameTransfer

\* The current response has a source.
LEMMA CurrentHasSource ==
    ASSUME NEW c \in Connections, NEW src, WireOK(c.wire, src), c.wire # <<>>
    PROVE  Current(c) \in Rids /\ src[Current(c)] # NoSource /\ Begun(c.wire, Current(c))
<1>1. c.wire \in Seq(Tokens)
  BY DEF Connections
<1>2. Len(c.wire) \in DOMAIN c.wire
  BY <1>1
<1>3. c.wire[Len(c.wire)] \in Tokens
  BY <1>1, <1>2
<1>4. c.wire[Len(c.wire)].rid \in Rids
  BY <1>3, TokenTypes
<1>5. Current(c) = c.wire[Len(c.wire)].rid
  BY DEF Current, Last
<1> QED
  BY <1>2, <1>4, <1>5 DEF WireOK

\* Sources go on.
LEMMA SourcesChange ==
    ASSUME NEW c \in Connections, NEW src, NEW dst, TransferOK(c, src), SourcesOK(c, dst),
           \A q \in Rids : src[q] # NoSource => dst[q] # NoSource /\ (Complete(src, q) => Complete(dst, q))
    PROVE  TransferOK(c, dst)
<1>1. c.wire \in Seq(Tokens)
  BY DEF Connections
<1>2. WireOK(c.wire, dst)
  BY <1>1, WireKeeps DEF TransferOK
<1>3. ClosedOK(c, dst)
  BY CurrentHasSource DEF TransferOK, ClosedOK
<1> QED
  BY <1>2, <1>3 DEF TransferOK

-----------------------------------------------------------------------------
(* The handlers of a source, run for page r.                               *)

MayRun(c, src, r, n) ==
    /\ c.device # "gone" /\ c.wire # <<>>
    /\ ~c.finished => Current(c) = r
    /\ TransferOK(c, src) /\ ProgressOK(c, src) /\ RequestsOK(c, n)

\* What a handler leaves, dst being the sources then.
HasRun(c, d, dst, n) ==
    /\ d \in Connections
    /\ TransferOK(d, dst) /\ ProgressOK(d, dst) /\ RequestsOK(d, n)
    /\ \A q : Begun(d.wire, q) <=> Begun(c.wire, q)
    /\ d.parsed = c.parsed \/ d.parsed = c.parsed + 1
    /\ d.device = "open" => c.device = "open"
    /\ Busy(c) /\ ~Busy(d) => Parsed(c, d)
    /\ Busy(d) => Busy(c) /\ Current(d) = Current(c) /\ d.streaming = c.streaming
    /\ ~Busy(c) => d = c

LEMMA NotRun ==
    ASSUME NEW c \in Connections, NEW src, NEW r, NEW n, MayRun(c, src, r, n)
    PROVE  HasRun(c, c, src, n)
BY DEF MayRun, HasRun

LEMMA EndHasRun ==
    ASSUME NEW c \in Connections, NEW d \in Connections, NEW dst, NEW n, Busy(c), ~Busy(d),
           TransferOK(d, dst), RequestsOK(d, n), \A q : Begun(d.wire, q) <=> Begun(c.wire, q),
           d.parsed = c.parsed \/ d.parsed = c.parsed + 1, Ends(c, d), Parsed(c, d)
    PROVE  HasRun(c, d, dst, n)
<1>1. d.device = "open" => c.device = "open"
  BY DEF Ends
<1>2. ProgressOK(d, dst)
  BY DEF ProgressOK
<1> QED
  BY <1>1, <1>2 DEF HasRun

LEMMA SourceClosedRuns ==
    ASSUME NEW c \in Connections, NEW src \in [Rids -> Sources], NEW r \in Rids, NEW n \in Seq(Words),
           MayRun(c, src, r, n), Busy(c) => src[r].ended
    PROVE  LET d == SourceClosed(c, r, src[r])
           IN  HasRun(c, d, src, n) /\ Noticed(d, src) /\ (Served(c, src) => Served(d, src))
<1> DEFINE e == [c EXCEPT !.sourceClosed = TRUE]
           d == SourceClosed(c, r, src[r])
           s == src[r]
<1>1. d = IF c.finished THEN c ELSE IF s.avail > 0 THEN e ELSE IF c.chunked THEN SendEmptyChunk(e, r)
          ELSE CloseConnection(e)
  BY DEF SourceClosed
<1>2. d \in Connections
  BY SourceClosedType
<1>3. /\ e \in Connections /\ SameRequests(c, e) /\ e.device = c.device /\ e.finished = c.finished /\ e.wire = c.wire
      /\ e.pipelined = c.pipelined /\ e.aborted = c.aborted /\ e.toWrite = c.toWrite /\ e.calls = c.calls
      /\ e.onSource = c.onSource /\ e.onBytesWritten = c.onBytesWritten /\ e.streaming = c.streaming /\ e.sourceClosed
  BY DEF Connections, SameRequests
<1>4. s \in Sources /\ c.finished \in BOOLEAN /\ c.parsed \in Nat
  BY DEF Connections
<1> HIDE DEF d, e
<1>5. RequestsOK(e, n) /\ e.device # "gone"
  BY <1>3, SameRequestsOK DEF MayRun
<1>6. CASE c.finished
  <2>1. d = c
    BY <1>1, <1>6
  <2>2. ~Busy(c)
    BY <1>6 DEF Busy
  <2> QED
    BY <2>1, <2>2, NotRun DEF Noticed, d
<1>7. CASE ~c.finished /\ s.avail > 0
  <2>1. d = e
    BY <1>1, <1>7
  <2>2. Current(c) = r /\ Busy(c)
    BY <1>7 DEF MayRun, Busy
  <2>3. Busy(e) /\ Current(e) = r /\ (\A op : Queued(e, op) <=> Queued(c, op))
    BY <1>3, <2>2 DEF Busy, Current, Queued
  <2>4. HandlersOK(e)
    BY <1>3, <2>2, <2>3 DEF HandlersOK, MayRun, TransferOK, Current
  <2>5. ProgressOK(e, src)
    BY <1>3, <1>7, <2>2, <2>3 DEF ProgressOK, MayRun
  <2>6. TransferOK(e, src)
    BY <1>3, <2>2, <2>3, <2>4 DEF ClosedOK, OrderOK, SourcesOK, MayRun, TransferOK, SameRequests
  <2>7. HasRun(c, e, src, n)
    BY <1>3, <1>5, <2>2, <2>3, <2>5, <2>6 DEF HasRun, SameRequests
  <2>8. (Served(c, src) => Served(e, src)) /\ Noticed(e, src)
    BY <1>3, <2>2, <2>3 DEF Served, Noticed
  <2> QED
    BY <2>1, <2>7, <2>8 DEF d
<1>8. CASE ~c.finished /\ ~(s.avail > 0)
  <2>1. Current(c) = r /\ Busy(c) /\ s.avail = 0
    BY <1>4, <1>8 DEF MayRun, Busy, Sources
  <2>2. ~c.aborted /\ ~e.aborted /\ ~e.finished
    BY <1>3, <1>8 DEF MayRun, TransferOK, HandlersOK
  <2>3. s # NoSource /\ s.left = 0
    <3>1. WireOK(c.wire, src) /\ c.wire # <<>> /\ SourcesOK(c, src)
      BY DEF MayRun, TransferOK
    <3> QED
      BY <2>1, <3>1, CurrentHasSource DEF SourcesOK
  <2>4. /\ RequestsOK(d, n) /\ Ends(e, d) /\ Parsed(e, d) /\ d.wire \in Written(c, r) /\ d.sent = e.sent
        /\ d.pipelined = e.pipelined /\ ~d.aborted /\ (d.parsed = e.parsed \/ d.parsed = e.parsed + 1)
    <3>1. CASE c.chunked
      <4>1. d = SendEmptyChunk(e, r)
        BY <1>1, <1>8, <3>1
      <4> QED
        BY <1>3, <1>5, <2>2, <4>1, SendEmptyChunkEnds DEF Written
    <3>2. CASE ~c.chunked
      <4>1. d = CloseConnection(e)
        BY <1>1, <1>8, <3>2
      <4>2. /\ RequestsOK(d, n) /\ Ends(e, d) /\ d.device # "open"
            /\ d.wire = e.wire /\ d.sent = e.sent /\ d.pipelined = e.pipelined /\ ~d.aborted
            /\ d.parsed = e.parsed
        BY <1>3, <1>5, <2>2, <4>1, CloseConnectionEnds
      <4> QED
        BY <1>3, <4>2 DEF Written, Parsed
    <3> QED
      BY <3>1, <3>2
  <2>5. Ends(c, d) /\ Parsed(c, d) /\ d.sent = c.sent /\ d.pipelined = c.pipelined
        /\ (d.parsed = c.parsed \/ d.parsed = c.parsed + 1) /\ d.parsed >= c.parsed
    <3>1. e.parsed = c.parsed /\ e.sent = c.sent
      BY <1>3 DEF SameRequests
    <3> QED
      BY <1>3, <1>4, <2>4, <3>1 DEF Ends, Parsed
  <2>6. [src EXCEPT ![r] = s] = src
    OBVIOUS
  <2>7. TransferOK(d, src) /\ ~Busy(d) /\ (\A q : Begun(d.wire, q) <=> Begun(c.wire, q))
    <3>1. TransferOK(c, src)
      BY DEF MayRun
    <3> HIDE DEF s
    <3>2. s \in Sources /\ s = src[r]
      BY <1>4 DEF s
    <3> QED
      BY <1>2, <2>1, <2>3, <2>4, <2>5, <2>6, <3>1, <3>2, EndKeepsTransfer
  <2>8. HasRun(c, d, src, n)
    BY <1>2, <2>1, <2>4, <2>5, <2>7, EndHasRun
  <2> QED
    BY <2>7, <2>8 DEF Served, Noticed, d
<1> QED
  BY <1>4, <1>6, <1>7, <1>8

LEMMA ReadFromIs ==
    ASSUME NEW s \in Sources, s.avail > 0
    PROVE  LET t == ReadFrom(s)
           IN  /\ t \in Sources /\ t.avail = s.avail - 1 /\ t.kind = s.kind /\ t.left = s.left
               /\ t.ended = s.ended /\ t.early = s.early /\ t.lost = s.lost
BY DEF ReadFrom, Sources

\* One read of the source is written.
WithData(c, r) == [Write(c, "data", r) EXCEPT !.readyRead = FALSE]

AfterRead(src, r) == [src EXCEPT ![r] = ReadFrom(src[r])]

LEMMA DataIsSent ==
    ASSUME NEW c \in Connections, NEW src \in [Rids -> Sources], NEW r \in Rids,
           TransferOK(c, src), Busy(c), Current(c) = r, src[r].avail > 0
    PROVE  LET d == WithData(c, r)
               dst == AfterRead(src, r)
           IN  /\ d \in Connections /\ SameRequests(c, d) /\ TransferOK(d, dst)
               /\ d.wire = Append(c.wire, Token("data", r)) /\ d.toWrite /\ d.calls = c.calls
               /\ d.device = c.device /\ d.finished = c.finished /\ d.chunked = c.chunked
               /\ d.streaming = c.streaming /\ d.sourceClosed = c.sourceClosed
               /\ d.pipelined = c.pipelined /\ d.aborted = c.aborted
               /\ Busy(d) /\ Current(d) = r /\ (\A q : Begun(d.wire, q) <=> Begun(c.wire, q))
<1> DEFINE w == Write(c, "data", r)
           d == WithData(c, r)
           dst == AfterRead(src, r)
<1>1. d = [w EXCEPT !.readyRead = FALSE] /\ dst = [src EXCEPT ![r] = ReadFrom(src[r])]
  BY DEF WithData, AfterRead
<1>2. /\ w \in Connections /\ SameRequests(c, w)
      /\ w.wire = Append(c.wire, Token("data", r)) /\ w.toWrite
      /\ w.device = c.device /\ w.calls = c.calls /\ w.onSource = c.onSource
      /\ w.onBytesWritten = c.onBytesWritten /\ w.finished = c.finished
      /\ w.streaming = c.streaming /\ w.sourceClosed = c.sourceClosed /\ w.chunked = c.chunked
      /\ w.pipelined = c.pipelined /\ w.aborted = c.aborted
  BY WriteIs
<1> HIDE DEF w, d, dst
<1>3. /\ d \in Connections /\ SameRequests(c, d)
      /\ d.wire = Append(c.wire, Token("data", r)) /\ d.toWrite
      /\ d.device = c.device /\ d.calls = c.calls /\ d.onSource = c.onSource
      /\ d.onBytesWritten = c.onBytesWritten /\ d.finished = c.finished
      /\ d.streaming = c.streaming /\ d.sourceClosed = c.sourceClosed /\ d.chunked = c.chunked
      /\ d.pipelined = c.pipelined /\ d.aborted = c.aborted
  BY <1>1, <1>2 DEF Connections, SameRequests
<1>4. /\ dst[r].kind = src[r].kind /\ dst[r].left = src[r].left /\ dst[r].ended = src[r].ended
      /\ dst[r].early = src[r].early /\ dst[r].lost = src[r].lost /\ dst[r].avail = src[r].avail - 1
      /\ \A q \in Rids : q # r => dst[q] = src[q]
  <2>1. dst[r] = ReadFrom(src[r]) /\ (\A q \in Rids : q # r => dst[q] = src[q])
    BY <1>1
  <2> QED
    BY <2>1, ReadFromIs
<1>5. HandlersOK(c) /\ WireOK(c.wire, src) /\ SourcesOK(c, src) /\ c.wire # <<>> /\ c.device # "gone" /\ ~c.finished
  BY DEF TransferOK, Busy
<1>6. src[r] # NoSource /\ Begun(c.wire, r) /\ src[r].avail \in Nat /\ src[r].kind # "none"
  <2>1. src[r] \in Sources /\ src[r].avail # 0
    OBVIOUS
  <2>2. src[r] # NoSource
    BY <2>1 DEF NoSource
  <2>3. Begun(c.wire, r)
    BY <1>5, CurrentHasSource
  <2>4. src[r].avail \in Nat
    BY <2>1 DEF Sources
  <2> QED
    BY <1>5, <2>2, <2>3, <2>4 DEF SourcesOK
<1>7. Complete(src, r) => Complete(dst, r)
  BY <1>4 DEF Complete
<1>8. dst[r] # NoSource
  BY <1>4, <1>6 DEF NoSource
<1>9. TransferOK(c, dst)
  <2>1. SourcesOK(c, dst)
    <3> SUFFICES ASSUME NEW q \in Rids
                 PROVE  /\ dst[q].kind = "none" => dst[q] = NoSource
                        /\ dst[q].kind = "buffer" => dst[q].left = 0
                        /\ dst[q].lost => dst[q].kind = "cgi"
                        /\ dst[q].ended => dst[q].left = 0
                        /\ dst[q].ended => dst[q].early \/ Begun(c.wire, q)
                        /\ q > c.parsed => dst[q] = NoSource
      BY DEF SourcesOK
    <3>1. CASE q = r
      BY <1>4, <1>5, <1>6, <3>1 DEF SourcesOK
    <3>2. CASE q # r
      BY <1>4, <1>5, <3>2 DEF SourcesOK
    <3> QED
      BY <3>1, <3>2
  <2>2. \A q \in Rids : src[q] # NoSource => dst[q] # NoSource /\ (Complete(src, q) => Complete(dst, q))
    <3> SUFFICES ASSUME NEW q \in Rids, src[q] # NoSource
                 PROVE  dst[q] # NoSource /\ (Complete(src, q) => Complete(dst, q))
      OBVIOUS
    <3>1. CASE q = r
      BY <1>7, <1>8, <3>1
    <3>2. CASE q # r
      BY <1>4, <3>2 DEF Complete
    <3> QED
      BY <3>1, <3>2
  <2> QED
    BY <2>1, <2>2, SourcesChange
<1>10. /\ WireOK(d.wire, dst) /\ d.wire # <<>> /\ Last(d.wire) = Token("data", r)
      /\ \A q : Begun(d.wire, q) <=> Begun(c.wire, q)
  <2>1. Last(c.wire).rid = r /\ Last(c.wire).tok # "last" /\ c.wire \in Seq(Tokens)
    BY <1>5 DEF HandlersOK, Current, Connections
  <2>2. WireOK(c.wire, dst)
    BY <1>9 DEF TransferOK
  <2> QED
    BY <1>3, <1>5, <1>8, <2>1, <2>2, WireGrows
<1>11. Current(d) = r /\ Busy(d) /\ Last(d.wire).tok # "last"
  BY <1>3, <1>5, <1>10 DEF Current, Busy, Token
<1>12. HandlersOK(d)
  BY <1>3, <1>5, <1>10, <1>11 DEF HandlersOK
<1>13. ClosedOK(d, dst) /\ OrderOK(d)
  BY <1>3, <1>5, <1>9, <1>10, <1>11 DEF TransferOK, ClosedOK, OrderOK, SameRequests
<1>14. SourcesOK(d, dst)
  BY <1>3, <1>9, <1>10 DEF TransferOK, SourcesOK, SameRequests
<1> QED
  BY <1>3, <1>10, <1>11, <1>12, <1>13, <1>14 DEF TransferOK, d, dst

LEMMA SendNextRuns ==
    ASSUME NEW c \in Connections, NEW src \in [Rids -> Sources], NEW r \in Rids, NEW n \in Seq(Words),
           MayRun(c, src, r, n)
    PROVE  LET d == SendNext(c, r, src[r])
               dst == [src EXCEPT ![r] = SourceAfter(c, src[r])]
           IN  HasRun(c, d, dst, n) /\ Served(d, dst) /\ (Noticed(c, src) => Noticed(d, dst))
<1> DEFINE s == src[r]
           w == WithData(c, r)
           e == [c EXCEPT !.readyRead = FALSE]
           d == SendNext(c, r, s)
           dst == [src EXCEPT ![r] = SourceAfter(c, s)]
           read == AfterRead(src, r)
<1>1. d = IF c.finished THEN c
          ELSE IF s.avail = 0 THEN e
          ELSE IF ~Exhausted(c, ReadFrom(s)) THEN w
               ELSE IF c.chunked THEN SendEmptyChunk(w, r)
               ELSE ClearHandlers(CloseConnection(w))
  BY DEF SendNext, WithData
<1>2. d \in Connections /\ c.finished \in BOOLEAN /\ s \in Sources /\ s.avail \in Nat
  BY SendNextType DEF Connections, Sources
<1>3. dst = IF c.finished \/ s.avail = 0 THEN src ELSE read
  BY DEF SourceAfter, AfterRead
<1>4. TransferOK(c, src) /\ ProgressOK(c, src) /\ RequestsOK(c, n) /\ (~c.finished => Busy(c) /\ Current(c) = r)
  BY DEF MayRun, Busy
<1> HIDE DEF d, dst
<1>5. CASE c.finished
  <2>1. d = c /\ dst = src /\ ~Busy(c)
    BY <1>1, <1>3, <1>5 DEF Busy
  <2> QED
    BY <2>1, NotRun DEF Served, Noticed, d, dst
<1>6. CASE ~c.finished /\ s.avail = 0
  <2>1. d = e /\ dst = src
    BY <1>1, <1>3, <1>6
  <2>2. /\ e \in Connections /\ SameRequests(c, e) /\ SameTransfer(c, e) /\ e.calls = c.calls /\ e.toWrite = c.toWrite
        /\ e.parsed >= c.parsed
    <3>1. e \in Connections /\ e.calls = c.calls /\ e.toWrite = c.toWrite /\ e.parsed = c.parsed /\ c.parsed \in Nat
      BY DEF Connections
    <3>2. SameRequests(c, e)
      BY DEF SameRequests, Connections
    <3>3. SameTransfer(c, e)
      BY DEF SameTransfer, Connections
    <3> QED
      BY <3>1, <3>2, <3>3
  <2> HIDE DEF e
  <2>3. (Busy(e) <=> Busy(c)) /\ Current(e) = Current(c) /\ (Queued(e, "closed") <=> Queued(c, "closed"))
    BY <2>2 DEF SameTransfer, Busy, Current, Queued
  <2>4. TransferOK(e, src)
    <3>1. e.device = "closing" => e.toWrite
      BY <1>4, <2>2 DEF TransferOK, HandlersOK, SameTransfer
    <3>2. \A i \in DOMAIN e.calls : MayCall(c, e.calls[i])
      BY <2>2 DEF MayCall
    <3> QED
      BY <1>4, <2>2, <3>1, <3>2, TransferKeeps
  <2>5. ProgressOK(e, src)
    BY <1>4, <2>2, <2>3, ProgressKeeps
  <2>6. RequestsOK(e, n)
    BY <1>4, <2>2, SameRequestsOK DEF SameTransfer, MayRun
  <2>7. HasRun(c, e, src, n)
    BY <1>4, <1>6, <2>2, <2>3, <2>4, <2>5, <2>6 DEF HasRun, SameTransfer, SameRequests
  <2>8. Served(e, src)
    BY <1>4, <1>6, <2>3 DEF Served
  <2>9. Noticed(c, src) => Noticed(e, src)
    BY <2>2, <2>3 DEF Noticed, SameTransfer
  <2> QED
    BY <2>1, <2>7, <2>8, <2>9 DEF d, dst
<1>7. CASE ~c.finished /\ s.avail # 0
  <2>1. dst = read /\ Busy(c) /\ Current(c) = r /\ s.avail > 0 /\ c.device # "gone"
    BY <1>2, <1>3, <1>4, <1>7 DEF MayRun
  <2>2. /\ w \in Connections /\ SameRequests(c, w) /\ TransferOK(w, read)
        /\ w.wire = Append(c.wire, Token("data", r)) /\ w.toWrite /\ w.calls = c.calls
        /\ w.device = c.device /\ w.finished = c.finished /\ w.chunked = c.chunked
        /\ w.streaming = c.streaming /\ w.sourceClosed = c.sourceClosed
        /\ w.pipelined = c.pipelined /\ w.aborted = c.aborted
        /\ Busy(w) /\ Current(w) = r /\ (\A q : Begun(w.wire, q) <=> Begun(c.wire, q))
    <3>1. src[r].avail > 0
      BY <2>1
    <3> QED
      BY <1>4, <2>1, <3>1, DataIsSent
  <2> HIDE DEF w
  <2>3. RequestsOK(w, n)
    BY <1>4, <2>1, <2>2, SameRequestsOK
  <2>4. /\ read[r].kind = s.kind /\ read[r].left = s.left /\ read[r].ended = s.ended
        /\ read[r].early = s.early /\ read[r].lost = s.lost /\ read[r].avail = s.avail - 1
        /\ read[r] = ReadFrom(s) /\ ReadFrom(s) \in Sources
    <3>1. read[r] = ReadFrom(s)
      BY DEF AfterRead
    <3> HIDE DEF read, s
    <3> QED
      BY <1>2, <2>1, <3>1, ReadFromIs
  <2>5. Queued(w, "closed") <=> Queued(c, "closed")
    BY <2>2 DEF Queued
  <2> HIDE DEF read, s
  <2>6. CASE ~Exhausted(c, ReadFrom(s))
    <3>1. d = w
      BY <1>1, <1>7, <2>6
    <3>2. ProgressOK(w, read)
      <4>1. (c.streaming /\ ~c.sourceClosed) \/ read[r].avail > 0
        BY <1>2, <2>1, <2>4, <2>6 DEF Exhausted
      <4>2. (c.streaming <=> s.kind # "buffer") /\ (c.sourceClosed \/ Queued(c, "closed") => s.ended)
        BY <1>4, <2>1 DEF ProgressOK, s
      <4> QED
        BY <2>2, <2>4, <2>5, <4>1, <4>2 DEF ProgressOK
    <3>3. HasRun(c, w, read, n)
      BY <2>1, <2>2, <2>3, <3>2 DEF HasRun, SameRequests
    <3>4. Served(w, read)
      BY <2>2 DEF Served
    <3>5. Noticed(c, src) => Noticed(w, read)
      BY <2>1, <2>2, <2>4, <2>5 DEF Noticed, s
    <3> QED
      BY <2>1, <3>1, <3>3, <3>4, <3>5 DEF d, dst, s
  <2>7. CASE Exhausted(c, ReadFrom(s))
    <3>1. read[r].avail = 0 /\ s.left = 0
      <4>1. s.kind = "buffer" \/ s.ended
        BY <1>4, <2>1, <2>7 DEF ProgressOK, Exhausted, s
      <4> QED
        BY <1>4, <2>4, <2>7, <4>1 DEF TransferOK, SourcesOK, Exhausted, s
    <3>2. ~c.aborted /\ ~w.aborted /\ ~w.finished /\ w.device # "gone"
      BY <1>4, <1>7, <2>1, <2>2 DEF TransferOK, HandlersOK, Busy
    <3>3. /\ RequestsOK(d, n) /\ Ends(w, d) /\ Parsed(w, d) /\ d.wire \in Written(c, r) /\ d.sent = w.sent
          /\ d.pipelined = w.pipelined /\ ~d.aborted /\ (d.parsed = w.parsed \/ d.parsed = w.parsed + 1)
      <4>1. CASE c.chunked
        <5>1. d = SendEmptyChunk(w, r)
          BY <1>1, <1>7, <2>7, <4>1
        <5> QED
          BY <2>2, <2>3, <3>2, <5>1, SendEmptyChunkEnds, SMTT(30) DEF Written
      <4>2. CASE ~c.chunked
        <5> DEFINE f == CloseConnection(w)
        <5>1. d = ClearHandlers(f)
          BY <1>1, <1>7, <2>7, <4>2
        <5>2. /\ f \in Connections /\ RequestsOK(f, n) /\ f.device = "closing" /\ f.finished /\ f.toWrite
              /\ f.wire = w.wire /\ f.sent = w.sent /\ f.pipelined = w.pipelined /\ ~f.aborted
              /\ f.parsed = w.parsed
          BY <2>2, <2>3, <3>2, CloseConnectionEnds
        <5> HIDE DEF f
        <5>3. d = [f EXCEPT !.calls = d.calls, !.onBytesWritten = 0, !.onSource = 0]
          BY <5>1, <5>2, ClearHandlersIs
        <5>4. /\ SameRequests(f, d) /\ d.device = "closing" /\ d.finished /\ d.toWrite /\ d.wire = f.wire
              /\ d.sent = f.sent /\ d.pipelined = f.pipelined /\ d.aborted = f.aborted /\ d.parsed = f.parsed
          BY <1>2, <5>2, <5>3 DEF SameRequests, Connections
        <5>5. RequestsOK(d, n)
          BY <5>2, <5>4, SameRequestsOK
        <5> QED
          BY <2>2, <5>2, <5>4, <5>5 DEF Ends, Parsed, Written
      <4> QED
        BY <4>1, <4>2
    <3>4. /\ Ends(c, d) /\ Parsed(c, d) /\ d.sent = c.sent /\ d.pipelined = c.pipelined
          /\ (d.parsed = c.parsed \/ d.parsed = c.parsed + 1) /\ d.parsed >= c.parsed
      <4>1. w.parsed = c.parsed /\ w.sent = c.sent /\ c.parsed \in Nat
        BY <2>2 DEF SameRequests, Connections
      <4> QED
        BY <2>2, <3>3, <4>1 DEF Ends, Parsed
    <3>5. ReadFrom(s) # NoSource
      <4>1. src[r] # NoSource /\ src[r].kind # "none"
        <5>1. src[r] # NoSource
          BY <2>1 DEF NoSource, s
        <5> QED
          BY <1>4, <5>1 DEF TransferOK, SourcesOK
      <4> QED
        BY <2>4, <4>1 DEF NoSource, s
    <3>6. TransferOK(d, read) /\ ~Busy(d) /\ (\A q : Begun(d.wire, q) <=> Begun(c.wire, q))
      <4>1. read = [src EXCEPT ![r] = ReadFrom(s)]
        BY DEF read, s, AfterRead
      <4> DEFINE z == ReadFrom(s)
      <4>2. /\ z \in Sources /\ z.kind = src[r].kind /\ z.left = src[r].left /\ z.lost = src[r].lost
            /\ z.ended = src[r].ended /\ z.early = src[r].early /\ z.avail = 0 /\ z # NoSource
            /\ src[r].avail > 0 /\ z.left = 0
        BY <2>1, <2>4, <3>1, <3>5 DEF s
      <4> HIDE DEF z
      <4> QED
        BY <1>2, <1>4, <2>1, <3>3, <3>4, <4>1, <4>2, EndKeepsTransfer DEF z
    <3>7. HasRun(c, d, read, n)
      BY <1>2, <2>1, <3>3, <3>4, <3>6, EndHasRun
    <3> QED
      BY <2>1, <3>6, <3>7 DEF Served, Noticed, d, dst, s
  <2> QED
    BY <2>6, <2>7
<1> QED
  BY <1>5, <1>6, <1>7

-----------------------------------------------------------------------------
(* The invariant.                                                          *)

HasHead(s) == \E i \in DOMAIN s : IsHead(s[i])

\* The queued pages are still to begin.
PagesOK(pgs, w, src) ==
    /\ \A i \in DOMAIN pgs : src[pgs[i]] # NoSource /\ ~Begun(w, pgs[i])
    /\ \A i, j \in DOMAIN pgs : pgs[i] = pgs[j] => i = j

\* A request that waits in the buffer will be looked for.
WaitOK(c, src, pgs) ==
    c.device = "open" /\ HasHead(c.buffer) =>
       \/ Queued(c, "incoming")
       \/ \E r \in 1 .. c.parsed : src[r] = NoSource \/ \E i \in DOMAIN pgs : pgs[i] = r
       \/ Busy(c)

Sound(c, src, pgs, n) ==
    /\ RequestsOK(c, n)
    /\ TransferOK(c, src) /\ ProgressOK(c, src)
    /\ Noticed(c, src) /\ Served(c, src)
    /\ PagesOK(pgs, c.wire, src) /\ WaitOK(c, src, pgs)

Inv == Types /\ Sound(conn, source, pages, net)

LEMMA InvPrimed ==
    ASSUME conn' \in Connections, source' \in [Rids -> Sources], pages' \in Seq(Rids), net' \in Seq(Words),
           Sound(conn', source', pages', net')
    PROVE  Inv'
BY DEF Inv, Types

\* The request that is parsed next has no source yet.
LEMMA NextHasNoSource ==
    ASSUME NEW c \in Connections, NEW d \in Connections, NEW src, TransferOK(c, src), NEW n, RequestsOK(d, n),
           d.parsed = c.parsed + 1
    PROVE  d.parsed \in Rids /\ src[d.parsed] = NoSource
<1>1. c.parsed \in Nat /\ d.sent \in Nat /\ d.parsed <= d.sent /\ d.sent <= MaxRequests
  BY DEF RequestsOK, Connections
<1>2. d.parsed \in Rids /\ d.parsed > c.parsed
  BY <1>1, HttpTransferAssumption DEF Rids
<1> QED
  BY <1>2 DEF TransferOK, SourcesOK

\* incomingData() keeps the invariant.
LEMMA IncomingDataIsSound ==
    ASSUME NEW c \in Connections, NEW src \in [Rids -> Sources], NEW pgs, NEW block \in Seq(Words), NEW n \in Seq(Words),
           c.device # "gone", RequestsOK(c, block \o n), TransferOK(c, src), ProgressOK(c, src),
           Noticed(c, src), Served(c, src), PagesOK(pgs, c.wire, src)
    PROVE  IncomingData(c, block) \in Connections /\ Sound(IncomingData(c, block), src, pgs, n)
<1> DEFINE d == IncomingData(c, block)
<1>1. d \in Connections
  BY IncomingDataType
<1>2. /\ RequestsOK(d, n) /\ SameResponse(c, d)
      /\ d.parsed = c.parsed \/ d.parsed = c.parsed + 1
      /\ HasHead(d.buffer) => d.parsed = c.parsed + 1
  BY IncomingDataKeepsRequests DEF HasHead
<1> HIDE DEF d
<1>3. c.parsed \in Nat /\ c.calls \in Seq(Calls)
  BY DEF Connections
<1>4. SameTransfer(c, d) /\ d.toWrite = c.toWrite /\ d.wire = c.wire
  BY <1>2 DEF SameResponse, SameTransfer
<1>5. /\ \A i \in DOMAIN d.calls : MayCall(c, d.calls[i])
      /\ \A op : Queued(c, op) => Queued(d, op)
      /\ Queued(d, "closed") => Queued(c, "closed")
  <2>1. CASE d.calls = c.calls
    BY <2>1 DEF MayCall, Queued
  <2>2. CASE d.calls = Append(c.calls, [op |-> "incoming", rid |-> 0])
    <3> DEFINE x == [op |-> "incoming", rid |-> 0]
    <3>1. x.op = "incoming"
      OBVIOUS
    <3>2. /\ Len(d.calls) = Len(c.calls) + 1 /\ Len(c.calls) \in Nat
          /\ \A i \in 1 .. Len(c.calls) : d.calls[i] = c.calls[i]
          /\ d.calls[Len(c.calls) + 1] = x /\ DOMAIN d.calls = 1 .. Len(c.calls) + 1
      BY <1>3, <2>2
    <3> HIDE DEF x
    <3>3. \A i \in DOMAIN d.calls : i \in 1 .. Len(c.calls) \/ i = Len(c.calls) + 1
      BY <3>2
    <3>4. DOMAIN c.calls = 1 .. Len(c.calls) /\ \A i \in DOMAIN c.calls : i \in DOMAIN d.calls
      BY <1>3, <3>2
    <3> QED
      BY <3>1, <3>2, <3>3, <3>4 DEF MayCall, Queued
  <2> QED
    BY <1>2, <2>1, <2>2 DEF SameResponse
<1>6. (Busy(d) <=> Busy(c)) /\ Current(d) = Current(c)
  BY <1>4 DEF SameTransfer, Busy, Current
<1>7. TransferOK(d, src)
  <2>1. d.device = "closing" => d.toWrite
    BY <1>4 DEF TransferOK, HandlersOK, SameTransfer
  <2>2. d.parsed >= c.parsed
    BY <1>2, <1>3
  <2> QED
    BY <1>1, <1>4, <1>5, <2>1, <2>2, TransferKeeps
<1>8. ProgressOK(d, src)
  BY <1>4, <1>5, ProgressKeeps
<1>9. Noticed(d, src) /\ Served(d, src)
  BY <1>4, <1>5, <1>6 DEF Noticed, Served, SameTransfer
<1>10. PagesOK(pgs, d.wire, src)
  BY <1>4
<1>11. WaitOK(d, src, pgs)
  <2> SUFFICES ASSUME HasHead(d.buffer)
               PROVE  \E r \in 1 .. d.parsed : src[r] = NoSource
    BY DEF WaitOK
  <2>1. src[d.parsed] = NoSource /\ d.parsed \in 1 .. d.parsed
    BY <1>1, <1>2, <1>3, NextHasNoSource
  <2> QED
    BY <2>1
<1> QED
  BY <1>1, <1>2, <1>7, <1>8, <1>9, <1>10, <1>11 DEF Sound, d

LEMMA InitIsSound == ASSUME Init PROVE Inv
<1> DEFINE c == NewConnection
           src == [r \in Rids |-> NoSource]
<1>1. /\ c.device = "open" /\ c.buffer = <<>> /\ c.content = 0 /\ c.needs = 0 /\ c.parsed = 0 /\ c.sent = 0
      /\ c.onBytesWritten = 0 /\ c.onSource = 0 /\ ~c.finished /\ c.calls = <<>> /\ c.wire = <<>>
      /\ ~c.final /\ ~c.pipelined /\ ~c.garbled /\ ~c.dropped /\ ~c.aborted
  BY DEF NewConnection
<1>2. c \in Connections
  BY NewConnectionType
<1>3. src \in [Rids -> Sources] /\ \A r \in Rids : src[r] = NoSource
  BY DEF NoSource, Sources
<1> HIDE DEF c, src
<1>4. RequestsOK(c, <<>>)
  <2>1. Remaining(c, <<>>) = <<>> /\ ~Expecting(c) /\ c.needs # All
    BY <1>1, HttpTransferAssumption DEF Remaining, Expecting, All
  <2>2. Numbered(<<>>, 0, 0)
    <3>1. 0 + 1 .. 0 = {} /\ DOMAIN <<>> = {}
      OBVIOUS
    <3>2. \E p : p \in [0 + 1 .. 0 -> DOMAIN <<>>]
      <4>1. [r \in {} |-> 0] \in [{} -> {}]
        OBVIOUS
      <4> QED
        BY <3>1, <4>1
    <3> QED
      BY <3>1, <3>2 DEF Numbered
  <2>3. StreamOK(<<>>, c.dropped, c.final, 0, 0)
    BY <2>2 DEF StreamOK, Framed, NoBodyAlone
  <2> QED
    BY <1>1, <2>1, <2>3, HttpTransferAssumption DEF RequestsOK
<1>5. ~Busy(c)
  BY <1>1 DEF Busy
<1>6. TransferOK(c, src)
  BY <1>1, <1>3, <1>5 DEF TransferOK, HandlersOK, WireOK, ClosedOK, OrderOK, SourcesOK, NoSource
<1>7. ProgressOK(c, src) /\ Noticed(c, src) /\ Served(c, src)
  BY <1>5 DEF ProgressOK, Noticed, Served
<1>8. PagesOK(<<>>, c.wire, src) /\ WaitOK(c, src, <<>>)
  BY <1>1 DEF PagesOK, WaitOK, HasHead
<1>9. conn = c /\ source = src /\ pages = <<>> /\ net = <<>>
  BY DEF Init, c, src
<1> QED
  BY <1>2, <1>3, <1>4, <1>6, <1>7, <1>8, <1>9 DEF Inv, Sound, Types

LEMMA ReadyReadIsSound ==
    ASSUME Inv, NEW k \in 1 .. Len(net), ReadyRead(k)
    PROVE  Inv'
<1> DEFINE block == SubSeq(net, 1, k)
           n == Rest(net, k)
<1>1. net \in Seq(Words) /\ conn \in Connections /\ source \in [Rids -> Sources] /\ pages \in Seq(Rids)
      /\ Sound(conn, source, pages, net)
  BY DEF Inv, Types
<1>2. block \in Seq(Words) /\ n \in Seq(Words) /\ block \o n = net
  <2>1. k \in 0 .. Len(net) /\ k \in Nat /\ Len(net) \in Nat
    BY <1>1
  <2>2. n \in Seq(Words) /\ Len(n) = Len(net) - k /\ \A i \in 1 .. Len(net) - k : n[i] = net[k + i]
    BY <1>1, <2>1, RestOfSequence
  <2>3. block \in Seq(Words) /\ Len(block) = k /\ \A i \in 1 .. k : block[i] = net[i]
    <3>1. \A i \in 1 .. k : net[i] \in Words
      BY <1>1
    <3> QED
      BY <2>1, <3>1, SubSeqProperties
  <2> HIDE DEF block, n
  <2>4. /\ block \o n \in Seq(Words) /\ Len(block \o n) = Len(block) + Len(n)
        /\ \A i \in 1 .. Len(block) + Len(n) : (block \o n)[i] = IF i <= Len(block) THEN block[i] ELSE n[i - Len(block)]
    BY <2>2, <2>3, ConcatProperties
  <2>5. Len(block \o n) = Len(net)
    BY <2>1, <2>2, <2>3, <2>4
  <2>6. ASSUME NEW i \in 1 .. Len(block \o n) PROVE (block \o n)[i] = net[i]
    <3>1. i \in 1 .. Len(block) + Len(n) /\ i \in Nat
      BY <2>4
    <3>2. CASE i <= k
      <4>1. i \in 1 .. k
        BY <3>1, <3>2
      <4> QED
        BY <2>3, <2>4, <3>1, <3>2, <4>1
    <3>3. CASE ~(i <= k)
      <4>1. i - k \in 1 .. Len(net) - k /\ k + (i - k) = i
        BY <2>1, <2>5, <3>1, <3>3
      <4>2. (block \o n)[i] = n[i - k]
        BY <2>3, <2>4, <3>1, <3>3
      <4> QED
        BY <2>2, <4>1, <4>2
    <3> QED
      BY <3>2, <3>3
  <2>7. block \o n = net
    BY <1>1, <2>4, <2>5, <2>6, SeqEqual
  <2> QED
    BY <2>2, <2>3, <2>7
<1>3. conn' = IncomingData(conn, block) /\ net' = n /\ source' = source /\ pages' = pages /\ conn.device # "gone"
  BY DEF ReadyRead, Rest
<1> HIDE DEF block, n
<1>4. IncomingData(conn, block) \in Connections /\ Sound(IncomingData(conn, block), source, pages, n)
  BY <1>1, <1>2, <1>3, IncomingDataIsSound DEF Sound
<1> QED
  BY <1>1, <1>2, <1>3, <1>4, InvPrimed

LEMMA AbortIsSound == ASSUME Inv, Abort PROVE Inv'
<1> DEFINE c == [NewConnection EXCEPT !.device = "gone", !.aborted = TRUE]
           src == [r \in Rids |-> NoSource]
<1>1. /\ c.device = "gone" /\ c.buffer = <<>> /\ c.content = 0 /\ c.parsed = 0 /\ c.sent = 0
      /\ c.onBytesWritten = 0 /\ c.onSource = 0 /\ c.calls = <<>> /\ c.wire = <<>>
      /\ ~c.pipelined /\ ~c.garbled /\ ~c.dropped /\ c.aborted
  BY DEF NewConnection
<1>2. c \in Connections
  BY NewConnectionType DEF Connections
<1>3. src \in [Rids -> Sources] /\ \A r \in Rids : src[r] = NoSource
  BY DEF NoSource, Sources
<1> HIDE DEF c, src
<1>4. RequestsOK(c, <<>>)
  BY <1>1, HttpTransferAssumption DEF RequestsOK
<1>5. ~Busy(c)
  BY <1>1 DEF Busy
<1>6. TransferOK(c, src)
  BY <1>1, <1>3, <1>5 DEF TransferOK, HandlersOK, WireOK, ClosedOK, OrderOK, SourcesOK, NoSource
<1>7. ProgressOK(c, src) /\ Noticed(c, src) /\ Served(c, src)
  BY <1>5 DEF ProgressOK, Noticed, Served
<1>8. PagesOK(<<>>, c.wire, src) /\ WaitOK(c, src, <<>>)
  BY <1>1 DEF PagesOK, WaitOK
<1>9. conn' = c /\ source' = src /\ pages' = <<>> /\ net' = <<>>
  BY DEF Abort, c, src
<1> QED
  BY <1>2, <1>3, <1>4, <1>6, <1>7, <1>8, <1>9, InvPrimed DEF Sound

LEMMA BytesWrittenIsSound == ASSUME Inv, BytesWritten PROVE Inv'
<1>1. net \in Seq(Words) /\ conn \in Connections /\ source \in [Rids -> Sources] /\ pages \in Seq(Rids)
      /\ Sound(conn, source, pages, net) /\ conn.parsed \in Nat /\ conn.calls \in Seq(Calls)
  BY DEF Inv, Types, Connections
<1>2. source' = source /\ pages' = pages /\ net' = net
  BY DEF BytesWritten
<1>3. CASE conn.device = "closing"
  <2> DEFINE d == Disconnected(conn)
  <2>1. conn' = d
    BY <1>3 DEF BytesWritten
  <2>2. /\ d \in Connections
        /\ d.device = "gone" /\ d.onSource = 0 /\ d.onBytesWritten = 0 /\ ~d.aborted /\ ~d.finished
        /\ \A i \in DOMAIN d.calls : d.calls[i].op = "incoming"
        /\ d.wire = conn.wire /\ d.sent = conn.sent /\ d.pipelined = conn.pipelined /\ d.parsed = conn.parsed
        /\ d.buffer = <<>> /\ d.content = 0 /\ d.garbled = conn.garbled /\ d.dropped = conn.dropped
    BY <1>1, DisconnectedIs
  <2> HIDE DEF d
  <2>3. RequestsOK(d, net)
    BY <1>1, <2>2, GoneRequestsOK DEF Sound
  <2>4. ~Busy(d) /\ Current(d) = Current(conn)
    BY <2>2 DEF Busy, Current
  <2>5. ~conn.aborted
    BY <1>1, <1>3 DEF Sound, TransferOK, HandlersOK
  <2>6. TransferOK(d, source)
    BY <1>1, <1>3, <2>2, <2>4, <2>5 DEF Sound, TransferOK, HandlersOK, ClosedOK, OrderOK, SourcesOK
  <2>7. ProgressOK(d, source) /\ Noticed(d, source) /\ Served(d, source)
    BY <2>4 DEF ProgressOK, Noticed, Served
  <2>8. PagesOK(pages, d.wire, source) /\ WaitOK(d, source, pages)
    BY <1>1, <2>2 DEF Sound, WaitOK
  <2> QED
    BY <1>1, <1>2, <2>1, <2>2, <2>3, <2>6, <2>7, <2>8, InvPrimed DEF Sound
<1>4. CASE conn.device # "closing"
  <2> DEFINE x == [op |-> "written", rid |-> conn.onBytesWritten]
             calls == IF conn.onBytesWritten = 0 THEN conn.calls ELSE Append(conn.calls, x)
             d == [conn EXCEPT !.toWrite = FALSE, !.calls = calls]
  <2>1. conn' = d
    BY <1>4 DEF BytesWritten
  <2>2. conn.onBytesWritten # 0 => x \in Calls
    <3>1. conn.onBytesWritten \in 0 .. MaxRequests
      BY <1>1 DEF Connections
    <3> QED
      BY <3>1, HttpTransferAssumption DEF Calls, Rids
  <2>3. x.op = "written" /\ x.rid = conn.onBytesWritten
    OBVIOUS
  <2> HIDE DEF x
  <2>4. /\ calls \in Seq(Calls)
        /\ \A i \in DOMAIN conn.calls : i \in DOMAIN calls /\ calls[i] = conn.calls[i]
        /\ \A i \in DOMAIN calls : i \in DOMAIN conn.calls \/ (calls[i] = x /\ conn.onBytesWritten # 0)
        /\ conn.onBytesWritten # 0 => \E i \in DOMAIN calls : calls[i] = x
    <3>1. CASE conn.onBytesWritten = 0
      BY <1>1, <3>1
    <3>2. CASE conn.onBytesWritten # 0
      <4>1. /\ calls \in Seq(Calls) /\ Len(calls) = Len(conn.calls) + 1 /\ Len(conn.calls) \in Nat
            /\ \A i \in 1 .. Len(conn.calls) : calls[i] = conn.calls[i]
            /\ calls[Len(conn.calls) + 1] = x /\ DOMAIN calls = 1 .. Len(conn.calls) + 1
        BY <1>1, <2>2, <3>2
      <4> HIDE DEF calls
      <4>2. Len(conn.calls) + 1 \in DOMAIN calls
        BY <4>1
      <4>3. DOMAIN conn.calls = 1 .. Len(conn.calls)
        BY <1>1
      <4> QED
        BY <3>2, <4>1, <4>2, <4>3
    <3> QED
      BY <3>1, <3>2
  <2> HIDE DEF calls
  <2>5. /\ d \in Connections /\ d.calls = calls /\ d.buffer = conn.buffer /\ d.device = conn.device
        /\ d.wire = conn.wire /\ d.parsed = conn.parsed
    BY <1>1, <2>4 DEF Connections
  <2>6. SameRequests(conn, d)
    BY <1>1 DEF SameRequests, Connections
  <2>7. SameTransfer(conn, d)
    BY <1>1 DEF SameTransfer, Connections
  <2> HIDE DEF d
  <2>8. (Busy(d) <=> Busy(conn)) /\ Current(d) = Current(conn)
    BY <2>7 DEF SameTransfer, Busy, Current
  <2>9. \A op : Queued(conn, op) => Queued(d, op)
    BY <2>4, <2>5 DEF Queued
  <2>10. \A op : Queued(d, op) => op = "written" \/ Queued(conn, op)
    <3> SUFFICES ASSUME NEW op, Queued(d, op), op # "written" PROVE Queued(conn, op)
      OBVIOUS
    <3>1. PICK i \in DOMAIN calls : calls[i].op = op
      BY <2>5 DEF Queued
    <3>2. i \in DOMAIN conn.calls /\ calls[i] = conn.calls[i]
      BY <2>3, <2>4, <3>1
    <3> QED
      BY <3>1, <3>2 DEF Queued
  <2>11. conn.onBytesWritten # 0 => Queued(d, "written")
    BY <2>3, <2>4, <2>5 DEF Queued
  <2>12. RequestsOK(d, net)
    <3>1. CASE conn.device = "gone"
      BY <1>1, <2>5, <2>6, <3>1, GoneRequestsOK DEF Sound, RequestsOK, SameRequests
    <3>2. CASE conn.device # "gone"
      BY <1>1, <2>5, <2>6, <3>2, SameRequestsOK DEF Sound
    <3> QED
      BY <3>1, <3>2
  <2>13. TransferOK(d, source)
    <3>1. \A i \in DOMAIN d.calls : MayCall(conn, d.calls[i])
      BY <2>3, <2>4, <2>5 DEF MayCall
    <3>2. d.parsed >= conn.parsed /\ d.device # "closing"
      BY <1>1, <1>4, <2>5
    <3> QED
      BY <1>1, <2>5, <2>7, <3>1, <3>2, TransferKeeps DEF Sound
  <2>14. ProgressOK(d, source)
    BY <1>1, <2>7, <2>10, ProgressKeeps DEF Sound
  <2>15. Noticed(d, source)
    BY <1>1, <2>7, <2>8, <2>9 DEF Noticed, Sound, SameTransfer
  <2>16. Served(d, source)
    <3> SUFFICES ASSUME Busy(d) PROVE Queued(d, "written")
      BY DEF Served
    <3>1. conn.onBytesWritten = Current(conn) /\ conn.wire # <<>> /\ WireOK(conn.wire, source)
      BY <1>1, <2>8 DEF Sound, TransferOK, HandlersOK, Busy
    <3>2. Current(conn) # 0
      BY <1>1, <3>1, CurrentHasSource DEF Rids
    <3> QED
      BY <2>11, <3>1, <3>2
  <2>17. PagesOK(pages, d.wire, source) /\ WaitOK(d, source, pages)
    BY <1>1, <2>5, <2>8, <2>9 DEF Sound, WaitOK
  <2> QED
    BY <1>1, <1>2, <2>1, <2>5, <2>12, <2>13, <2>14, <2>15, <2>16, <2>17, InvPrimed DEF Sound
<1> QED
  BY <1>3, <1>4

LEMMA SendRequestIsSound ==
    ASSUME Inv, NEW head \in Heads, SendRequest(head)
    PROVE  Inv'
<1> DEFINE c == conn
           e == IF head = "post" THEN <<head, "body">> ELSE <<head>>
           n == net \o e
           final == head \in {"close", "old"}
           d == [conn EXCEPT !.sent = conn.sent + 1, !.final = final, !.pipelined = conn.pipelined \/ ~Answered]
<1>1. net \in Seq(Words) /\ c \in Connections /\ source \in [Rids -> Sources] /\ pages \in Seq(Rids)
      /\ Sound(c, source, pages, net)
      /\ c.parsed \in Nat /\ c.sent \in Nat /\ c.dropped \in BOOLEAN /\ c.buffer \in Seq(Words)
      /\ c.wire \in Seq(Tokens)
  BY DEF Inv, Types, Connections
<1>2. conn' = d /\ net' = n /\ source' = source /\ pages' = pages
      /\ c.device = "open" /\ c.sent < MaxRequests /\ c.final = FALSE
  <2>1. c.final \in BOOLEAN
    BY <1>1 DEF Connections
  <2> QED
    BY <2>1 DEF SendRequest
<1>3. e \in Seq(Words) /\ n \in Seq(Words)
  <2>1. head \in Words /\ "body" \in Words
    BY DEF Words
  <2>2. e \in Seq(Words)
    BY <2>1
  <2> HIDE DEF e
  <2> QED
    BY <1>1, <2>2, ConcatProperties
<1>4. /\ d \in Connections /\ d.sent = c.sent + 1 /\ d.final = final /\ d.parsed = c.parsed
      /\ d.buffer = c.buffer /\ d.content = c.content /\ d.needs = c.needs /\ d.garbled = c.garbled
      /\ d.dropped = c.dropped
  <2>1. final \in BOOLEAN /\ (conn.pipelined \/ ~Answered) \in BOOLEAN /\ c.sent + 1 \in Nat
    BY <1>1
  <2> HIDE DEF final
  <2>2. d \in Connections
    BY <1>1, <2>1 DEF Connections
  <2> QED
    BY <1>1, <2>2 DEF Connections
<1>5. /\ d.device = c.device /\ d.wire = c.wire /\ d.onSource = c.onSource /\ d.onBytesWritten = c.onBytesWritten
      /\ d.calls = c.calls /\ d.finished = c.finished /\ d.streaming = c.streaming
      /\ d.sourceClosed = c.sourceClosed /\ d.toWrite = c.toWrite /\ d.aborted = c.aborted
      /\ d.pipelined = (c.pipelined \/ ~Answered)
  BY <1>1 DEF Connections
<1> HIDE DEF d
<1>6. RequestsOK(d, n)
  <2>1. RequestsOK(c, net)
    BY <1>1 DEF Sound
  <2>2. Expecting(d) <=> Expecting(c)
    BY <1>4 DEF Expecting
  <2>3. StreamOK(Remaining(c, net), c.dropped, FALSE, c.parsed, c.sent) /\ c.parsed <= c.sent
    <3>1. c.final = FALSE
      BY <1>2
    <3>2. StreamOK(Remaining(c, net), c.dropped, c.final, c.parsed, c.sent) /\ c.parsed <= c.sent
      BY <1>2, <2>1 DEF RequestsOK
    <3> QED
      BY <3>1, <3>2, Zenon
  <2>4. Remaining(d, n) = Remaining(c, net) \o e /\ Remaining(c, net) \in Seq(Words)
        /\ (Expecting(c) => n # <<>> /\ Head(n) = "body")
    <3> HIDE DEF e
    <3>1. CASE Expecting(c)
      <4>1. net # <<>> /\ Head(net) = "body"
        BY <1>2, <2>1, <3>1 DEF RequestsOK
      <4>2. /\ Len(n) = Len(net) + Len(e) /\ Len(net) \in Nat \ {0} /\ Len(e) \in Nat
            /\ \A i \in 1 .. Len(net) + Len(e) : n[i] = IF i <= Len(net) THEN net[i] ELSE e[i - Len(net)]
        BY <1>1, <1>3, <4>1, ConcatProperties
      <4>3. n[1] = net[1] /\ Len(n) # 0
        BY <4>2
      <4>4. n # <<>> /\ Head(n) = "body"
        BY <1>3, <4>1, <4>3
      <4>5. Tail(net) = Rest(net, 1) /\ Tail(n) = Rest(n, 1) /\ 1 \in 0 .. Len(net)
        <5>1. Tail(net) = Rest(net, 1)
          BY <1>1, <4>1, RestOfRest
        <5>2. Tail(n) = Rest(n, 1)
          BY <1>3, <4>4, RestOfRest
        <5> QED
          BY <4>2, <5>1, <5>2
      <4>6. Rest(net, 1) \o e = Rest(n, 1)
        BY <1>1, <1>3, <4>5, RestOfConcat
      <4>7. Tail(net) \in Seq(Words)
        BY <1>1, <4>1
      <4> QED
        BY <2>2, <3>1, <4>4, <4>5, <4>6, <4>7 DEF Remaining
    <3>2. CASE ~Expecting(c)
      <4>1. Remaining(d, n) = c.buffer \o (net \o e) /\ Remaining(c, net) = c.buffer \o net
        BY <1>4, <2>2, <3>2 DEF Remaining
      <4>2. (c.buffer \o net) \o e = c.buffer \o (net \o e)
        BY <1>1, <1>3, WordsAssociate, Zenon
      <4>3. c.buffer \o net \in Seq(Words)
        BY <1>1, ConcatProperties
      <4> QED
        BY <3>2, <4>1, <4>2, <4>3
    <3> QED
      BY <3>1, <3>2
  <2>5. StreamOK(Remaining(c, net) \o e, c.dropped, final, c.parsed, c.sent + 1)
    <3> DEFINE s == Remaining(c, net)
    <3>1. s \in Seq(Words) /\ StreamOK(s, c.dropped, FALSE, c.parsed, c.sent)
      BY <2>3, <2>4
    <3> HIDE DEF s
    <3>2. StreamOK(s \o e, c.dropped, final, c.parsed, c.sent + 1)
      BY <1>1, <2>3, <3>1, StreamGainsRequest, Zenon
    <3> QED
      BY <3>2 DEF s
  <2>6. d.needs # All
    BY <1>2, <1>4, <2>1 DEF RequestsOK
  <2>7. c.sent + 1 <= MaxRequests /\ c.parsed <= c.sent + 1
    BY <1>1, <1>2, <2>3, HttpTransferAssumption
  <2> HIDE DEF e, n, final
  <2> QED
    BY <1>2, <1>4, <1>5, <2>1, <2>2, <2>4, <2>5, <2>6, <2>7 DEF RequestsOK
<1>7. (Busy(d) <=> Busy(c)) /\ Current(d) = Current(c) /\ \A op : Queued(d, op) <=> Queued(c, op)
  BY <1>5 DEF Busy, Current, Queued
<1>8. TransferOK(c, source)
  BY <1>1 DEF Sound
<1>9. OrderOK(d)
  <2> SUFFICES ASSUME ~d.pipelined
               PROVE  /\ \A r \in 1 .. d.sent - 1 : Begun(d.wire, r)
                      /\ d.wire # <<>> /\ (d.device # "open" \/ ~d.finished) => Current(d) = d.sent
    BY DEF OrderOK
  <2>1. ~c.pipelined /\ (c.sent = 0 \/ (c.wire # <<>> /\ Last(c.wire) = [tok |-> "last", rid |-> c.sent]))
    BY <1>5 DEF Answered
  <2>2. CASE c.sent = 0
    <3>1. c.wire = <<>>
      <4> SUFFICES ASSUME c.wire # <<>> PROVE FALSE
        OBVIOUS
      <4>1. Current(c) \in Rids /\ source[Current(c)] # NoSource
        BY <1>1, <1>8, CurrentHasSource DEF TransferOK
      <4>2. c.parsed = 0
        BY <1>1, <2>2 DEF Sound, RequestsOK
      <4> QED
        BY <1>8, <4>1, <4>2 DEF TransferOK, SourcesOK, Rids
    <3> QED
      BY <1>4, <1>5, <2>2, <3>1
  <2>3. CASE c.wire # <<>> /\ Last(c.wire) = [tok |-> "last", rid |-> c.sent]
    <3>1. Current(c) = c.sent /\ Last(c.wire).tok = "last"
      BY <2>3 DEF Current
    <3>2. Begun(c.wire, c.sent)
      BY <1>1, <1>8, <2>3, <3>1, CurrentHasSource DEF TransferOK
    <3>3. \A r \in 1 .. c.sent - 1 : Begun(c.wire, r)
      BY <1>8, <2>1 DEF TransferOK, OrderOK
    <3>4. \A r \in 1 .. d.sent - 1 : r \in 1 .. c.sent - 1 \/ r = c.sent
      BY <1>1, <1>4
    <3>5. ~Busy(c)
      BY <1>8, <3>1 DEF TransferOK, HandlersOK
    <3> QED
      BY <1>2, <1>5, <2>3, <3>2, <3>3, <3>4, <3>5 DEF Busy
  <2> QED
    BY <2>1, <2>2, <2>3
<1>10. HandlersOK(d)
  BY <1>5, <1>7, <1>8 DEF TransferOK, HandlersOK
<1>11. TransferOK(d, source)
  BY <1>2, <1>4, <1>5, <1>8, <1>9, <1>10 DEF TransferOK, ClosedOK, SourcesOK
<1>12. ProgressOK(d, source) /\ Noticed(d, source) /\ Served(d, source)
  BY <1>1, <1>5, <1>7 DEF Sound, ProgressOK, Noticed, Served
<1>13. PagesOK(pages, d.wire, source) /\ WaitOK(d, source, pages)
  BY <1>1, <1>4, <1>5, <1>7 DEF Sound, WaitOK
<1> HIDE DEF n
<1> QED
  BY <1>1, <1>2, <1>3, <1>4, <1>6, <1>11, <1>12, <1>13, InvPrimed DEF Sound

\* A source emits signals.
Emitted(c, r, ops) ==
    IF c.onSource = r
    THEN [c EXCEPT !.calls = @ \o [i \in DOMAIN ops |-> [op |-> ops[i], rid |-> r]]]
    ELSE c

CallsQueued(c, d, r, ops) ==
    /\ d \in Connections /\ SameRequests(c, d) /\ SameTransfer(c, d) /\ d.toWrite = c.toWrite
    /\ \A i \in DOMAIN d.calls : MayCall(c, d.calls[i])
    /\ \A op : Queued(c, op) => Queued(d, op)
    /\ \A op : Queued(d, op) => Queued(c, op) \/ (c.onSource = r /\ \E i \in DOMAIN ops : ops[i] = op)
    /\ c.onSource = r => \A i \in DOMAIN ops : Queued(d, ops[i])

LEMMA EmitIs ==
    ASSUME NEW c \in Connections, NEW d, NEW r \in Rids, NEW ops \in Seq({"ready", "closed"}),
           d = Emitted(c, r, ops)
    PROVE  CallsQueued(c, d, r, ops)
<1>1. CASE c.onSource # r
  <2>1. d = c
    BY <1>1 DEF Emitted
  <2> QED
    BY <1>1, <2>1 DEF CallsQueued, SameRequests, SameTransfer, MayCall
<1>2. CASE c.onSource = r
  <2> DEFINE new == [i \in DOMAIN ops |-> [op |-> ops[i], rid |-> r]]
             calls == c.calls \o new
  <2>1. c.calls \in Seq(Calls) /\ Len(ops) \in Nat /\ DOMAIN ops = 1 .. Len(ops)
    BY DEF Connections
  <2>2. \A i \in DOMAIN ops : new[i] \in Calls /\ new[i].op = ops[i] /\ new[i].rid = r
    BY DEF Calls
  <2>3. new \in Seq(Calls) /\ Len(new) = Len(ops)
    BY <2>1, <2>2
  <2>4. d = [c EXCEPT !.calls = calls]
    BY <1>2 DEF Emitted
  <2> HIDE DEF new
  <2>5. /\ calls \in Seq(Calls) /\ Len(calls) = Len(c.calls) + Len(ops) /\ Len(c.calls) \in Nat
        /\ \A i \in 1 .. Len(c.calls) + Len(ops) : calls[i] = IF i <= Len(c.calls) THEN c.calls[i] ELSE new[i - Len(c.calls)]
    <3>1. /\ calls \in Seq(Calls) /\ Len(calls) = Len(c.calls) + Len(new)
          /\ \A i \in 1 .. Len(c.calls) + Len(new) : calls[i] = IF i <= Len(c.calls) THEN c.calls[i] ELSE new[i - Len(c.calls)]
      BY <2>1, <2>3, ConcatProperties, Zenon
    <3>2. Len(c.calls) \in Nat
      BY <2>1
    <3> HIDE DEF calls
    <3> QED
      BY <2>3, <3>1, <3>2
  <2> HIDE DEF calls
  <2>6. d \in Connections /\ d.calls = calls /\ d.toWrite = c.toWrite
    BY <2>4, <2>5 DEF Connections
  <2>7. SameRequests(c, d)
    BY <2>4 DEF SameRequests, Connections
  <2>8. SameTransfer(c, d)
    BY <2>4 DEF SameTransfer, Connections
  <2> DEFINE N == Len(c.calls)
  <2>9. ASSUME NEW i \in DOMAIN c.calls PROVE i \in DOMAIN calls /\ calls[i] = c.calls[i]
    <3>1. i \in 1 .. N + Len(ops) /\ i <= N
      BY <2>1, <2>5
    <3> QED
      BY <2>5, <3>1
  <2>10. ASSUME NEW i \in DOMAIN ops PROVE N + i \in DOMAIN calls /\ calls[N + i] = new[i]
    <3>1. N + i \in 1 .. N + Len(ops) /\ ~(N + i <= N) /\ N + i - N = i
      BY <2>1, <2>5
    <3> QED
      BY <2>5, <3>1
  <2>11. ASSUME NEW i \in DOMAIN calls
         PROVE  \/ i \in DOMAIN c.calls /\ calls[i] = c.calls[i]
                \/ \E j \in DOMAIN ops : calls[i] = new[j]
    <3>1. i \in 1 .. N + Len(ops)
      BY <2>5
    <3>2. CASE i <= N
      BY <2>1, <2>5, <3>1, <3>2
    <3>3. CASE ~(i <= N)
      <4>1. i - N \in DOMAIN ops /\ calls[i] = new[i - N]
        BY <2>1, <2>5, <3>1, <3>3
      <4> QED
        BY <4>1
    <3> QED
      BY <3>2, <3>3
  <2>12. \A i \in DOMAIN d.calls : MayCall(c, d.calls[i])
    <3>1. r \in {c.onSource, c.onBytesWritten} \ {0}
      BY <1>2 DEF Rids
    <3> QED
      BY <2>2, <2>6, <2>11, <3>1 DEF MayCall
  <2>13. \A op : Queued(c, op) => Queued(d, op)
    BY <2>6, <2>9 DEF Queued
  <2>14. \A op : Queued(d, op) => Queued(c, op) \/ \E i \in DOMAIN ops : ops[i] = op
    <3> SUFFICES ASSUME NEW op, Queued(d, op) PROVE Queued(c, op) \/ \E i \in DOMAIN ops : ops[i] = op
      OBVIOUS
    <3>1. PICK i \in DOMAIN calls : calls[i].op = op
      BY <2>6 DEF Queued
    <3>2. CASE i \in DOMAIN c.calls /\ calls[i] = c.calls[i]
      BY <3>1, <3>2 DEF Queued
    <3>3. CASE \E j \in DOMAIN ops : calls[i] = new[j]
      BY <2>2, <3>1, <3>3
    <3> QED
      BY <2>11, <3>2, <3>3
  <2>15. \A i \in DOMAIN ops : Queued(d, ops[i])
    <3> SUFFICES ASSUME NEW i \in DOMAIN ops PROVE Queued(d, ops[i])
      OBVIOUS
    <3>1. N + i \in DOMAIN calls /\ calls[N + i] = new[i] /\ new[i].op = ops[i]
      BY <2>2, <2>10
    <3> HIDE DEF N
    <3> QED
      BY <2>6, <3>1 DEF Queued
  <2> QED
    BY <1>2, <2>6, <2>7, <2>8, <2>12, <2>13, <2>14, <2>15 DEF CallsQueued
<1> QED
  BY <1>1, <1>2

LEMMA PostPageIsSound ==
    ASSUME Inv, NEW r \in Rids, NEW kind \in SourceKinds, NEW chunked \in BOOLEAN,
           NEW avail \in Nat, NEW left \in Nat, PostPage(r, kind, chunked, avail, left)
    PROVE  Inv'
<1> DEFINE s == [kind |-> kind, chunked |-> chunked, avail |-> avail, left |-> left, ended |-> FALSE,
                 early |-> FALSE, lost |-> FALSE]
           dst == [source EXCEPT ![r] = s]
           c == conn
           pgs == Append(pages, r)
<1>1. net \in Seq(Words) /\ c \in Connections /\ source \in [Rids -> Sources] /\ pages \in Seq(Rids)
      /\ Sound(c, source, pages, net) /\ c.wire \in Seq(Tokens) /\ c.parsed \in Nat
  BY DEF Inv, Types, Connections
<1>2. /\ conn' = c /\ source' = dst /\ pages' = pgs /\ net' = net
      /\ c.device # "gone" /\ r <= c.parsed /\ source[r] = NoSource /\ (kind = "buffer" => left = 0)
  BY DEF PostPage
<1>3. s \in Sources /\ s.kind = kind /\ s.left = left /\ ~s.ended /\ ~s.lost /\ kind # "none" /\ s # NoSource
  BY DEF Sources, SourceKinds, NoSource
<1> HIDE DEF s
<1>4. dst \in [Rids -> Sources] /\ dst[r] = s /\ \A q \in Rids : q # r => dst[q] = source[q]
  BY <1>1, <1>3
<1> HIDE DEF dst
<1>5. TransferOK(c, source) /\ WireOK(c.wire, source)
  BY <1>1 DEF Sound, TransferOK
<1>6. \A q \in Rids : source[q] # NoSource => dst[q] = source[q]
  BY <1>2, <1>4
<1>7. TransferOK(c, dst)
  <2>1. SourcesOK(c, dst)
    <3> SUFFICES ASSUME NEW q \in Rids
                 PROVE  /\ dst[q].kind = "none" => dst[q] = NoSource
                        /\ dst[q].kind = "buffer" => dst[q].left = 0
                        /\ dst[q].lost => dst[q].kind = "cgi"
                        /\ dst[q].ended => dst[q].left = 0
                        /\ dst[q].ended => dst[q].early \/ Begun(c.wire, q)
                        /\ q > c.parsed => dst[q] = NoSource
      BY DEF SourcesOK
    <3>1. CASE q = r
      <4>1. ~(q > c.parsed)
        BY <1>1, <1>2, <3>1 DEF Rids
      <4> QED
        BY <1>2, <1>3, <1>4, <3>1, <4>1
    <3>2. CASE q # r
      BY <1>4, <1>5, <3>2 DEF TransferOK, SourcesOK
    <3> QED
      BY <3>1, <3>2
  <2>2. \A q \in Rids : source[q] # NoSource => dst[q] # NoSource /\ (Complete(source, q) => Complete(dst, q))
    BY <1>6 DEF Complete
  <2> QED
    BY <1>1, <1>5, <2>1, <2>2, SourcesChange
<1>8. ProgressOK(c, dst) /\ Noticed(c, dst) /\ Served(c, dst)
  <2>1. Busy(c) => dst[Current(c)] = source[Current(c)]
    BY <1>1, <1>5, <1>6, CurrentHasSource DEF Busy
  <2> QED
    BY <1>1, <2>1 DEF Sound, ProgressOK, Noticed, Served
<1>9. /\ pgs \in Seq(Rids) /\ DOMAIN pgs = 1 .. Len(pages) + 1 /\ Len(pages) \in Nat /\ DOMAIN pages = 1 .. Len(pages)
      /\ \A i \in DOMAIN pages : pgs[i] = pages[i] /\ pages[i] \in Rids /\ i \in DOMAIN pgs
      /\ \A i \in DOMAIN pgs : i \in DOMAIN pages \/ (i = Len(pages) + 1 /\ pgs[i] = r)
      /\ Len(pages) + 1 \in DOMAIN pgs /\ pgs[Len(pages) + 1] = r
  <2>1. /\ pgs \in Seq(Rids) /\ Len(pgs) = Len(pages) + 1 /\ Len(pages) \in Nat
        /\ \A i \in 1 .. Len(pages) : pgs[i] = pages[i]
        /\ pgs[Len(pages) + 1] = r
    BY <1>1, AppendProperties
  <2> HIDE DEF pgs
  <2> QED
    BY <1>1, <2>1
<1> HIDE DEF pgs
<1>10. PagesOK(pages, c.wire, source)
  BY <1>1 DEF Sound
<1>11. ~Begun(c.wire, r)
  <2> SUFFICES ASSUME NEW i \in DOMAIN c.wire, c.wire[i] = Token("header", r) PROVE FALSE
    BY DEF Begun
  <2>1. source[c.wire[i].rid] # NoSource
    BY <1>5 DEF WireOK
  <2>2. c.wire[i].rid = r
    BY DEF Token
  <2> QED
    BY <1>2, <2>1, <2>2
<1>12. PagesOK(pgs, c.wire, dst)
  <2>1. ASSUME NEW i \in DOMAIN pgs PROVE dst[pgs[i]] # NoSource /\ ~Begun(c.wire, pgs[i])
    <3>1. CASE i \in DOMAIN pages
      BY <1>6, <1>9, <1>10, <3>1 DEF PagesOK
    <3>2. CASE pgs[i] = r
      BY <1>3, <1>4, <1>11, <3>2
    <3> QED
      BY <1>9, <3>1, <3>2
  <2>2. \A i \in DOMAIN pages : pgs[i] # r
    BY <1>2, <1>9, <1>10 DEF PagesOK
  <2>3. ASSUME NEW i \in DOMAIN pgs, NEW j \in DOMAIN pgs, pgs[i] = pgs[j] PROVE i = j
    <3>1. CASE i \in DOMAIN pages /\ j \in DOMAIN pages
      BY <1>9, <1>10, <2>3, <3>1 DEF PagesOK
    <3>2. CASE i = Len(pages) + 1 /\ pgs[i] = r
      BY <1>9, <2>2, <2>3, <3>2
    <3>3. CASE j = Len(pages) + 1 /\ pgs[j] = r
      BY <1>9, <2>2, <2>3, <3>3
    <3> QED
      BY <1>9, <3>1, <3>2, <3>3
  <2> QED
    BY <2>1, <2>3 DEF PagesOK
<1>13. WaitOK(c, dst, pgs)
  <2> SUFFICES ASSUME c.device = "open", HasHead(c.buffer), ~Queued(c, "incoming"), ~Busy(c)
               PROVE  \E q \in 1 .. c.parsed : dst[q] = NoSource \/ \E i \in DOMAIN pgs : pgs[i] = q
    BY DEF WaitOK
  <2>1. PICK q \in 1 .. c.parsed : source[q] = NoSource \/ \E i \in DOMAIN pages : pages[i] = q
    BY <1>1 DEF Sound, WaitOK
  <2>2. q \in Rids
    <3>1. c.parsed <= c.sent /\ c.sent <= MaxRequests /\ c.sent \in Nat
      BY <1>1 DEF Sound, RequestsOK, Connections
    <3> QED
      BY <1>1, <3>1, HttpTransferAssumption DEF Rids
  <2>3. CASE q = r
    BY <1>9, <2>3
  <2>4. CASE q # r
    BY <1>4, <1>9, <2>1, <2>2, <2>4
  <2> QED
    BY <2>3, <2>4
<1> QED
  BY <1>1, <1>2, <1>4, <1>7, <1>8, <1>9, <1>12, <1>13, InvPrimed DEF Sound

\* The source of page r has the state s now and has emitted signals.
LEMMA SourceGoesOn ==
    ASSUME NEW c \in Connections, NEW src \in [Rids -> Sources], NEW pgs \in Seq(Rids), NEW n, Sound(c, src, pgs, n),
           c.device # "gone", NEW r \in Rids, NEW s \in Sources, NEW ops \in Seq({"ready", "closed"}), NEW d,
           d = Emitted(c, r, ops),
           src[r].kind \notin {"none", "buffer"}, s.kind = src[r].kind,
           s.lost => s.kind = "cgi", s.ended => s.left = 0, s.ended => s.early \/ Begun(c.wire, r),
           Complete(src, r) => s.kind = "cgi" \/ (s.avail = 0 /\ s.left = 0 /\ ~s.lost),
           Busy(c) /\ Current(c) = r =>
              /\ Queued(d, "closed") \/ c.sourceClosed => s.ended
              /\ c.sourceClosed => s.avail > 0
              /\ s.ended => Queued(d, "closed")
              /\ s.avail > 0 => c.toWrite \/ Queued(d, "written") \/ Queued(d, "ready")
    PROVE  d \in Connections /\ Sound(d, [src EXCEPT ![r] = s], pgs, n)
<1> DEFINE dst == [src EXCEPT ![r] = s]
<1>1. dst \in [Rids -> Sources] /\ dst[r] = s /\ \A q \in Rids : q # r => dst[q] = src[q]
  OBVIOUS
<1> HIDE DEF dst
<1>2. /\ d \in Connections /\ SameRequests(c, d) /\ SameTransfer(c, d) /\ d.toWrite = c.toWrite
      /\ \A i \in DOMAIN d.calls : MayCall(c, d.calls[i])
      /\ \A op : Queued(c, op) => Queued(d, op)
      /\ \A op : Queued(d, op) => Queued(c, op) \/ (c.onSource = r /\ \E i \in DOMAIN ops : ops[i] = op)
  <2>1. CallsQueued(c, d, r, ops)
    BY EmitIs
  <2> QED
    BY <2>1 DEF CallsQueued
<1>3. /\ RequestsOK(c, n) /\ TransferOK(c, src) /\ ProgressOK(c, src) /\ Noticed(c, src) /\ Served(c, src)
      /\ PagesOK(pgs, c.wire, src) /\ WaitOK(c, src, pgs)
  BY DEF Sound
<1>4. /\ d.device = c.device /\ d.wire = c.wire /\ d.parsed = c.parsed /\ d.buffer = c.buffer /\ d.finished = c.finished
      /\ d.streaming = c.streaming /\ d.sourceClosed = c.sourceClosed
      /\ Busy(d) <=> Busy(c)
      /\ Current(d) = Current(c)
  BY <1>2 DEF SameRequests, SameTransfer, Busy, Current
<1>5. RequestsOK(d, n)
  BY <1>2, <1>3, <1>4, SameRequestsOK
<1>6. src[r] # NoSource /\ s # NoSource
  BY DEF NoSource
<1>7. \A q \in Rids : src[q] # NoSource => dst[q] # NoSource /\ (Complete(src, q) => Complete(dst, q))
  <2> SUFFICES ASSUME NEW q \in Rids, src[q] # NoSource
               PROVE  dst[q] # NoSource /\ (Complete(src, q) => Complete(dst, q))
    OBVIOUS
  <2>1. CASE q = r
    BY <1>1, <1>6, <2>1 DEF Complete
  <2>2. CASE q # r
    BY <1>1, <2>2 DEF Complete
  <2> QED
    BY <2>1, <2>2
<1>8. TransferOK(d, dst)
  <2>1. SourcesOK(c, src)
    BY <1>3 DEF TransferOK
  <2>2. SourcesOK(c, dst)
    <3> SUFFICES ASSUME NEW q \in Rids
                 PROVE  /\ dst[q].kind = "none" => dst[q] = NoSource
                        /\ dst[q].kind = "buffer" => dst[q].left = 0
                        /\ dst[q].lost => dst[q].kind = "cgi"
                        /\ dst[q].ended => dst[q].left = 0
                        /\ dst[q].ended => dst[q].early \/ Begun(c.wire, q)
                        /\ q > c.parsed => dst[q] = NoSource
      BY DEF SourcesOK
    <3>1. CASE q = r
      <4>1. ~(q > c.parsed)
        BY <1>6, <2>1, <3>1 DEF SourcesOK
      <4> QED
        BY <1>1, <3>1, <4>1
    <3>2. CASE q # r
      BY <1>1, <2>1, <3>2 DEF SourcesOK
    <3> QED
      BY <3>1, <3>2
  <2>3. TransferOK(c, dst)
    BY <1>3, <1>7, <2>2, SourcesChange
  <2>4. d.device = "closing" => d.toWrite
    BY <1>2, <1>3, <1>4 DEF TransferOK, HandlersOK
  <2>5. d.parsed >= c.parsed
    BY <1>4 DEF Connections
  <2> QED
    BY <1>1, <1>2, <2>3, <2>4, <2>5, TransferKeeps
<1>9. ASSUME Busy(c)
      PROVE  LET t == dst[Current(c)]
             IN  /\ c.streaming <=> t.kind # "buffer"
                 /\ c.sourceClosed \/ Queued(d, "closed") => t.ended
                 /\ c.sourceClosed \/ ~c.streaming => t.avail > 0
                 /\ c.streaming /\ t.ended /\ ~t.early => c.sourceClosed \/ Queued(d, "closed")
                 /\ t.avail > 0 => c.toWrite \/ Queued(d, "written") \/ Queued(d, "ready")
  <2>1. Current(c) \in Rids
    BY <1>3, <1>9, CurrentHasSource DEF TransferOK, Busy
  <2>2. /\ c.streaming <=> src[Current(c)].kind # "buffer"
        /\ c.sourceClosed \/ Queued(c, "closed") => src[Current(c)].ended
        /\ c.sourceClosed \/ ~c.streaming => src[Current(c)].avail > 0
    BY <1>3, <1>9 DEF ProgressOK
  <2>3. CASE Current(c) = r
    BY <1>1, <1>9, <2>2, <2>3
  <2>4. CASE Current(c) # r
    <3>1. dst[Current(c)] = src[Current(c)] /\ c.onSource # r
      BY <1>1, <1>3, <1>9, <2>1, <2>4 DEF TransferOK, HandlersOK
    <3>2. \A op : Queued(d, op) <=> Queued(c, op)
      BY <1>2, <3>1
    <3> QED
      BY <1>3, <1>9, <2>2, <3>1, <3>2 DEF Noticed, Served
  <2> QED
    BY <2>3, <2>4
<1>10. ProgressOK(d, dst) /\ Noticed(d, dst) /\ Served(d, dst)
  BY <1>2, <1>4, <1>9 DEF ProgressOK, Noticed, Served
<1>11. PagesOK(pgs, d.wire, dst)
  <2>1. \A i \in DOMAIN pgs : pgs[i] \in Rids
    OBVIOUS
  <2> QED
    BY <1>3, <1>4, <1>7, <2>1 DEF PagesOK
<1>12. WaitOK(d, dst, pgs)
  <2>1. \A q \in 1 .. c.parsed : src[q] = NoSource => dst[q] = NoSource
    <3> SUFFICES ASSUME NEW q \in 1 .. c.parsed, src[q] = NoSource PROVE dst[q] = NoSource
      OBVIOUS
    <3>1. c.parsed <= c.sent /\ c.sent <= MaxRequests /\ c.sent \in Nat /\ c.parsed \in Nat
      BY <1>3 DEF RequestsOK, Connections
    <3>2. q \in Rids /\ q # r
      BY <1>6, <3>1, HttpTransferAssumption DEF Rids
    <3> QED
      BY <1>1, <3>2
  <2> QED
    BY <1>2, <1>3, <1>4, <2>1 DEF WaitOK
<1> QED
  BY <1>2, <1>5, <1>8, <1>10, <1>11, <1>12 DEF Sound, dst

LEMMA ProduceIsSound == ASSUME Inv, NEW r \in Rids, Produce(r) PROVE Inv'
<1> DEFINE s == [source[r] EXCEPT !.left = @ - 1, !.avail = @ + 1]
           ops == <<"ready">>
           d == Emitted(conn, r, ops)
<1>1. net \in Seq(Words) /\ conn \in Connections /\ source \in [Rids -> Sources] /\ pages \in Seq(Rids)
      /\ Sound(conn, source, pages, net)
  BY DEF Inv, Types
<1>2. /\ conn' = d /\ net' = net /\ pages' = pages /\ conn.device # "gone" /\ source[r].left > 0
      /\ source' = [source EXCEPT ![r].left = @ - 1, ![r].avail = @ + 1]
  BY DEF Produce, Emit, Emitted
<1>3. source' = [source EXCEPT ![r] = s]
  BY <1>1, <1>2
<1>4. source[r] \in Sources /\ source[r].left \in Nat /\ source[r].avail \in Nat
  BY <1>1 DEF Sources
<1>5. /\ s \in Sources /\ s.kind = source[r].kind /\ s.left = source[r].left - 1 /\ s.avail = source[r].avail + 1
      /\ s.ended = source[r].ended /\ s.lost = source[r].lost
  <2> DEFINE t == source[r]
  <2>1. t \in Sources /\ t.left > 0 /\ s = [t EXCEPT !.left = @ - 1, !.avail = @ + 1]
    BY <1>2, <1>4
  <2> DEFINE left == t.left - 1
             avail == t.avail + 1
  <2> HIDE DEF t
  <2>2. left \in Nat /\ avail \in Nat /\ s = [t EXCEPT !.left = left, !.avail = avail]
    BY <2>1 DEF Sources
  <2> HIDE DEF s, left, avail
  <2>3. s \in Sources /\ s.kind = t.kind /\ s.left = left /\ s.avail = avail /\ s.ended = t.ended /\ s.lost = t.lost
    BY <2>1, <2>2 DEF Sources
  <2>4. s \in Sources /\ s.kind = t.kind /\ s.left = t.left - 1 /\ s.avail = t.avail + 1 /\ s.ended = t.ended /\ s.lost = t.lost
    BY <2>3 DEF left, avail
  <2> QED
    BY <2>4 DEF t
<1>6. SourcesOK(conn, source)
  BY <1>1 DEF Sound, TransferOK
<1>7. source[r].kind \notin {"none", "buffer"} /\ ~s.ended /\ ~(source[r].left = 0)
  <2>1. source[r] # NoSource
    BY <1>2 DEF NoSource
  <2> QED
    BY <1>2, <1>4, <1>5, <1>6, <2>1 DEF SourcesOK
<1>8. s.lost => s.kind = "cgi"
  BY <1>5, <1>6 DEF SourcesOK
<1>9. Complete(source, r) => s.kind = "cgi"
  BY <1>5, <1>7 DEF Complete
<1>10. ops \in Seq({"ready", "closed"}) /\ DOMAIN ops = {1} /\ ops[1] = "ready"
  OBVIOUS
<1> HIDE DEF s, ops, d
<1>11. ASSUME Busy(conn), Current(conn) = r
       PROVE  ~Queued(d, "closed") /\ ~conn.sourceClosed /\ Queued(d, "ready")
  <2>1. conn.onSource = r
    BY <1>1, <1>11 DEF Sound, TransferOK, HandlersOK
  <2>2. ~conn.sourceClosed /\ ~Queued(conn, "closed")
    BY <1>1, <1>5, <1>7, <1>11 DEF Sound, ProgressOK
  <2>3. /\ \A op : Queued(d, op) => Queued(conn, op) \/ (conn.onSource = r /\ \E i \in DOMAIN ops : ops[i] = op)
        /\ conn.onSource = r => \A i \in DOMAIN ops : Queued(d, ops[i])
    <3>1. CallsQueued(conn, d, r, ops)
      BY <1>1, <1>10, EmitIs DEF d
    <3> QED
      BY <3>1 DEF CallsQueued
  <2>4. ~Queued(d, "closed")
    BY <1>10, <2>2, <2>3
  <2> QED
    BY <1>10, <2>1, <2>2, <2>3, <2>4
<1>12. d \in Connections /\ Sound(d, [source EXCEPT ![r] = s], pages, net)
  <2>1. d = Emitted(conn, r, ops)
    BY DEF d
  <2> QED
    BY <1>1, <1>2, <1>5, <1>7, <1>8, <1>9, <1>10, <1>11, <2>1, SourceGoesOn
<1>13. [source EXCEPT ![r] = s] \in [Rids -> Sources]
  BY <1>1, <1>5
<1> QED
  BY <1>1, <1>2, <1>3, <1>12, <1>13, InvPrimed

LEMMA EndSourceIsSound == ASSUME Inv, NEW r \in Rids, EndSource(r) PROVE Inv'
<1> DEFINE t == source[r]
           early == ~Started(r)
           lost == t.kind = "cgi" /\ t.avail > 0
           avail == IF t.kind = "cgi" THEN 0 ELSE t.avail
           s == [t EXCEPT !.ended = TRUE, !.early = early, !.lost = lost, !.avail = avail]
           ops == IF t.kind = "cgi" THEN <<"closed", "closed">> ELSE <<"closed">>
           d == Emitted(conn, r, ops)
<1>1. net \in Seq(Words) /\ conn \in Connections /\ source \in [Rids -> Sources] /\ pages \in Seq(Rids)
      /\ Sound(conn, source, pages, net)
  BY DEF Inv, Types
<1>2. /\ conn' = d /\ net' = net /\ pages' = pages /\ conn.device # "gone" /\ t.left = 0 /\ ~t.ended
      /\ t.kind \in {"stream", "cgi"}
  BY DEF EndSource, Emit, Emitted
<1>3. source' = [source EXCEPT ![r] = s]
  BY <1>1 DEF EndSource
<1>4. t \in Sources /\ t.avail \in Nat
  BY <1>1 DEF Sources
<1>5. early \in BOOLEAN /\ lost \in BOOLEAN /\ avail \in Nat /\ (Begun(conn.wire, r) \/ early)
  BY <1>4 DEF Begun, Started, Token
<1>6. ops \in Seq({"ready", "closed"}) /\ 1 \in DOMAIN ops /\ \A i \in DOMAIN ops : ops[i] = "closed"
  <2>1. CASE t.kind = "cgi"
    <3>1. ops = <<"closed", "closed">>
      BY <2>1
    <3> HIDE DEF ops
    <3> QED
      BY <3>1
  <2>2. CASE t.kind # "cgi"
    <3>1. ops = <<"closed">>
      BY <2>2
    <3> HIDE DEF ops
    <3> QED
      BY <3>1
  <2> QED
    BY <2>1, <2>2
<1>7. t.kind # "cgi" => ~lost /\ avail = t.avail
  OBVIOUS
<1>8. lost => t.kind = "cgi"
  OBVIOUS
<1> HIDE DEF ops, d, early, lost, avail, t
<1>9. /\ s \in Sources /\ s.kind = t.kind /\ s.left = t.left /\ s.avail = avail /\ s.ended /\ s.lost = lost
      /\ s.early = early
  BY <1>4, <1>5 DEF Sources
<1> HIDE DEF s
<1>10. Complete(source, r) => s.kind = "cgi" \/ (s.avail = 0 /\ s.left = 0 /\ ~s.lost)
  BY <1>2, <1>7, <1>9 DEF Complete, t
<1>11. ASSUME Busy(conn), Current(conn) = r
       PROVE  /\ ~conn.sourceClosed /\ Queued(d, "closed")
              /\ s.avail > 0 => conn.toWrite \/ Queued(d, "written") \/ Queued(d, "ready")
  <2>1. conn.onSource = r
    BY <1>1, <1>11 DEF Sound, TransferOK, HandlersOK
  <2>2. ~conn.sourceClosed
    BY <1>1, <1>2, <1>11 DEF Sound, ProgressOK, t
  <2>3. /\ \A op : Queued(conn, op) => Queued(d, op)
        /\ conn.onSource = r => \A i \in DOMAIN ops : Queued(d, ops[i])
    <3>1. CallsQueued(conn, d, r, ops)
      BY <1>1, <1>6, EmitIs DEF d
    <3> QED
      BY <3>1 DEF CallsQueued
  <2>4. s.avail > 0 => t.avail > 0
    <3>1. t.kind = "cgi" => avail = 0
      BY DEF avail
    <3> QED
      BY <1>7, <1>9, <3>1
  <2>5. t.avail > 0 => conn.toWrite \/ Queued(conn, "written") \/ Queued(conn, "ready")
    BY <1>1, <1>11 DEF Sound, Served, t
  <2>6. Queued(d, "closed")
    BY <1>6, <2>1, <2>3
  <2> QED
    BY <2>2, <2>3, <2>4, <2>5, <2>6
<1>12. d \in Connections /\ Sound(d, [source EXCEPT ![r] = s], pages, net)
  <2>1. d = Emitted(conn, r, ops)
    BY DEF d
  <2>2. source[r].kind \notin {"none", "buffer"} /\ s.kind = source[r].kind
    BY <1>2, <1>9 DEF t
  <2>3. (s.lost => s.kind = "cgi") /\ s.left = 0 /\ (s.early \/ Begun(conn.wire, r))
    BY <1>2, <1>5, <1>8, <1>9
  <2>4. Busy(conn) /\ Current(conn) = r =>
           /\ Queued(d, "closed") \/ conn.sourceClosed => s.ended
           /\ conn.sourceClosed => s.avail > 0
           /\ s.ended => Queued(d, "closed")
           /\ s.avail > 0 => conn.toWrite \/ Queued(d, "written") \/ Queued(d, "ready")
    BY <1>9, <1>11
  <2>5. s.lost => s.kind = "cgi"
    BY <2>3
  <2>6. s.ended => s.left = 0
    BY <2>3
  <2>7. s.ended => s.early \/ Begun(conn.wire, r)
    BY <2>3, Zenon
  <2>8. conn.device # "gone" /\ s \in Sources /\ ops \in Seq({"ready", "closed"})
    BY <1>2, <1>6, <1>9
  <2> QED
    BY <1>1, <1>10, <2>1, <2>2, <2>4, <2>5, <2>6, <2>7, <2>8, SourceGoesOn, Zenon
<1>13. [source EXCEPT ![r] = s] \in [Rids -> Sources]
  BY <1>1, <1>9
<1> QED
  BY <1>1, <1>2, <1>3, <1>12, <1>13, InvPrimed

\* The next queued call is taken from the queue.
Taken(c) == [c EXCEPT !.calls = Tail(@)]

LEMMA TakenIs ==
    ASSUME NEW c \in Connections, c.calls # <<>>
    PROVE  /\ Taken(c) \in Connections /\ SameRequests(c, Taken(c)) /\ SameTransfer(c, Taken(c))
           /\ Taken(c).toWrite = c.toWrite
           /\ Head(c.calls) \in Calls
           /\ \A i \in DOMAIN Taken(c).calls : MayCall(c, Taken(c).calls[i])
           /\ \A op : Queued(c, op) <=> Queued(Taken(c), op) \/ Head(c.calls).op = op
           /\ \E i \in DOMAIN c.calls : Head(c.calls) = c.calls[i]
<1> DEFINE d == Taken(c)
           calls == Tail(c.calls)
<1>1. /\ c.calls \in Seq(Calls) /\ Len(c.calls) \in Nat \ {0}
      /\ calls \in Seq(Calls) /\ Len(calls) = Len(c.calls) - 1 /\ \A i \in 1 .. Len(c.calls) - 1 : calls[i] = c.calls[i + 1]
      /\ Head(c.calls) = c.calls[1] /\ 1 \in DOMAIN c.calls
  <2>1. c.calls \in Seq(Calls)
    BY DEF Connections
  <2> QED
    BY <2>1, HeadTailProperties
<1>2. d = [c EXCEPT !.calls = calls]
  BY DEF Taken
<1> HIDE DEF calls, d
<1>3. d \in Connections /\ d.calls = calls /\ d.toWrite = c.toWrite
  BY <1>1, <1>2 DEF Connections
<1>4. SameRequests(c, d)
  BY <1>2 DEF SameRequests, Connections
<1>5. SameTransfer(c, d)
  BY <1>2 DEF SameTransfer, Connections
<1>6. \A i \in DOMAIN calls : i + 1 \in DOMAIN c.calls /\ calls[i] = c.calls[i + 1]
  BY <1>1
<1>7. \A j \in DOMAIN c.calls : j = 1 \/ (j - 1 \in DOMAIN calls /\ calls[j - 1] = c.calls[j])
  <2> SUFFICES ASSUME NEW j \in DOMAIN c.calls, j # 1 PROVE j - 1 \in DOMAIN calls /\ calls[j - 1] = c.calls[j]
    OBVIOUS
  <2> DEFINE m == j - 1
  <2>1. m \in 1 .. Len(c.calls) - 1 /\ m + 1 = j
    BY <1>1
  <2> HIDE DEF m
  <2>2. m \in DOMAIN calls /\ calls[m] = c.calls[j]
    BY <1>1, <2>1
  <2> QED
    BY <2>2 DEF m
<1>8. \A i \in DOMAIN d.calls : MayCall(c, d.calls[i])
  BY <1>3, <1>6 DEF MayCall
<1>9. ASSUME NEW op PROVE Queued(c, op) <=> Queued(d, op) \/ Head(c.calls).op = op
  <2>1. ASSUME Queued(c, op) PROVE Queued(d, op) \/ Head(c.calls).op = op
    <3>1. PICK j \in DOMAIN c.calls : c.calls[j].op = op
      BY <2>1 DEF Queued
    <3> QED
      BY <1>1, <1>3, <1>7, <3>1 DEF Queued
  <2>2. ASSUME Queued(d, op) PROVE Queued(c, op)
    BY <1>3, <1>6, <2>2 DEF Queued
  <2>3. Head(c.calls).op = op => Queued(c, op)
    BY <1>1 DEF Queued
  <2> QED
    BY <2>1, <2>2, <2>3
<1> QED
  BY <1>1, <1>3, <1>4, <1>5, <1>8, <1>9 DEF d

\* What sendNext...() leaves of the sources.
LEMMA SourceAfterIs ==
    ASSUME NEW c, NEW src \in [Rids -> Sources], NEW r \in Rids, SourcesOK(c, src)
    PROVE  LET dst == [src EXCEPT ![r] = SourceAfter(c, src[r])]
           IN  dst \in [Rids -> Sources] /\ \A q \in Rids : dst[q] = NoSource <=> src[q] = NoSource
<1> DEFINE s == SourceAfter(c, src[r])
           dst == [src EXCEPT ![r] = s]
<1>1. s = src[r] \/ (s = ReadFrom(src[r]) /\ src[r].avail > 0)
  <2>1. src[r].avail \in Nat
    BY DEF Sources
  <2> QED
    BY <2>1 DEF SourceAfter
<1>2. s \in Sources
  BY <1>1, ReadFromIs
<1>3. ASSUME s = ReadFrom(src[r]), src[r].avail > 0 PROVE s # NoSource /\ src[r] # NoSource
  <2>1. src[r] # NoSource
    BY <1>3 DEF NoSource
  <2>2. src[r].kind # "none"
    BY <2>1 DEF SourcesOK
  <2>3. s.kind # "none"
    BY <1>3, <2>2, ReadFromIs
  <2> QED
    BY <2>1, <2>3 DEF NoSource
<1> HIDE DEF s
<1>4. dst \in [Rids -> Sources]
  BY <1>2
<1>5. \A q \in Rids : dst[q] = NoSource <=> src[q] = NoSource
  BY <1>1, <1>3
<1> QED
  BY <1>4, <1>5 DEF s

\* A handler has run.
LEMMA RunIsSound ==
    ASSUME NEW c \in Connections, NEW src \in [Rids -> Sources], NEW dst \in [Rids -> Sources], NEW d,
           NEW pgs \in Seq(Rids), NEW n,
           HasRun(c, d, dst, n), Noticed(d, dst), Served(d, dst), RequestsOK(c, n), TransferOK(c, src),
           PagesOK(pgs, c.wire, src), WaitOK(c, src, pgs), \A q \in Rids : dst[q] = NoSource <=> src[q] = NoSource
    PROVE  d \in Connections /\ Sound(d, dst, pgs, n)
<1>1. d \in Connections /\ TransferOK(d, dst) /\ ProgressOK(d, dst) /\ RequestsOK(d, n)
  BY DEF HasRun
<1>2. PagesOK(pgs, d.wire, dst)
  <2>1. \A i \in DOMAIN pgs : pgs[i] \in Rids
    OBVIOUS
  <2> QED
    BY <2>1 DEF PagesOK, HasRun
<1>3. WaitOK(d, dst, pgs)
  <2> SUFFICES ASSUME d.device = "open", HasHead(d.buffer), ~Busy(d), ~Queued(d, "incoming")
               PROVE  \E q \in 1 .. d.parsed : dst[q] = NoSource \/ \E i \in DOMAIN pgs : pgs[i] = q
    BY DEF WaitOK
  <2>1. c.parsed \in Nat /\ c.parsed <= c.sent /\ c.sent <= MaxRequests /\ c.sent \in Nat
    BY DEF RequestsOK, Connections
  <2>2. CASE Busy(c)
    <3>1. d.parsed = c.parsed + 1
      BY <2>2 DEF HasRun, Parsed, HasHead
    <3>2. d.parsed \in Rids /\ src[d.parsed] = NoSource
      BY <1>1, <3>1, NextHasNoSource
    <3>3. d.parsed \in 1 .. d.parsed /\ dst[d.parsed] = NoSource
      BY <2>1, <3>1, <3>2
    <3> QED
      BY <3>3
  <2>3. CASE ~Busy(c)
    <3>1. d = c
      BY <2>3 DEF HasRun
    <3>2. \A q \in 1 .. c.parsed : q \in Rids
      BY <2>1, HttpTransferAssumption DEF Rids
    <3> QED
      BY <3>1, <3>2 DEF WaitOK
  <2> QED
    BY <2>2, <2>3
<1> QED
  BY <1>1, <1>2, <1>3 DEF Sound

LEMMA RunCallIsSound == ASSUME Inv, RunCall PROVE Inv'
<1> DEFINE call == Head(conn.calls)
           c == Taken(conn)
           r == call.rid
<1>1. net \in Seq(Words) /\ conn \in Connections /\ source \in [Rids -> Sources] /\ pages \in Seq(Rids)
      /\ Sound(conn, source, pages, net)
  BY DEF Inv, Types
<1>2. pages' = pages /\ net' = net /\ conn.calls # <<>>
  BY DEF RunCall
<1>3. /\ call.op = "incoming" => conn' = IncomingData(c, <<>>) /\ source' = source
      /\ call.op = "written" => /\ conn' = SendNext(c, r, source[r])
                                /\ source' = [source EXCEPT ![r] = SourceAfter(c, source[r])]
      /\ call.op = "ready" =>
            IF SendsAtOnce(c, source[r])
            THEN /\ conn' = SendNext([c EXCEPT !.readyRead = TRUE], r, source[r])
                 /\ source' = [source EXCEPT ![r] = SourceAfter(c, source[r])]
            ELSE conn' = c /\ source' = source
      /\ call.op = "closed" => conn' = SourceClosed(c, r, source[r]) /\ source' = source
  BY DEF RunCall, Taken
<1>4. /\ c \in Connections /\ SameRequests(conn, c) /\ SameTransfer(conn, c)
      /\ c.toWrite = conn.toWrite
      /\ call \in Calls
      /\ \A i \in DOMAIN c.calls : MayCall(conn, c.calls[i])
      /\ \A op : Queued(conn, op) <=> Queued(c, op) \/ call.op = op
      /\ \E i \in DOMAIN conn.calls : call = conn.calls[i]
  BY <1>1, <1>2, TakenIs
<1>5. call.op \in {"written", "ready", "closed", "incoming"} /\ (call.op # "incoming" => r \in Rids)
  BY <1>4, CallTypes
<1> HIDE DEF c, call
<1>6. /\ RequestsOK(conn, net) /\ TransferOK(conn, source) /\ ProgressOK(conn, source) /\ Noticed(conn, source)
      /\ Served(conn, source) /\ PagesOK(pages, conn.wire, source) /\ WaitOK(conn, source, pages)
  BY <1>1 DEF Sound
<1>7. /\ c.device = conn.device /\ c.wire = conn.wire /\ c.parsed = conn.parsed /\ c.buffer = conn.buffer
      /\ c.content = conn.content /\ c.finished = conn.finished /\ conn.parsed \in Nat
      /\ c.streaming = conn.streaming /\ c.sourceClosed = conn.sourceClosed
      /\ Busy(c) <=> Busy(conn)
      /\ Current(c) = Current(conn)
  BY <1>1, <1>4 DEF SameRequests, SameTransfer, Busy, Current, Connections
<1>8. RequestsOK(c, net)
  <2>1. CASE conn.device = "gone"
    BY <1>4, <1>6, <1>7, <2>1, GoneRequestsOK DEF SameRequests, RequestsOK
  <2>2. CASE conn.device # "gone"
    BY <1>4, <1>6, <1>7, <2>2, SameRequestsOK
  <2> QED
    BY <2>1, <2>2
<1>9. TransferOK(c, source)
  <2>1. c.device = "closing" => c.toWrite
    BY <1>4, <1>6, <1>7 DEF TransferOK, HandlersOK
  <2>2. c.parsed >= conn.parsed
    BY <1>7
  <2> QED
    BY <1>1, <1>4, <1>6, <2>1, <2>2, TransferKeeps
<1>10. ProgressOK(c, source)
  BY <1>4, <1>6, ProgressKeeps
<1>11. PagesOK(pages, c.wire, source) /\ SourcesOK(c, source)
  BY <1>6, <1>7, <1>9 DEF TransferOK
<1>12. call.op # "closed" => Noticed(c, source)
  BY <1>4, <1>6, <1>7 DEF Noticed
<1>13. call.op \notin {"written", "ready"} => Served(c, source)
  BY <1>4, <1>6, <1>7 DEF Served
<1>14. call.op # "incoming" => WaitOK(c, source, pages)
  BY <1>4, <1>6, <1>7 DEF WaitOK
<1>15. ASSUME call.op # "incoming"
       PROVE  r \in Rids /\ MayRun(c, source, r, net) /\ (Busy(c) => Current(c) = r)
  <2>1. c.device # "gone" /\ c.wire # <<>>
    BY <1>4, <1>6, <1>7, <1>15 DEF TransferOK, HandlersOK
  <2>2. Busy(c) => Current(c) = r
    BY <1>4, <1>6, <1>7, <1>15 DEF TransferOK, HandlersOK
  <2>3. ~c.finished => Current(c) = r
    BY <2>1, <2>2 DEF Busy
  <2> HIDE DEF r
  <2> QED
    BY <1>5, <1>8, <1>9, <1>10, <1>15, <2>1, <2>2, <2>3 DEF MayRun
<1>16. CASE call.op = "incoming" /\ conn.device # "gone"
  <2>1. <<>> \o net = net /\ <<>> \in Seq(Words)
    BY <1>1, ConcatEmptySeq
  <2>2. RequestsOK(c, <<>> \o net) /\ c.device # "gone"
    BY <1>7, <1>8, <1>16, <2>1
  <2>3. Noticed(c, source) /\ Served(c, source)
    BY <1>12, <1>13, <1>16
  <2>4. IncomingData(c, <<>>) \in Connections /\ Sound(IncomingData(c, <<>>), source, pages, net)
    BY <1>1, <1>4, <1>9, <1>10, <1>11, <2>1, <2>2, <2>3, IncomingDataIsSound
  <2> QED
    BY <1>1, <1>2, <1>3, <1>16, <2>4, InvPrimed
<1>17. CASE call.op = "incoming" /\ conn.device = "gone"
  <2> DEFINE d == IncomingData(c, <<>>)
  <2>1. <<>> \in Seq(Words)
    OBVIOUS
  <2>2. d \in Connections
    BY <1>4, <2>1, IncomingDataType
  <2>3. c.content = 0 /\ c.buffer = <<>> /\ ~Expecting(c)
    BY <1>6, <1>7, <1>17 DEF RequestsOK, Expecting
  <2>4. Received(c, <<>>) = [c EXCEPT !.content = 0, !.needs = 0, !.buffer = <<>>]
    <3>1. c.buffer \o Rest(<<>>, 0) = <<>>
      BY <1>4, <2>3, NothingIncomes
    <3> QED
      BY <2>3, <3>1 DEF Received
  <2>5. d = [c EXCEPT !.content = 0, !.needs = 0, !.buffer = <<>>]
    <3> DEFINE e == Received(c, <<>>)
    <3>1. d = IF \E i \in DOMAIN e.buffer : IsHead(e.buffer[i]) THEN NewRequest(e) ELSE e
      BY <1>4, <2>1, <2>3, IncomingDataCases
    <3>2. e.buffer = <<>>
      BY <1>4, <2>4 DEF Connections
    <3> HIDE DEF e, d
    <3>3. d = e
      BY <3>1, <3>2
    <3> QED
      BY <2>4, <3>3 DEF e
  <2> HIDE DEF d
  <2>6. /\ d.device = c.device /\ d.wire = c.wire /\ d.parsed = c.parsed /\ d.buffer = <<>> /\ d.content = 0
        /\ d.sent = c.sent /\ d.garbled = c.garbled /\ d.dropped = c.dropped /\ d.calls = c.calls
    BY <1>4, <2>5 DEF Connections
  <2>7. SameTransfer(c, d)
    BY <1>4, <2>5 DEF SameTransfer, Connections
  <2>8. RequestsOK(d, net)
    BY <1>7, <1>8, <1>17, <2>6, GoneRequestsOK
  <2>9. ~Busy(d)
    BY <1>7, <1>17, <2>6 DEF Busy
  <2>10. TransferOK(d, source)
    <3>1. d.device # "closing" /\ d.parsed >= c.parsed
      BY <1>7, <1>17, <2>6
    <3>2. \A i \in DOMAIN d.calls : MayCall(c, d.calls[i])
      BY <2>6 DEF MayCall
    <3> QED
      BY <1>1, <1>4, <1>9, <2>2, <2>7, <3>1, <3>2, TransferKeeps
  <2>11. ProgressOK(d, source) /\ Noticed(d, source) /\ Served(d, source)
    BY <2>9 DEF ProgressOK, Noticed, Served
  <2>12. PagesOK(pages, d.wire, source) /\ WaitOK(d, source, pages)
    BY <1>7, <1>11, <1>17, <2>6 DEF WaitOK
  <2>13. conn' = d /\ source' = source
    BY <1>3, <1>17 DEF d
  <2> QED
    BY <1>1, <1>2, <2>2, <2>8, <2>10, <2>11, <2>12, <2>13, InvPrimed DEF Sound
<1>18. CASE call.op = "written"
  <2> DEFINE d == SendNext(c, r, source[r])
             dst == [source EXCEPT ![r] = SourceAfter(c, source[r])]
  <2>1. r \in Rids /\ MayRun(c, source, r, net)
    BY <1>15, <1>18
  <2>2. HasRun(c, d, dst, net) /\ Served(d, dst) /\ (Noticed(c, source) => Noticed(d, dst))
    BY <1>1, <1>4, <2>1, SendNextRuns
  <2>3. dst \in [Rids -> Sources] /\ \A q \in Rids : dst[q] = NoSource <=> source[q] = NoSource
    BY <1>1, <1>11, <2>1, SourceAfterIs
  <2>4. conn' = d /\ source' = dst
    BY <1>3, <1>18
  <2> HIDE DEF d, dst
  <2>5. d \in Connections /\ Sound(d, dst, pages, net)
    BY <1>1, <1>4, <1>8, <1>9, <1>11, <1>12, <1>14, <1>18, <2>2, <2>3, RunIsSound
  <2> QED
    BY <1>1, <1>2, <2>3, <2>4, <2>5, InvPrimed
<1>19. CASE call.op = "closed"
  <2> DEFINE d == SourceClosed(c, r, source[r])
  <2>1. r \in Rids /\ MayRun(c, source, r, net)
    BY <1>15, <1>19
  <2>2. Busy(c) => source[r].ended
    BY <1>4, <1>6, <1>7, <1>15, <1>19 DEF ProgressOK
  <2>3. HasRun(c, d, source, net) /\ Noticed(d, source) /\ (Served(c, source) => Served(d, source))
    BY <1>1, <1>4, <2>1, <2>2, SourceClosedRuns
  <2>4. conn' = d /\ source' = source
    BY <1>3, <1>19
  <2> HIDE DEF d
  <2>5. d \in Connections /\ Sound(d, source, pages, net)
    BY <1>1, <1>4, <1>8, <1>9, <1>11, <1>13, <1>14, <1>19, <2>3, RunIsSound
  <2> QED
    BY <1>1, <1>2, <2>4, <2>5, InvPrimed
<1>20. CASE call.op = "ready" /\ ~SendsAtOnce(c, source[r])
  <2>1. conn' = c /\ source' = source
    BY <1>3, <1>20
  <2>2. Served(c, source)
    <3> SUFFICES ASSUME Busy(c), source[Current(c)].avail > 0 PROVE c.toWrite
      BY DEF Served
    <3>1. Current(c) = r /\ c.toWrite \in BOOLEAN
      BY <1>4, <1>15, <1>20 DEF Connections
    <3> QED
      BY <1>20, <3>1 DEF SendsAtOnce
  <2> QED
    BY <1>1, <1>2, <1>4, <1>8, <1>9, <1>10, <1>11, <1>12, <1>14, <1>20, <2>1, <2>2, InvPrimed DEF Sound
<1>21. CASE call.op = "ready" /\ SendsAtOnce(c, source[r])
  <2> DEFINE e == [c EXCEPT !.readyRead = TRUE]
             d == SendNext(e, r, source[r])
             dst == [source EXCEPT ![r] = SourceAfter(e, source[r])]
  <2>1. r \in Rids /\ MayRun(c, source, r, net)
    BY <1>15, <1>21
  <2>2. e \in Connections /\ e.toWrite = c.toWrite /\ e.calls = c.calls /\ e.device = c.device /\ e.wire = c.wire
        /\ e.finished = c.finished /\ e.parsed = c.parsed /\ e.buffer = c.buffer
        /\ e.streaming = c.streaming /\ e.sourceClosed = c.sourceClosed
    BY <1>4 DEF Connections
  <2>3. SameTransfer(c, e)
    BY <1>4 DEF SameTransfer, Connections
  <2>4. SameRequests(c, e)
    BY <1>4 DEF SameRequests, Connections
  <2>5. conn' = d /\ source' = dst
    <3>1. SourceAfter(e, source[r]) = SourceAfter(c, source[r])
      BY <2>2 DEF SourceAfter
    <3> QED
      BY <1>3, <1>21, <3>1
  <2> HIDE DEF e
  <2>6. (Busy(e) <=> Busy(c)) /\ Current(e) = Current(c) /\ \A op : Queued(e, op) <=> Queued(c, op)
    BY <2>2 DEF Busy, Current, Queued
  <2>7. MayRun(e, source, r, net)
    <3>1. e.device = "closing" => e.toWrite
      BY <1>9, <2>2 DEF TransferOK, HandlersOK
    <3>2. e.parsed >= c.parsed /\ c.device # "gone"
      BY <1>7, <2>1, <2>2 DEF MayRun
    <3>3. \A i \in DOMAIN e.calls : MayCall(c, e.calls[i])
      BY <2>2 DEF MayCall
    <3>4. TransferOK(e, source)
      BY <1>1, <1>4, <1>9, <2>2, <2>3, <3>1, <3>2, <3>3, TransferKeeps
    <3>5. ProgressOK(e, source)
      BY <1>10, <2>3, <2>6, ProgressKeeps
    <3>6. RequestsOK(e, net)
      BY <1>8, <2>2, <2>4, <3>2, SameRequestsOK
    <3> HIDE DEF r
    <3> QED
      BY <2>1, <2>2, <2>6, <3>4, <3>5, <3>6 DEF MayRun
  <2>8. HasRun(e, d, dst, net) /\ Served(d, dst) /\ (Noticed(e, source) => Noticed(d, dst))
    BY <1>1, <2>1, <2>2, <2>7, SendNextRuns
  <2>9. Noticed(e, source)
    BY <1>12, <1>21, <2>2, <2>6 DEF Noticed
  <2>10. dst \in [Rids -> Sources] /\ \A q \in Rids : dst[q] = NoSource <=> source[q] = NoSource
    <3>1. SourcesOK(e, source)
      BY <2>7 DEF MayRun, TransferOK
    <3> QED
      BY <1>1, <2>1, <3>1, SourceAfterIs
  <2>11. PagesOK(pages, e.wire, source) /\ WaitOK(e, source, pages) /\ RequestsOK(e, net) /\ TransferOK(e, source)
    BY <1>11, <1>14, <1>21, <2>2, <2>6, <2>7 DEF WaitOK, MayRun
  <2> HIDE DEF d, dst
  <2>12. d \in Connections /\ Sound(d, dst, pages, net)
    BY <1>1, <2>2, <2>8, <2>9, <2>10, <2>11, RunIsSound
  <2> QED
    BY <1>1, <1>2, <2>5, <2>10, <2>12, InvPrimed
<1> QED
  BY <1>5, <1>16, <1>17, <1>18, <1>19, <1>20, <1>21

\* A content is given up: it is gone or needs nothing any more, and d knows it when
\* its body had still to come.
GivesUp(c, d) ==
    /\ d.content = 0 \/ (d.content = c.content /\ d.needs = 0)
    /\ d.needs = c.needs \/ d.needs = 0
    /\ c.dropped \/ Expecting(c) => d.dropped

\* What comes next is then the body, and it stands for a request.
LEMMA GivingUpKeepsRequests ==
    ASSUME NEW c \in Connections, NEW d \in Connections, NEW n \in Seq(Words), RequestsOK(c, n), GivesUp(c, d),
           d.buffer = c.buffer, d.parsed = c.parsed, d.sent = c.sent, d.final = c.final, d.garbled = c.garbled,
           d.device = c.device
    PROVE  RequestsOK(d, n)
<1>1. /\ c.content \in Nat /\ d.content \in Nat /\ c.parsed \in Nat /\ c.sent \in Nat
      /\ c.dropped \in BOOLEAN /\ d.dropped \in BOOLEAN /\ c.final \in BOOLEAN
      /\ c.garbled \in BOOLEAN /\ c.buffer \in Seq(Words)
  BY DEF Connections
<1>2. ~Expecting(d)
  BY HttpTransferAssumption DEF GivesUp, Expecting
<1>3. d.content <= d.parsed /\ d.parsed <= d.sent /\ d.sent <= MaxRequests /\ (d.garbled => d.dropped)
      /\ (d.device = "gone" => d.buffer = <<>> /\ d.content = 0)
  BY <1>1 DEF RequestsOK, GivesUp
<1>4. ASSUME d.device # "gone"
      PROVE  /\ d.needs = All => d.buffer = <<>> /\ n = <<>> /\ d.final
             /\ StreamOK(Remaining(d, n), d.dropped, d.final, d.parsed, d.sent)
  <2>1. /\ Expecting(c) => c.buffer = <<>> /\ n # <<>> /\ Head(n) = "body"
        /\ c.needs = All => c.buffer = <<>> /\ n = <<>> /\ c.final
        /\ StreamOK(Remaining(c, n), c.dropped, c.final, c.parsed, c.sent)
    BY <1>4 DEF RequestsOK
  <2>2. d.needs = All => c.needs = All
    BY HttpTransferAssumption DEF GivesUp, All
  <2>3. Remaining(d, n) = c.buffer \o n
    BY <1>2 DEF Remaining
  <2>4. CASE ~Expecting(c)
    <3>1. Remaining(c, n) = c.buffer \o n
      BY <2>4 DEF Remaining
    <3>2. StreamOK(c.buffer \o n, d.dropped, c.final, c.parsed, c.sent)
      BY <1>1, <2>1, <3>1 DEF StreamOK, GivesUp
    <3> QED
      BY <2>1, <2>2, <2>3, <3>2
  <2>5. CASE Expecting(c)
    <3>1. c.buffer = <<>> /\ n # <<>> /\ Head(n) = "body"
      BY <2>1, <2>5
    <3>2. Remaining(c, n) = Tail(n) /\ Remaining(d, n) = n
      <4>1. Remaining(d, n) = <<>> \o n
        BY <2>3, <3>1
      <4> QED
        BY <2>5, <4>1, ConcatEmptySeq DEF Remaining
    <3>3. StreamOK(n, TRUE, c.final, c.parsed, c.sent)
      <4>1. StreamOK(Tail(n), c.dropped, c.final, c.parsed, c.sent)
        BY <2>1, <3>2
      <4> QED
        BY <1>1, <3>1, <4>1, StreamGainsBody
    <3>4. d.dropped = TRUE
      BY <1>1, <2>5 DEF GivesUp
    <3> QED
      BY <2>1, <2>2, <3>2, <3>3, <3>4
  <2> QED
    BY <2>4, <2>5
<1> QED
  BY <1>2, <1>3, <1>4 DEF RequestsOK

LEMMA DeleteContentKeepsRequests ==
    ASSUME NEW c \in Connections, NEW n \in Seq(Words), RequestsOK(c, n)
    PROVE  LET d == DeleteContent(c)
           IN  /\ d \in Connections /\ RequestsOK(d, n) /\ SameTransfer(c, d) /\ d.toWrite = c.toWrite
               /\ d.parsed = c.parsed /\ d.buffer = c.buffer /\ d.calls = c.calls
<1> DEFINE dropped == c.dropped \/ c.needs = 1
           d == [c EXCEPT !.content = 0, !.dropped = dropped]
<1>1. d = DeleteContent(c) /\ dropped \in BOOLEAN
  BY DEF DeleteContent, Connections
<1>2. c.dropped \/ Expecting(c) => dropped
  BY DEF Expecting
<1> HIDE DEF dropped
<1>3. /\ d \in Connections /\ d.content = 0 /\ d.dropped = dropped
      /\ d.needs = c.needs /\ d.buffer = c.buffer /\ d.parsed = c.parsed /\ d.sent = c.sent /\ d.final = c.final
      /\ d.garbled = c.garbled /\ d.device = c.device /\ d.toWrite = c.toWrite /\ d.calls = c.calls
  BY <1>1 DEF Connections
<1>4. SameTransfer(c, d)
  BY DEF SameTransfer, Connections
<1> HIDE DEF d
<1>5. GivesUp(c, d)
  BY <1>2, <1>3 DEF GivesUp
<1> QED
  BY <1>1, <1>3, <1>4, <1>5, GivingUpKeepsRequests

\* The page of a request is taken from the queue: its content goes.
Answering(c, r) == IF c.content = r THEN DeleteContent(c) ELSE c

LEMMA AnsweringKeepsRequests ==
    ASSUME NEW c \in Connections, NEW n \in Seq(Words), NEW r \in Rids, RequestsOK(c, n)
    PROVE  LET d == Answering(c, r)
           IN  /\ d \in Connections /\ RequestsOK(d, n) /\ SameTransfer(c, d) /\ d.toWrite = c.toWrite
               /\ d.parsed = c.parsed /\ d.buffer = c.buffer /\ d.calls = c.calls
<1>1. CASE c.content = r
  BY <1>1, DeleteContentKeepsRequests DEF Answering
<1>2. CASE c.content # r
  BY <1>2 DEF Answering, SameTransfer
<1> QED
  BY <1>1, <1>2

\* A content is given up and everything else goes on.
LEMMA GivingUpIsSound ==
    ASSUME Inv, conn' \in Connections, RequestsOK(conn', net), SameTransfer(conn, conn'),
           conn'.toWrite = conn.toWrite, conn'.parsed = conn.parsed, conn'.buffer = conn.buffer,
           conn'.calls = conn.calls, UNCHANGED <<source, pages, net>>
    PROVE  Inv'
<1>1. conn \in Connections /\ source \in [Rids -> Sources] /\ pages \in Seq(Rids) /\ net \in Seq(Words)
      /\ Sound(conn, source, pages, net)
  BY DEF Inv, Types
<1>2. (Busy(conn') <=> Busy(conn)) /\ Current(conn') = Current(conn)
      /\ \A op : Queued(conn', op) <=> Queued(conn, op)
  BY DEF SameTransfer, Busy, Current, Queued
<1>3. TransferOK(conn', source)
  <2>1. conn'.device = "closing" => conn'.toWrite
    BY <1>1 DEF Sound, TransferOK, HandlersOK, SameTransfer
  <2>2. conn'.parsed >= conn.parsed
    BY <1>1 DEF Connections
  <2>3. \A i \in DOMAIN conn'.calls : MayCall(conn, conn'.calls[i])
    BY DEF MayCall
  <2> QED
    BY <1>1, <2>1, <2>2, <2>3, TransferKeeps DEF Sound
<1>4. ProgressOK(conn', source)
  BY <1>1, <1>2, ProgressKeeps DEF Sound
<1>5. Noticed(conn', source) /\ Served(conn', source) /\ PagesOK(pages, conn'.wire, source)
      /\ WaitOK(conn', source, pages)
  BY <1>1, <1>2 DEF Sound, Noticed, Served, WaitOK, SameTransfer
<1> QED
  BY <1>1, <1>3, <1>4, <1>5, InvPrimed DEF Sound

LEMMA IgnoreRemainingContentIsSound == ASSUME Inv, IgnoreRemainingContent PROVE Inv'
<1> DEFINE dropped == conn.dropped \/ conn.needs = 1
           d == [conn EXCEPT !.needs = 0, !.dropped = dropped]
<1>1. conn \in Connections /\ net \in Seq(Words) /\ RequestsOK(conn, net) /\ conn' = d
      /\ UNCHANGED <<source, pages, net>>
  BY DEF Inv, Types, Sound, IgnoreRemainingContent
<1>2. dropped \in BOOLEAN /\ (conn.dropped \/ Expecting(conn) => dropped)
  BY <1>1 DEF Connections, Expecting
<1> HIDE DEF dropped
<1>3. /\ d \in Connections /\ d.content = conn.content /\ d.dropped = dropped /\ d.needs = 0
      /\ d.buffer = conn.buffer /\ d.parsed = conn.parsed /\ d.sent = conn.sent /\ d.final = conn.final
      /\ d.garbled = conn.garbled /\ d.device = conn.device /\ d.toWrite = conn.toWrite /\ d.calls = conn.calls
  BY <1>1, <1>2 DEF Connections
<1>4. SameTransfer(conn, d)
  BY <1>1 DEF SameTransfer, Connections
<1> HIDE DEF d
<1>5. GivesUp(conn, d)
  BY <1>2, <1>3 DEF GivesUp
<1>6. RequestsOK(d, net)
  BY <1>1, <1>3, <1>5, GivingUpKeepsRequests
<1> QED
  BY <1>1, <1>3, <1>4, <1>6, GivingUpIsSound

LEMMA DestroyServiceIsSound == ASSUME Inv, DestroyService PROVE Inv'
<1>1. conn \in Connections /\ net \in Seq(Words) /\ RequestsOK(conn, net) /\ conn' = DeleteContent(conn)
      /\ UNCHANGED <<source, pages, net>>
  BY DEF Inv, Types, Sound, DestroyService
<1> QED
  BY <1>1, DeleteContentKeepsRequests, GivingUpIsSound

\* A page begins: its header is the last thing on the wire.
\* d is c with the header of page r written.
MayBegin(c, d, src, r, n) ==
    /\ TransferOK(c, src) /\ RequestsOK(c, n)
    /\ c.device # "gone" /\ src[r] # NoSource /\ ~Begun(c.wire, r)
    /\ d.wire = Append(c.wire, Token("header", r))
    /\ d.sent = c.sent /\ d.parsed = c.parsed /\ d.pipelined = c.pipelined /\ d.aborted = c.aborted

HasBegun(c, d, src, r) ==
    /\ WireOK(d.wire, src) /\ d.wire # <<>> /\ Last(d.wire) = Token("header", r) /\ Current(d) = r
    /\ \A q : Begun(d.wire, q) <=> Begun(c.wire, q) \/ q = r
    /\ SourcesOK(d, src) /\ OrderOK(d)
    /\ src[r].ended => src[r].early
    /\ c.device = "closing" => c.pipelined

LEMMA PageBegins ==
    ASSUME NEW c \in Connections, NEW d \in Connections, NEW src \in [Rids -> Sources], NEW r \in Rids,
           NEW n \in Seq(Words), MayBegin(c, d, src, r, n)
    PROVE  HasBegun(c, d, src, r)
<1>0. /\ TransferOK(c, src) /\ RequestsOK(c, n) /\ c.device # "gone" /\ src[r] # NoSource /\ ~Begun(c.wire, r)
      /\ d.wire = Append(c.wire, Token("header", r)) /\ d.sent = c.sent /\ d.pipelined = c.pipelined
      /\ d.aborted = c.aborted /\ d.parsed = c.parsed
  BY DEF MayBegin
<1>1. c.wire \in Seq(Tokens) /\ d.parsed \in Nat /\ c.sent \in Nat /\ c.parsed \in Nat
  BY DEF Connections
<1>2. HandlersOK(c) /\ WireOK(c.wire, src) /\ OrderOK(c) /\ SourcesOK(c, src)
  BY <1>0 DEF TransferOK
<1>3. /\ WireOK(d.wire, src) /\ d.wire # <<>> /\ Last(d.wire) = Token("header", r)
      /\ \A q : Begun(d.wire, q) <=> Begun(c.wire, q) \/ q = r
  BY <1>0, <1>1, <1>2, WireGrows
<1>4. Current(d) = r
  BY <1>3 DEF Current, Token
<1>5. SourcesOK(d, src) /\ (src[r].ended => src[r].early)
  BY <1>0, <1>2, <1>3 DEF SourcesOK
<1>6. ~c.pipelined => r = c.sent
  <2> SUFFICES ASSUME ~c.pipelined PROVE r = c.sent
    OBVIOUS
  <2>1. r <= c.sent
    BY <1>0, <1>1, <1>2 DEF SourcesOK, RequestsOK, Rids
  <2>2. r \notin 1 .. c.sent - 1
    BY <1>0, <1>2 DEF OrderOK
  <2> QED
    BY <1>1, <2>1, <2>2 DEF Rids
<1>7. OrderOK(d)
  BY <1>0, <1>2, <1>3, <1>4, <1>6 DEF OrderOK
<1>8. c.device = "closing" => c.pipelined
  <2> SUFFICES ASSUME c.device = "closing", ~c.pipelined PROVE FALSE
    OBVIOUS
  <2>1. c.wire # <<>>
    BY <1>0, <1>2 DEF HandlersOK
  <2>2. Current(c) = c.sent
    BY <1>2, <2>1 DEF OrderOK
  <2>3. Begun(c.wire, c.sent)
    BY <1>2, <2>1, <2>2, CurrentHasSource
  <2> QED
    BY <1>0, <1>6, <2>3
<1> QED
  BY <1>3, <1>4, <1>5, <1>7, <1>8 DEF HasBegun

\* The ConnectionState of a page whose source is s, and the handlers of page r.
Prepared(a, s, old) ==
    [a EXCEPT !.finished = FALSE, !.sourceClosed = FALSE, !.chunked = s.chunked /\ ~old,
              !.readyRead = s.avail > 0, !.streaming = s.kind # "buffer"]

Bound(c, r) ==
    [ClearHandlers(c) EXCEPT !.keepAlive = @ /\ c.chunked, !.onBytesWritten = r, !.onSource = r]

LEMMA PreparedIs ==
    ASSUME NEW a \in Connections, NEW s \in Sources, NEW old
    PROVE  LET c == Prepared(a, s, old)
           IN  /\ c \in Connections /\ SameRequests(a, c) /\ ~c.finished /\ ~c.sourceClosed
               /\ c.streaming <=> s.kind # "buffer"
               /\ c.device = a.device /\ c.wire = a.wire /\ c.calls = a.calls /\ c.toWrite = a.toWrite
               /\ c.pipelined = a.pipelined /\ c.aborted = a.aborted /\ c.onSource = a.onSource
               /\ c.onBytesWritten = a.onBytesWritten
<1> DEFINE chunked == s.chunked /\ ~old
           readyRead == s.avail > 0
           streaming == s.kind # "buffer"
           e == [a EXCEPT !.finished = FALSE, !.sourceClosed = FALSE, !.streaming = streaming]
           c == Prepared(a, s, old)
<1>1. chunked \in BOOLEAN /\ readyRead \in BOOLEAN /\ streaming \in BOOLEAN
  BY DEF Sources
<1>2. c = [a EXCEPT !.finished = FALSE, !.sourceClosed = FALSE, !.chunked = chunked,
                    !.readyRead = readyRead, !.streaming = streaming]
  BY DEF Prepared
<1>3. streaming <=> s.kind # "buffer"
  OBVIOUS
<1> HIDE DEF chunked, readyRead, streaming
<1>4. e \in Connections
  BY <1>1 DEF Connections
<1>5. c = [e EXCEPT !.chunked = chunked, !.readyRead = readyRead]
  BY <1>2 DEF Connections
<1>6. /\ SameRequests(a, e) /\ ~e.finished /\ ~e.sourceClosed
      /\ e.streaming = streaming
      /\ e.device = a.device /\ e.wire = a.wire /\ e.calls = a.calls /\ e.toWrite = a.toWrite
      /\ e.pipelined = a.pipelined /\ e.aborted = a.aborted /\ e.onSource = a.onSource
      /\ e.onBytesWritten = a.onBytesWritten
  BY <1>1 DEF Connections, SameRequests
<1> HIDE DEF e, c
<1>7. c \in Connections
  BY <1>1, <1>4, <1>5, ZenonT(30) DEF Connections
<1>8. /\ SameRequests(e, c) /\ c.finished = e.finished /\ c.sourceClosed = e.sourceClosed
      /\ c.streaming = e.streaming
      /\ c.device = e.device /\ c.wire = e.wire /\ c.calls = e.calls /\ c.toWrite = e.toWrite
      /\ c.pipelined = e.pipelined /\ c.aborted = e.aborted /\ c.onSource = e.onSource
      /\ c.onBytesWritten = e.onBytesWritten
  BY <1>4, <1>5 DEF Connections, SameRequests
<1> QED
  BY <1>3, <1>6, <1>7, <1>8 DEF SameRequests, c

LEMMA BoundIs ==
    ASSUME NEW c \in Connections, NEW r \in Rids
    PROVE  LET d == Bound(c, r)
           IN  /\ d \in Connections /\ SameRequests(c, d)
               /\ d.onSource = r /\ d.onBytesWritten = r
               /\ \A i \in DOMAIN d.calls : d.calls[i].op = "incoming"
               /\ d.finished = c.finished /\ d.sourceClosed = c.sourceClosed /\ d.streaming = c.streaming
               /\ d.device = c.device /\ d.wire = c.wire /\ d.toWrite = c.toWrite
               /\ d.pipelined = c.pipelined /\ d.aborted = c.aborted
<1> DEFINE h == ClearHandlers(c)
           keepAlive == h.keepAlive /\ c.chunked
           d == Bound(c, r)
<1>1. /\ h \in Connections
      /\ h = [c EXCEPT !.calls = h.calls, !.onBytesWritten = 0, !.onSource = 0]
      /\ \A i \in DOMAIN h.calls : h.calls[i].op = "incoming"
  BY ClearHandlersIs
<1>2. d = [h EXCEPT !.keepAlive = keepAlive, !.onBytesWritten = r, !.onSource = r]
  BY DEF Bound
<1> HIDE DEF h, d
<1>3. /\ SameRequests(c, h) /\ h.finished = c.finished /\ h.sourceClosed = c.sourceClosed
      /\ h.streaming = c.streaming /\ h.device = c.device /\ h.wire = c.wire /\ h.toWrite = c.toWrite
      /\ h.pipelined = c.pipelined /\ h.aborted = c.aborted
  BY <1>1 DEF Connections, SameRequests
<1>4. keepAlive \in BOOLEAN /\ r \in 0 .. MaxRequests
  BY HttpTransferAssumption DEF Rids
<1> HIDE DEF keepAlive
<1>5. d \in Connections /\ d.calls = h.calls /\ d.onSource = r /\ d.onBytesWritten = r
  BY <1>1, <1>2, <1>4 DEF Connections
<1>6. /\ SameRequests(h, d) /\ d.finished = h.finished /\ d.sourceClosed = h.sourceClosed
      /\ d.streaming = h.streaming /\ d.device = h.device /\ d.wire = h.wire /\ d.toWrite = h.toWrite
      /\ d.pipelined = h.pipelined /\ d.aborted = h.aborted
  BY <1>1, <1>2, <1>4 DEF Connections, SameRequests
<1> QED
  BY <1>1, <1>3, <1>5, <1>6 DEF SameRequests, d

LEMMA ProcessPageIsSound == ASSUME Inv, ProcessPage PROVE Inv'
<1> DEFINE r == Head(pages)
           s == source[r]
           pgs == Tail(pages)
           a == Answering(conn, r)
           c == Prepared(a, s, conn.old)
           b == Bound(c, r)
           d == Write(b, "header", r)
           f == Write(c, "header", r)
<1>1. net \in Seq(Words) /\ conn \in Connections /\ source \in [Rids -> Sources] /\ pages \in Seq(Rids)
      /\ Sound(conn, source, pages, net)
  BY DEF Inv, Types
<1>2. pages # <<>> /\ net' = net /\ pages' = pgs
  BY DEF ProcessPage
<1>3. IF conn.device = "gone"
      THEN conn' = a /\ source' = source
      ELSE IF s.avail = 0 /\ ~c.streaming
      THEN conn' = CloseConnection(f) /\ source' = source
      ELSE IF s.avail = 0
      THEN conn' = d /\ source' = source
      ELSE conn' = SendNext(d, r, s) /\ source' = [source EXCEPT ![r] = SourceAfter(d, s)]
  BY Zenon DEF ProcessPage, Answering, Prepared, Bound
<1>4. /\ RequestsOK(conn, net) /\ TransferOK(conn, source) /\ ProgressOK(conn, source) /\ Noticed(conn, source)
      /\ Served(conn, source) /\ PagesOK(pages, conn.wire, source) /\ WaitOK(conn, source, pages)
  BY <1>1 DEF Sound
<1>5. /\ pgs \in Seq(Rids) /\ Len(pages) \in Nat \ {0} /\ DOMAIN pgs = 1 .. Len(pages) - 1
      /\ \A i \in 1 .. Len(pages) - 1 : pgs[i] = pages[i + 1] /\ i + 1 \in DOMAIN pages /\ i + 1 # 1
      /\ r = pages[1] /\ 1 \in DOMAIN pages /\ r \in Rids
  BY <1>1, <1>2, HeadTailProperties
<1> HIDE DEF r, pgs
<1>6. s \in Sources /\ s # NoSource /\ ~Begun(conn.wire, r) /\ s.avail \in Nat
  BY <1>1, <1>4, <1>5 DEF PagesOK, Sources
<1>7. \A i \in DOMAIN pgs : source[pgs[i]] # NoSource /\ ~Begun(conn.wire, pgs[i]) /\ pgs[i] # r /\ pgs[i] \in Rids
  BY <1>4, <1>5 DEF PagesOK
<1>8. \A i, j \in DOMAIN pgs : pgs[i] = pgs[j] => i = j
  <2> SUFFICES ASSUME NEW i \in DOMAIN pgs, NEW j \in DOMAIN pgs, pgs[i] = pgs[j] PROVE i = j
    OBVIOUS
  <2>1. i \in 1 .. Len(pages) - 1 /\ j \in 1 .. Len(pages) - 1
    BY <1>5
  <2>2. i + 1 \in DOMAIN pages /\ j + 1 \in DOMAIN pages /\ pages[i + 1] = pages[j + 1]
    BY <1>5, <2>1
  <2>3. i + 1 = j + 1
    BY <1>4, <2>2 DEF PagesOK
  <2> QED
    BY <2>1, <2>3
<1>9. /\ a \in Connections /\ RequestsOK(a, net) /\ SameTransfer(conn, a) /\ a.toWrite = conn.toWrite
      /\ a.parsed = conn.parsed /\ a.buffer = conn.buffer /\ a.calls = conn.calls
  BY <1>1, <1>4, <1>5, AnsweringKeepsRequests
<1> HIDE DEF a, s
<1>10. a.device = conn.device /\ a.wire = conn.wire /\ a.parsed \in Nat
  BY <1>9 DEF SameTransfer, Connections
<1>11. TransferOK(a, source)
  <2>1. a.device = "closing" => a.toWrite
    BY <1>4, <1>9, <1>10 DEF TransferOK, HandlersOK
  <2>2. \A i \in DOMAIN a.calls : MayCall(conn, a.calls[i])
    BY <1>9 DEF MayCall
  <2>3. a.parsed >= conn.parsed
    BY <1>9, <1>10
  <2> QED
    BY <1>1, <1>4, <1>9, <2>1, <2>2, <2>3, TransferKeeps
<1>12. CASE conn.device = "gone"
  <2>1. ~Busy(a) /\ a.device # "open"
    BY <1>10, <1>12 DEF Busy
  <2>2. ProgressOK(a, source) /\ Noticed(a, source) /\ Served(a, source) /\ WaitOK(a, source, pgs)
    BY <2>1 DEF ProgressOK, Noticed, Served, WaitOK
  <2>3. PagesOK(pgs, a.wire, source)
    BY <1>7, <1>8, <1>10 DEF PagesOK
  <2>4. conn' = a /\ source' = source
    BY <1>3, <1>12
  <2> QED
    BY <1>1, <1>2, <1>5, <1>9, <1>11, <2>2, <2>3, <2>4, InvPrimed DEF Sound
<1>13. CASE conn.device # "gone"
  <2>0. ~Begun(a.wire, r)
    BY <1>6, <1>10
  <2>1. /\ c \in Connections /\ SameRequests(a, c) /\ ~c.finished /\ ~c.sourceClosed
        /\ c.streaming <=> s.kind # "buffer"
        /\ c.device = a.device /\ c.wire = a.wire /\ c.calls = a.calls /\ c.toWrite = a.toWrite
        /\ c.pipelined = a.pipelined /\ c.aborted = a.aborted /\ c.onSource = a.onSource
        /\ c.onBytesWritten = a.onBytesWritten
    BY <1>6, <1>9, PreparedIs
  <2> HIDE DEF c
  <2>2. /\ b \in Connections /\ SameRequests(c, b)
        /\ b.onSource = r /\ b.onBytesWritten = r
        /\ \A i \in DOMAIN b.calls : b.calls[i].op = "incoming"
        /\ b.finished = c.finished /\ b.sourceClosed = c.sourceClosed /\ b.streaming = c.streaming
        /\ b.device = c.device /\ b.wire = c.wire /\ b.toWrite = c.toWrite
        /\ b.pipelined = c.pipelined /\ b.aborted = c.aborted
    BY <1>5, <2>1, BoundIs
  <2> HIDE DEF b
  <2>3. ~a.aborted /\ a.device \in {"open", "closing"}
    BY <1>9, <1>10, <1>11, <1>13 DEF TransferOK, HandlersOK, Connections
  <2>4. \A w : (\A q : Begun(w, q) <=> Begun(a.wire, q) \/ q = r) => PagesOK(pgs, w, source)
    BY <1>7, <1>8, <1>10 DEF PagesOK
  <2>5. CASE s.avail = 0 /\ ~c.streaming
    <3> DEFINE g == CloseConnection(f)
    <3>1. /\ f \in Connections /\ SameRequests(c, f)
          /\ f.wire = Append(c.wire, Token("header", r)) /\ f.toWrite
          /\ f.device = c.device
          /\ f.pipelined = c.pipelined /\ f.aborted = c.aborted
      <4>1. c \in Connections
        BY <2>1
      <4> QED
        BY <1>5, <4>1, WriteIs
    <3> HIDE DEF f
    <3>2. SameRequests(a, f)
      BY <2>1, <3>1 DEF SameRequests
    <3>3. RequestsOK(f, net) /\ f.device # "gone" /\ ~f.aborted
      BY <1>9, <1>10, <1>13, <2>1, <2>3, <3>1, <3>2, SameRequestsOK
    <3>4. /\ g \in Connections /\ RequestsOK(g, net) /\ g.device = "closing" /\ g.finished /\ g.toWrite
          /\ g.wire = f.wire /\ g.sent = f.sent /\ g.pipelined = f.pipelined /\ ~g.aborted
          /\ g.parsed = f.parsed
      BY <3>1, <3>3, CloseConnectionEnds
    <3>5. conn' = g /\ source' = source
      BY <1>3, <1>13, <2>5
    <3> HIDE DEF g
    <3>6. g.wire = Append(a.wire, Token("header", r)) /\ g.sent = a.sent /\ g.pipelined = a.pipelined /\ g.parsed = a.parsed
          /\ g.aborted = a.aborted
      <4>1. g.aborted \in BOOLEAN /\ a.aborted \in BOOLEAN
        BY <1>9, <3>4 DEF Connections
      <4> QED
        BY <2>1, <2>3, <3>1, <3>2, <3>4, <4>1 DEF SameRequests
    <3>7. /\ WireOK(g.wire, source) /\ g.wire # <<>> /\ Current(g) = r
          /\ \A q : Begun(g.wire, q) <=> Begun(a.wire, q) \/ q = r
          /\ SourcesOK(g, source) /\ OrderOK(g)
      <4>1. source[r] # NoSource /\ a.device # "gone"
        BY <1>6, <1>10, <1>13 DEF s
      <4> QED
        <5>1. MayBegin(a, g, source, r, net)
          BY <1>9, <1>11, <2>0, <3>6, <4>1 DEF MayBegin
        <5>2. HasBegun(a, g, source, r)
          BY <1>1, <1>5, <1>9, <3>4, <5>1, PageBegins
        <5> QED
          BY <5>2 DEF HasBegun
    <3>8. ~Busy(g)
      BY <3>4 DEF Busy
    <3>9. HandlersOK(g)
      BY <3>4, <3>7, <3>8 DEF HandlersOK
    <3>10. ClosedOK(g, source)
      <4>1. s.left = 0 /\ ~s.lost
        <5>1. s.kind = "buffer"
          BY <2>1, <2>5
        <5> QED
          BY <1>5, <1>11, <5>1 DEF TransferOK, SourcesOK, s
      <4> QED
        BY <2>5, <3>7, <4>1 DEF ClosedOK, Complete, s
    <3>11. ProgressOK(g, source) /\ Noticed(g, source) /\ Served(g, source) /\ WaitOK(g, source, pgs)
      BY <3>4, <3>8 DEF ProgressOK, Noticed, Served, WaitOK
    <3>12. PagesOK(pgs, g.wire, source)
      BY <2>4, <3>7
    <3> QED
      BY <1>1, <1>2, <1>5, <3>4, <3>5, <3>7, <3>9, <3>10, <3>11, <3>12, InvPrimed DEF Sound, TransferOK
  <2>6. CASE ~(s.avail = 0 /\ ~c.streaming)
    <3>1. /\ d \in Connections /\ SameRequests(b, d)
          /\ d.wire = Append(b.wire, Token("header", r)) /\ d.toWrite
          /\ d.device = b.device /\ d.calls = b.calls /\ d.onSource = b.onSource
          /\ d.onBytesWritten = b.onBytesWritten /\ d.finished = b.finished
          /\ d.streaming = b.streaming /\ d.sourceClosed = b.sourceClosed
          /\ d.pipelined = b.pipelined /\ d.aborted = b.aborted
      BY <1>5, <2>2, WriteIs, SMTT(30)
    <3> HIDE DEF d
    <3>2. SameRequests(a, d)
      BY <2>1, <2>2, <3>1 DEF SameRequests
    <3>3. d.device = a.device /\ d.device # "gone"
      BY <1>10, <1>13, <2>1, <2>2, <3>1
    <3>4. RequestsOK(d, net)
      BY <1>9, <3>2, <3>3, SameRequestsOK
    <3>5. d.wire = Append(a.wire, Token("header", r)) /\ d.sent = a.sent /\ d.pipelined = a.pipelined /\ d.parsed = a.parsed
          /\ d.aborted = a.aborted
      BY <2>1, <2>2, <3>1, <3>2 DEF SameRequests
    <3>6. source[r] # NoSource /\ a.device # "gone"
      BY <1>6, <1>10, <1>13 DEF s
    <3>7. /\ WireOK(d.wire, source) /\ d.wire # <<>> /\ Last(d.wire) = Token("header", r) /\ Current(d) = r
          /\ \A q : Begun(d.wire, q) <=> Begun(a.wire, q) \/ q = r
          /\ SourcesOK(d, source) /\ OrderOK(d)
          /\ source[r].ended => source[r].early
          /\ a.device = "closing" => a.pipelined
      <4>1. MayBegin(a, d, source, r, net)
        BY <1>9, <1>11, <2>0, <3>5, <3>6 DEF MayBegin
      <4>2. HasBegun(a, d, source, r)
        BY <1>1, <1>5, <1>9, <3>1, <4>1, PageBegins
      <4> QED
        BY <4>2 DEF HasBegun
    <3>8. \A op : Queued(d, op) => op = "incoming"
      BY <2>2, <3>1 DEF Queued
    <3>9. Busy(d) /\ ~d.finished /\ ~d.sourceClosed /\ (d.streaming <=> s.kind # "buffer") /\ ~d.aborted
      BY <2>1, <2>2, <2>3, <3>1, <3>3, <3>7 DEF Busy
    <3>10. HandlersOK(d)
      <4>1. Last(d.wire).tok # "last"
        BY <3>7 DEF Token
      <4>2. d.onSource = r /\ d.onBytesWritten = r /\ \A i \in DOMAIN d.calls : d.calls[i].op = "incoming"
        BY <2>2, <3>1
      <4> QED
        BY <3>1, <3>3, <3>7, <3>9, <4>1, <4>2 DEF HandlersOK
    <3>11. TransferOK(d, source)
      <4>1. ClosedOK(d, source)
        BY <2>3, <3>3, <3>5, <3>7 DEF ClosedOK
      <4> QED
        BY <3>7, <3>10, <4>1 DEF TransferOK
    <3>12. ProgressOK(d, source)
      <4>1. ~d.streaming => source[r].avail > 0
        BY <1>6, <2>1, <2>2, <2>6, <3>1 DEF s
      <4>2. (d.streaming <=> source[r].kind # "buffer") /\ ~Queued(d, "closed")
        BY <3>8, <3>9 DEF s
      <4> QED
        BY <3>7, <3>9, <4>1, <4>2 DEF ProgressOK
    <3>13. Noticed(d, source) /\ Served(d, source)
      BY <3>1, <3>7 DEF Noticed, Served
    <3>14. PagesOK(pgs, d.wire, source) /\ WaitOK(d, source, pgs)
      BY <2>4, <3>7, <3>9 DEF WaitOK
    <3>15. CASE s.avail = 0
      <4>1. conn' = d /\ source' = source
        BY <1>3, <1>13, <2>6, <3>15
      <4> QED
        BY <1>1, <1>2, <1>5, <3>1, <3>4, <3>11, <3>12, <3>13, <3>14, <4>1, InvPrimed DEF Sound
    <3>16. CASE s.avail # 0
      <4> DEFINE g == SendNext(d, r, source[r])
                 dst == [source EXCEPT ![r] = SourceAfter(d, source[r])]
      <4>1. conn' = g /\ source' = dst
        BY <1>3, <1>13, <2>6, <3>16 DEF s
      <4>2. MayRun(d, source, r, net)
        BY <3>3, <3>4, <3>7, <3>11, <3>12 DEF MayRun
      <4>3. HasRun(d, g, dst, net) /\ Served(g, dst) /\ (Noticed(d, source) => Noticed(g, dst))
        BY <1>1, <1>5, <3>1, <4>2, SendNextRuns
      <4>4. dst \in [Rids -> Sources] /\ \A q \in Rids : dst[q] = NoSource <=> source[q] = NoSource
        BY <1>1, <1>5, <3>7, SourceAfterIs
      <4> HIDE DEF g, dst
      <4>5. g \in Connections /\ Sound(g, dst, pgs, net)
        BY <1>1, <1>5, <3>1, <3>4, <3>11, <3>13, <3>14, <4>3, <4>4, RunIsSound
      <4> QED
        BY <1>1, <1>2, <1>5, <4>1, <4>4, <4>5, InvPrimed
    <3> QED
      BY <3>15, <3>16
  <2> QED
    BY <2>5, <2>6
<1> QED
  BY <1>12, <1>13

-----------------------------------------------------------------------------
(* The invariant holds.                                                    *)

LEMMA InvIsInductive == Inv /\ [Next]_vars => Inv'
<1> SUFFICES ASSUME Inv, [Next]_vars PROVE Inv'
  OBVIOUS
<1>1. CASE EventLoop
  BY <1>1, ReadyReadIsSound, BytesWrittenIsSound, RunCallIsSound, ProcessPageIsSound DEF EventLoop
<1>2. CASE Services
  <2>1. CASE IgnoreRemainingContent \/ DestroyService
    BY <2>1, IgnoreRemainingContentIsSound, DestroyServiceIsSound
  <2>2. SUFFICES ASSUME ~(IgnoreRemainingContent \/ DestroyService) PROVE Inv'
    BY <2>1
  <2>3. PICK r \in Rids :
          \/ \E kind \in SourceKinds, chunked \in BOOLEAN, avail, left \in 0 .. MaxUnits :
                avail + left <= MaxUnits /\ PostPage(r, kind, chunked, avail, left)
          \/ Produce(r)
          \/ EndSource(r)
    BY <1>2, <2>2 DEF Services
  <2>4. ASSUME NEW kind \in SourceKinds, NEW chunked \in BOOLEAN, NEW avail \in 0 .. MaxUnits,
               NEW left \in 0 .. MaxUnits, PostPage(r, kind, chunked, avail, left)
        PROVE  Inv'
    <3>1. avail \in Nat /\ left \in Nat
      BY HttpTransferAssumption
    <3> QED
      BY <2>4, <3>1, PostPageIsSound
  <2> QED
    BY <2>3, <2>4, ProduceIsSound, EndSourceIsSound
<1>3. CASE Browser
  BY <1>3, AbortIsSound, SendRequestIsSound DEF Browser
<1>4. CASE UNCHANGED vars
  <2>1. conn' = conn /\ source' = source /\ pages' = pages /\ net' = net
    BY <1>4 DEF vars
  <2> QED
    BY <2>1, InvPrimed DEF Inv, Types
<1> QED
  BY <1>1, <1>2, <1>3, <1>4 DEF Next

LEMMA InvHolds == Spec => []Inv
<1>1. Init => Inv
  BY InitIsSound
<1> QED
  BY <1>1, InvIsInductive, PTL DEF Spec

\* Whatever the browser and the services do, the responses do not mix on the wire,
\* a last chunk comes after all of the data, and without pipelining the server
\* closes the connection after a response and not in the middle of one.
THEOREM ResponsesStayApart == Spec => []WireIsWellFormed
<1>1. ASSUME Inv PROVE WireIsWellFormed
  <2>1. WireOK(conn.wire, source) /\ ClosedOK(conn, source)
    BY <1>1 DEF Inv, Sound, TransferOK
  <2>2. \A r : Complete(source, r) => SentInFull(r) \/ source[r].kind = "cgi"
    BY DEF Complete, SentInFull
  <2>3. \A i \in DOMAIN conn.wire :
          /\ conn.wire[i].tok = "header" <=> i = 1 \/ conn.wire[i].rid # conn.wire[i - 1].rid
          /\ conn.wire[i].tok = "header" => \A j \in 1 .. i - 1 : conn.wire[j].rid # conn.wire[i].rid
          /\ conn.wire[i].tok = "last" =>
                /\ SentInFull(conn.wire[i].rid) \/ source[conn.wire[i].rid].kind = "cgi"
                /\ i < Len(conn.wire) => conn.wire[i + 1].tok = "header"
    BY <2>1, <2>2 DEF WireOK
  <2>4. conn.device # "open" /\ ~conn.aborted /\ ~conn.pipelined /\ conn.wire # <<>> =>
          SentInFull(Last(conn.wire).rid) \/ source[Last(conn.wire).rid].kind = "cgi"
    BY <2>1, <2>2 DEF ClosedOK, Current
  <2> QED
    BY <2>3, <2>4 DEF WireIsWellFormed
<1> QED
  BY <1>1, InvHolds, PTL

\* A body is taken for a request only on a connection where a content was given up
\* before its body had come: its request was answered, its service was destroyed or
\* did not want the rest.
THEOREM BodiesAreNoRequests == Spec => []BodyIsNoRequest
<1>1. Inv => BodyIsNoRequest
  BY DEF Inv, Sound, RequestsOK, BodyIsNoRequest
<1> QED
  BY <1>1, InvHolds, PTL

\* Once nothing moves, no response is under way unless its source ended too early.
LEMMA NobodyIsBusy ==
    ASSUME Inv, Quiet, Busy(conn)
    PROVE  Current(conn) \in Rids /\ source[Current(conn)].early
<1> DEFINE r == Current(conn)
           s == source[r]
<1>1. conn \in Connections /\ source \in [Rids -> Sources] /\ TransferOK(conn, source)
      /\ ProgressOK(conn, source) /\ Noticed(conn, source) /\ Served(conn, source)
  BY DEF Inv, Types, Sound
<1>2. conn.calls = <<>> /\ ~conn.toWrite /\ \A q \in Rids : source[q].kind \in {"stream", "cgi"} => source[q].ended
  BY DEF Quiet
<1>3. \A op : ~Queued(conn, op)
  BY <1>2 DEF Queued
<1>4. r \in Rids /\ s # NoSource
  BY <1>1, CurrentHasSource DEF TransferOK, Busy
<1>5. s \in Sources /\ s.avail \in Nat /\ s.kind \in {"buffer", "stream", "cgi"}
  <2>1. s.kind # "none"
    BY <1>1, <1>4 DEF TransferOK, SourcesOK
  <2> QED
    BY <1>1, <1>4, <2>1 DEF Sources, SourceKinds
<1> HIDE DEF r
<1>6. ~(s.avail > 0)
  BY <1>1, <1>2, <1>3 DEF Served, r
<1>7. /\ conn.streaming <=> s.kind # "buffer"
      /\ ~conn.sourceClosed /\ conn.streaming
  BY <1>1, <1>6 DEF ProgressOK, r
<1>8. s.ended
  BY <1>2, <1>4, <1>5, <1>7
<1>9. s.early
  BY <1>1, <1>3, <1>7, <1>8 DEF Noticed, r
<1> QED
  BY <1>4, <1>9 DEF r

\* Each response that was begun ends, by its last chunk or with the connection, once
\* the network, the services and the event loop have done what they had to do.
THEOREM ResponsesDoNotHang == Spec => []NoResponseHangs
<1>1. ASSUME Inv PROVE NoResponseHangs
  <2> SUFFICES ASSUME Quiet, NEW r \in Rids, Started(r), conn.device # "gone", ~Overtaken(r), ~source[r].early
               PROVE  \E i \in DOMAIN conn.wire : conn.wire[i] = [tok |-> "last", rid |-> r]
    BY DEF NoResponseHangs, Over
  <2>1. conn \in Connections /\ HandlersOK(conn) /\ conn.wire \in Seq(Tokens)
    BY <1>1 DEF Inv, Types, Sound, TransferOK, Connections
  <2> DEFINE N == Len(conn.wire)
  <2>2. PICK i \in DOMAIN conn.wire : conn.wire[i] = [tok |-> "header", rid |-> r]
    BY DEF Started
  <2>3. N \in DOMAIN conn.wire /\ conn.wire # <<>> /\ i \in 1 .. N
    BY <2>1, <2>2
  <2>4. conn.wire[N].rid = r
    <3> SUFFICES ASSUME conn.wire[N].rid # r PROVE FALSE
      OBVIOUS
    <3>1. conn.wire[i].rid = r
      BY <2>2
    <3>2. i < N
      BY <2>3, <3>1
    <3> QED
      BY <2>3, <3>1, <3>2 DEF Overtaken
  <2>5. Current(conn) = r
    BY <2>4 DEF Current, Last
  <2>6. conn.finished /\ ~conn.toWrite
    BY <1>1, <2>3, <2>5, NobodyIsBusy DEF Busy, Quiet
  <2>7. conn.device = "open"
    BY <2>1, <2>6 DEF HandlersOK, Connections
  <2>8. Last(conn.wire).tok = "last"
    BY <2>1, <2>6, <2>7 DEF HandlersOK
  <2>9. conn.wire[N].tok = "last"
    BY <2>8 DEF Last
  <2>10. conn.wire[N] \in Tokens
    BY <2>1, <2>3
  <2>11. conn.wire[N] = [tok |-> "last", rid |-> r]
    BY <2>4, <2>9, <2>10 DEF Tokens
  <2> QED
    BY <2>3, <2>11
<1> QED
  BY <1>1, InvHolds, PTL

\* A request that came with an earlier one, and waits in the buffer, is parsed when that
\* one is answered: once nothing moves, every request that was sent has been parsed.
THEOREM RequestsAreRemembered == Spec => []NoRequestIsForgotten
<1>1. ASSUME Inv PROVE NoRequestIsForgotten
  <2> SUFFICES ASSUME Quiet, conn.device # "gone", conn.parsed # conn.sent
               PROVE  \E r \in Rids : source[r].early
    BY DEF NoRequestIsForgotten
  <2>1. /\ conn \in Connections /\ conn.parsed \in Nat /\ conn.sent \in Nat /\ conn.buffer \in Seq(Words)
        /\ HandlersOK(conn) /\ RequestsOK(conn, net) /\ WaitOK(conn, source, pages)
    BY <1>1 DEF Inv, Types, Sound, TransferOK, Connections
  <2>2. net = <<>> /\ pages = <<>> /\ conn.calls = <<>> /\ ~conn.toWrite
        /\ \A r \in Rids : r <= conn.parsed => source[r] # NoSource
    BY DEF Quiet
  <2>3. conn.parsed < conn.sent /\ conn.sent <= MaxRequests
    BY <2>1 DEF RequestsOK
  <2>4. Remaining(conn, net) = conn.buffer
    <3>1. ~Expecting(conn)
      BY <2>1, <2>2 DEF RequestsOK
    <3>2. conn.buffer \o <<>> = conn.buffer
      BY <2>1, ConcatEmptySeq
    <3> QED
      BY <2>2, <3>1, <3>2 DEF Remaining
  <2>5. HasHead(conn.buffer)
    <3>1. Numbered(conn.buffer, conn.parsed, conn.sent)
      BY <2>1, <2>4 DEF RequestsOK, StreamOK
    <3>2. PICK p \in [conn.parsed + 1 .. conn.sent -> DOMAIN conn.buffer] :
              \A r \in conn.parsed + 1 .. conn.sent : IsHead(conn.buffer[p[r]])
      BY <3>1 DEF Numbered
    <3>3. conn.sent \in conn.parsed + 1 .. conn.sent
      BY <2>1, <2>3
    <3>4. p[conn.sent] \in DOMAIN conn.buffer /\ IsHead(conn.buffer[p[conn.sent]])
      BY <3>2, <3>3
    <3> QED
      BY <3>4 DEF HasHead
  <2>6. conn.device = "open"
    BY <2>1, <2>2 DEF HandlersOK, Connections
  <2>7. Busy(conn)
    <3>1. ~Queued(conn, "incoming")
      BY <2>2 DEF Queued
    <3>2. \A r \in 1 .. conn.parsed : r \in Rids
      BY <2>1, <2>3, HttpTransferAssumption DEF Rids
    <3>3. ~ \E r \in 1 .. conn.parsed : source[r] = NoSource \/ \E i \in DOMAIN pages : pages[i] = r
      <4> SUFFICES ASSUME NEW r \in 1 .. conn.parsed
                   PROVE  source[r] # NoSource /\ ~ \E i \in DOMAIN pages : pages[i] = r
        OBVIOUS
      <4>1. r \in Rids /\ r <= conn.parsed
        BY <2>1, <3>2
      <4> QED
        BY <2>2, <4>1
    <3> QED
      BY <2>1, <2>5, <2>6, <3>1, <3>3 DEF WaitOK
  <2> QED
    BY <1>1, <2>7, NobodyIsBusy
<1> QED
  BY <1>1, InvHolds, PTL

-----------------------------------------------------------------------------
(* Type correctness: the handlers are those of pages whose requests were    *)
(* parsed, and the data of a page stays within its bound.                  *)

Bounded(c) == c.onSource <= c.parsed /\ c.onBytesWritten <= c.parsed

SameBinding(c, d) == d.onSource = c.onSource /\ d.onBytesWritten = c.onBytesWritten /\ d.parsed = c.parsed

LEMMA BoundedIsKept == ASSUME NEW c, NEW d, Bounded(c), SameBinding(c, d) PROVE Bounded(d)
BY DEF Bounded, SameBinding

LEMMA NewRequestIsBounded ==
    ASSUME NEW c \in Connections, Bounded(c), \E i \in DOMAIN c.buffer : IsHead(c.buffer[i])
    PROVE  Bounded(NewRequest(c))
<1> DEFINE d == NewRequest(c)
<1>1. d.onSource = c.onSource /\ d.onBytesWritten = c.onBytesWritten /\ d.parsed = c.parsed + 1
  BY NewRequestIs DEF SameResponse
<1>2. c.onSource \in Nat /\ c.onBytesWritten \in Nat /\ c.parsed \in Nat
  BY HttpTransferAssumption DEF Connections
<1> HIDE DEF d
<1>3. Bounded(d)
  BY <1>1, <1>2 DEF Bounded
<1> QED
  BY <1>3 DEF d

LEMMA IncomingDataIsBounded ==
    ASSUME NEW c \in Connections, NEW block \in Seq(Words), Bounded(c)
    PROVE  Bounded(IncomingData(c, block))
<1> DEFINE d == Received(c, block)
           needs == IF c.needs = All THEN All ELSE IF block = <<>> THEN 1 ELSE 0
           w == [c EXCEPT !.needs = needs]
           g == IncomingData(c, block)
<1>1. g = w \/ g = IF \E i \in DOMAIN d.buffer : IsHead(d.buffer[i]) THEN NewRequest(d) ELSE d
  BY IncomingDataCases
<1>2. d \in Connections /\ SameBinding(c, d)
  <2> DEFINE k == IF Expecting(c) THEN 1 ELSE 0
             buffer == c.buffer \o Rest(block, k)
  <2>1. Rest(block, k) \in Seq(Words)
    <3>1. k \in {0, 1}
      OBVIOUS
    <3> HIDE DEF k
    <3>2. \A i \in k + 1 .. Len(block) : block[i] \in Words
      BY <3>1
    <3> QED
      BY <3>1, <3>2, SubSeqProperties DEF Rest
  <2>2. buffer \in Seq(Words)
    <3>1. c.buffer \in Seq(Words)
      BY DEF Connections
    <3> QED
      BY <2>1, <3>1, ConcatProperties
  <2>3. d = [c EXCEPT !.content = 0, !.needs = 0, !.buffer = buffer]
    BY DEF Received
  <2> HIDE DEF k, buffer, d
  <2> QED
    BY <2>2, <2>3 DEF Connections, SameBinding
<1>3. SameBinding(c, w)
  BY DEF Connections, SameBinding
<1> HIDE DEF d, w, g
<1>4. Bounded(d) /\ Bounded(w)
  BY <1>2, <1>3, BoundedIsKept
<1>5. Bounded(g)
  BY <1>1, <1>2, <1>4, NewRequestIsBounded
<1> QED
  BY <1>5 DEF g

LEMMA UnboundIsBounded ==
    ASSUME NEW c \in Connections
    PROVE  Bounded(ClearHandlers(c)) /\ Bounded(Disconnected(c))
<1>1. c.parsed \in Nat
  BY DEF Connections
<1>2. ClearHandlers(c) = [c EXCEPT !.calls = ClearHandlers(c).calls, !.onBytesWritten = 0, !.onSource = 0]
  BY ClearHandlersIs
<1>3. ClearHandlers(c).parsed = c.parsed /\ ClearHandlers(c).onSource = 0 /\ ClearHandlers(c).onBytesWritten = 0
  BY <1>2 DEF Connections
<1>4. Disconnected(c).parsed = c.parsed /\ Disconnected(c).onSource = 0 /\ Disconnected(c).onBytesWritten = 0
  BY DisconnectedIs
<1> QED
  BY <1>1, <1>3, <1>4 DEF Bounded

LEMMA CloseConnectionIsBounded ==
    ASSUME NEW c \in Connections, Bounded(c)
    PROVE  Bounded(CloseConnection(c))
<1> DEFINE d == [c EXCEPT !.finished = TRUE, !.device = "closing"]
<1>1. d \in Connections /\ SameBinding(c, d)
  BY DEF Connections, SameBinding
<1>2. CloseConnection(c) = IF d.toWrite THEN d ELSE Disconnected(d)
  BY DEF CloseConnection
<1> HIDE DEF d
<1> QED
  BY <1>1, <1>2, BoundedIsKept, UnboundIsBounded

LEMMA WriteIsBounded ==
    ASSUME NEW c \in Connections, Bounded(c), NEW tok \in {"header", "data", "last"}, NEW r \in Rids
    PROVE  Write(c, tok, r) \in Connections /\ Bounded(Write(c, tok, r))
<1> DEFINE d == Write(c, tok, r)
<1>1. d \in Connections
  BY WriteType
<1>2. SameBinding(c, d)
  BY DEF Write, Connections, SameBinding
<1> QED
  BY <1>1, <1>2, BoundedIsKept

LEMMA SendEmptyChunkIsBounded ==
    ASSUME NEW c \in Connections, Bounded(c), NEW r \in Rids
    PROVE  Bounded(SendEmptyChunk(c, r))
<1> DEFINE f == [c EXCEPT !.finished = TRUE]
           d == Write(f, "last", r)
           e == DropCalls(d, {"written"})
           u == [e EXCEPT !.onBytesWritten = 0]
<1>1. f \in Connections /\ SameBinding(c, f)
  BY DEF Connections, SameBinding
<1>2. SendEmptyChunk(c, r) = IF c.finished THEN c ELSE IF d.keepAlive THEN IncomingData(u, <<>>)
                             ELSE CloseConnection(d)
  BY Zenon DEF SendEmptyChunk
<1> HIDE DEF f
<1>3. d \in Connections /\ Bounded(d)
  BY <1>1, BoundedIsKept, WriteIsBounded
<1> HIDE DEF d
<1>4. e \in Connections /\ e = [d EXCEPT !.calls = e.calls]
  BY <1>3, DropCallsIs
<1>5. u \in Connections
  BY <1>4, UnboundType
<1>6. Bounded(u)
  <2>1. e.onSource = d.onSource /\ e.parsed = d.parsed /\ d.parsed \in Nat
    BY <1>3, <1>4 DEF Connections
  <2> HIDE DEF e
  <2>2. u.onSource = e.onSource /\ u.parsed = e.parsed /\ u.onBytesWritten = 0
    BY <1>4 DEF Connections
  <2> QED
    BY <1>3, <2>1, <2>2 DEF Bounded
<1>7. <<>> \in Seq(Words)
  OBVIOUS
<1> HIDE DEF u
<1> QED
  BY <1>2, <1>3, <1>5, <1>6, <1>7, IncomingDataIsBounded, CloseConnectionIsBounded

LEMMA SendNextIsBounded ==
    ASSUME NEW c \in Connections, Bounded(c), NEW r \in Rids, NEW s \in Sources
    PROVE  Bounded(SendNext(c, r, s))
<1> DEFINE d == WithData(c, r)
           e == [c EXCEPT !.readyRead = FALSE]
<1>1. SendNext(c, r, s) =
         IF c.finished THEN c
         ELSE IF s.avail = 0 THEN e
         ELSE IF ~Exhausted(c, ReadFrom(s)) THEN d
              ELSE IF c.chunked THEN SendEmptyChunk(d, r)
              ELSE ClearHandlers(CloseConnection(d))
  BY DEF SendNext, WithData
<1>2. SameBinding(c, e)
  BY DEF Connections, SameBinding
<1>3. d \in Connections /\ Bounded(d)
  <2> DEFINE w == Write(c, "data", r)
  <2>1. w \in Connections /\ Bounded(w)
    BY WriteIsBounded
  <2>2. d = [w EXCEPT !.readyRead = FALSE]
    BY DEF WithData
  <2> HIDE DEF w
  <2>3. d \in Connections /\ SameBinding(w, d)
    BY <2>1, <2>2 DEF Connections, SameBinding
  <2> QED
    BY <2>1, <2>3, BoundedIsKept
<1> HIDE DEF d, e
<1>4. Bounded(e) /\ Bounded(SendEmptyChunk(d, r)) /\ Bounded(ClearHandlers(CloseConnection(d)))
  <2>1. CloseConnection(d) \in Connections
    BY <1>3, CloseConnectionType
  <2> QED
    BY <1>2, <1>3, <2>1, BoundedIsKept, SendEmptyChunkIsBounded, UnboundIsBounded
<1> QED
  BY <1>1, <1>3, <1>4

LEMMA SourceClosedIsBounded ==
    ASSUME NEW c \in Connections, Bounded(c), NEW r \in Rids, NEW s \in Sources
    PROVE  Bounded(SourceClosed(c, r, s))
<1> DEFINE d == [c EXCEPT !.sourceClosed = TRUE]
<1>1. d \in Connections /\ SameBinding(c, d)
  BY DEF Connections, SameBinding
<1>2. SourceClosed(c, r, s) = IF c.finished THEN c ELSE IF s.avail > 0 THEN d
                              ELSE IF c.chunked THEN SendEmptyChunk(d, r) ELSE CloseConnection(d)
  BY DEF SourceClosed
<1> HIDE DEF d
<1> QED
  BY <1>1, <1>2, BoundedIsKept, SendEmptyChunkIsBounded, CloseConnectionIsBounded


UnitsOK(src) == \A r \in Rids : src[r].avail + src[r].left <= MaxUnits

LEMMA UnitsAreKept ==
    ASSUME NEW src \in [Rids -> Sources], UnitsOK(src), NEW r \in Rids, NEW s, s.avail + s.left <= MaxUnits
    PROVE  UnitsOK([src EXCEPT ![r] = s])
BY DEF UnitsOK

LEMMA ReadingKeepsUnits ==
    ASSUME NEW c, NEW src \in [Rids -> Sources], UnitsOK(src), NEW r \in Rids
    PROVE  UnitsOK([src EXCEPT ![r] = SourceAfter(c, src[r])])
<1> DEFINE s == SourceAfter(c, src[r])
<1>1. src[r] \in Sources /\ src[r].avail \in Nat /\ src[r].left \in Nat /\ src[r].avail + src[r].left <= MaxUnits
  BY DEF UnitsOK, Sources
<1>2. s = src[r] \/ (s.avail = src[r].avail - 1 /\ s.left = src[r].left /\ src[r].avail # 0)
  BY <1>1 DEF SourceAfter, ReadFrom, Sources
<1> HIDE DEF s
<1>3. s.avail + s.left <= MaxUnits
  BY <1>1, <1>2, HttpTransferAssumption
<1> QED
  BY <1>3, UnitsAreKept DEF s

Bounds == Bounded(conn) /\ UnitsOK(source)

LEMMA BoundsPrimed == ASSUME Bounded(conn'), UnitsOK(source') PROVE Bounds'
BY DEF Bounds

LEMMA InitIsBounded == Init => Bounds
<1> SUFFICES ASSUME Init PROVE Bounds
  OBVIOUS
<1>1. Bounded(conn)
  BY DEF Init, NewConnection, Bounded
<1>2. UnitsOK(source)
  BY HttpTransferAssumption DEF Init, NoSource, UnitsOK
<1> QED
  BY <1>1, <1>2 DEF Bounds

LEMMA RunCallIsBounded == ASSUME Inv, Bounds, RunCall PROVE Bounds'
<1> DEFINE call == Head(conn.calls)
           c == Taken(conn)
           r == call.rid
           e == [c EXCEPT !.readyRead = TRUE]
<1>1. conn \in Connections /\ source \in [Rids -> Sources] /\ Bounded(conn) /\ UnitsOK(source)
  BY DEF Inv, Types, Bounds
<1>2. conn.calls # <<>>
  BY DEF RunCall
<1>3. /\ call.op = "incoming" => conn' = IncomingData(c, <<>>) /\ source' = source
      /\ call.op = "written" => /\ conn' = SendNext(c, r, source[r])
                                /\ source' = [source EXCEPT ![r] = SourceAfter(c, source[r])]
      /\ call.op = "ready" =>
            IF SendsAtOnce(c, source[r])
            THEN /\ conn' = SendNext(e, r, source[r])
                 /\ source' = [source EXCEPT ![r] = SourceAfter(c, source[r])]
            ELSE conn' = c /\ source' = source
      /\ call.op = "closed" => conn' = SourceClosed(c, r, source[r]) /\ source' = source
  BY DEF RunCall, Taken
<1>4. c \in Connections /\ call \in Calls
  BY <1>1, <1>2, TakenIs
<1>5. SameBinding(conn, c)
  BY <1>1 DEF Taken, SameBinding, Connections
<1>6. call.op \in {"written", "ready", "closed", "incoming"} /\ (call.op # "incoming" => r \in Rids)
  BY <1>4, CallTypes
<1> HIDE DEF c, call
<1>7. Bounded(c)
  BY <1>1, <1>5, BoundedIsKept
<1>8. e \in Connections /\ SameBinding(c, e)
  BY <1>4 DEF Connections, SameBinding
<1> HIDE DEF e
<1>9. Bounded(e)
  BY <1>7, <1>8, BoundedIsKept
<1>10. CASE call.op = "incoming"
  <2>1. <<>> \in Seq(Words)
    OBVIOUS
  <2>2. Bounded(IncomingData(c, <<>>))
    BY <1>4, <1>7, <2>1, IncomingDataIsBounded
  <2> QED
    BY <1>1, <1>3, <1>10, <2>2, BoundsPrimed
<1>11. CASE call.op # "incoming"
  <2>1. r \in Rids /\ source[r] \in Sources
    BY <1>1, <1>6, <1>11
  <2>2. /\ Bounded(SendNext(c, r, source[r])) /\ Bounded(SendNext(e, r, source[r]))
        /\ Bounded(SourceClosed(c, r, source[r]))
    BY <1>4, <1>7, <1>8, <1>9, <2>1, SendNextIsBounded, SourceClosedIsBounded
  <2>3. UnitsOK([source EXCEPT ![r] = SourceAfter(c, source[r])])
    BY <1>1, <2>1, ReadingKeepsUnits
  <2>4. Bounded(conn') /\ UnitsOK(source')
    BY <1>1, <1>3, <1>6, <1>7, <1>11, <2>2, <2>3
  <2> QED
    BY <2>4, BoundsPrimed
<1> QED
  BY <1>10, <1>11

LEMMA ProcessPageIsBounded == ASSUME Inv, Bounds, ProcessPage PROVE Bounds'
<1> DEFINE r == Head(pages)
           s == source[r]
           a == Answering(conn, r)
           c == Prepared(a, s, conn.old)
           b == Bound(c, r)
           d == Write(b, "header", r)
           f == Write(c, "header", r)
<1>1. conn \in Connections /\ source \in [Rids -> Sources] /\ Bounded(conn) /\ UnitsOK(source)
      /\ pages \in Seq(Rids) /\ pages # <<>> /\ net \in Seq(Words)
      /\ RequestsOK(conn, net) /\ PagesOK(pages, conn.wire, source) /\ TransferOK(conn, source)
  BY DEF Inv, Types, Bounds, Sound, ProcessPage
<1>2. IF conn.device = "gone"
      THEN conn' = a /\ source' = source
      ELSE IF s.avail = 0 /\ ~c.streaming
      THEN conn' = CloseConnection(f) /\ source' = source
      ELSE IF s.avail = 0
      THEN conn' = d /\ source' = source
      ELSE conn' = SendNext(d, r, s) /\ source' = [source EXCEPT ![r] = SourceAfter(d, s)]
  BY Zenon DEF ProcessPage, Answering, Prepared, Bound
<1>3. r \in Rids /\ source[r] # NoSource
  <2>1. 1 \in DOMAIN pages /\ r = pages[1] /\ pages[1] \in Rids
    BY <1>1, HeadTailProperties
  <2> QED
    BY <1>1, <2>1 DEF PagesOK
<1> HIDE DEF r
<1>4. r <= conn.parsed
  <2>1. ~(r > conn.parsed)
    BY <1>1, <1>3 DEF TransferOK, SourcesOK
  <2> QED
    BY <1>1, <1>3, <2>1 DEF Rids, Connections
<1>5. a \in Connections /\ SameBinding(conn, a)
  <2>1. a \in Connections /\ a.parsed = conn.parsed
    BY <1>1, <1>3, AnsweringKeepsRequests
  <2>2. a.onSource = conn.onSource /\ a.onBytesWritten = conn.onBytesWritten
    BY <1>1 DEF Answering, DeleteContent, Connections
  <2> QED
    BY <2>1, <2>2 DEF SameBinding
<1>6. s \in Sources
  BY <1>1, <1>3
<1> HIDE DEF a, s
<1>7. c \in Connections /\ c.parsed = a.parsed /\ c.onSource = a.onSource /\ c.onBytesWritten = a.onBytesWritten
  BY <1>5, <1>6, PreparedIs DEF SameRequests
<1> HIDE DEF c
<1>8. Bounded(a) /\ Bounded(c)
  BY <1>1, <1>5, <1>7, BoundedIsKept DEF SameBinding
<1>9. b \in Connections /\ b.parsed = c.parsed /\ b.onSource = r /\ b.onBytesWritten = r
  BY <1>3, <1>7, BoundIs DEF SameRequests
<1> HIDE DEF b
<1>10. Bounded(b)
  BY <1>4, <1>5, <1>7, <1>9 DEF SameBinding, Bounded
<1>11. d \in Connections /\ Bounded(d) /\ f \in Connections /\ Bounded(f)
  BY <1>3, <1>7, <1>8, <1>9, <1>10, WriteIsBounded
<1> HIDE DEF d, f
<1>12. Bounded(CloseConnection(f)) /\ Bounded(SendNext(d, r, s))
  BY <1>3, <1>6, <1>11, CloseConnectionIsBounded, SendNextIsBounded
<1>13. UnitsOK([source EXCEPT ![r] = SourceAfter(d, s)])
  BY <1>1, <1>3, ReadingKeepsUnits DEF s
<1>14. Bounded(conn') /\ UnitsOK(source')
  BY <1>1, <1>2, <1>8, <1>11, <1>12, <1>13
<1> QED
  BY <1>14, BoundsPrimed

LEMMA ServicesAreBounded == ASSUME Inv, Bounds, Services PROVE Bounds'
<1>1. conn \in Connections /\ source \in [Rids -> Sources] /\ Bounded(conn) /\ UnitsOK(source)
  BY DEF Inv, Types, Bounds
<1>2. ASSUME NEW r, NEW ops PROVE Bounded(Emitted(conn, r, ops))
  <2>1. SameBinding(conn, Emitted(conn, r, ops))
    BY <1>1 DEF Emitted, Connections, SameBinding
  <2> QED
    BY <1>1, <2>1, BoundedIsKept
<1>3. CASE IgnoreRemainingContent \/ DestroyService
  <2>1. SameBinding(conn, conn') /\ source' = source
    BY <1>1, <1>3 DEF IgnoreRemainingContent, DestroyService, DeleteContent, Connections, SameBinding
  <2> QED
    BY <1>1, <2>1, BoundedIsKept, BoundsPrimed
<1>4. SUFFICES ASSUME ~(IgnoreRemainingContent \/ DestroyService) PROVE Bounds'
  BY <1>3
<1>5. PICK r \in Rids :
        \/ \E kind \in SourceKinds, chunked \in BOOLEAN, avail, left \in 0 .. MaxUnits :
              avail + left <= MaxUnits /\ PostPage(r, kind, chunked, avail, left)
        \/ Produce(r)
        \/ EndSource(r)
  BY <1>4 DEF Services
<1>6. source[r] \in Sources /\ source[r].avail \in Nat /\ source[r].left \in Nat
      /\ source[r].avail + source[r].left <= MaxUnits
  BY <1>1 DEF UnitsOK, Sources
<1>7. ASSUME NEW kind \in SourceKinds, NEW chunked \in BOOLEAN, NEW avail \in 0 .. MaxUnits,
             NEW left \in 0 .. MaxUnits, avail + left <= MaxUnits, PostPage(r, kind, chunked, avail, left)
      PROVE  Bounds'
  <2> DEFINE s == [kind |-> kind, chunked |-> chunked, avail |-> avail, left |-> left, ended |-> FALSE,
                   early |-> FALSE, lost |-> FALSE]
  <2>1. conn' = conn /\ source' = [source EXCEPT ![r] = s]
    BY <1>7 DEF PostPage
  <2>2. s.avail + s.left <= MaxUnits
    BY <1>7
  <2> HIDE DEF s
  <2>3. UnitsOK([source EXCEPT ![r] = s])
    BY <1>1, <2>2, UnitsAreKept
  <2> QED
    BY <1>1, <2>1, <2>3, BoundsPrimed
<1>8. CASE Produce(r)
  <2> DEFINE s == [source[r] EXCEPT !.left = @ - 1, !.avail = @ + 1]
  <2>1. conn' = Emitted(conn, r, <<"ready">>) /\ source' = [source EXCEPT ![r] = s]
    BY <1>1, <1>8 DEF Produce, Emit, Emitted
  <2>2. s.avail = source[r].avail + 1 /\ s.left = source[r].left - 1
    BY <1>6 DEF Sources
  <2> HIDE DEF s
  <2>3. s.avail + s.left <= MaxUnits
    BY <1>6, <2>2, HttpTransferAssumption
  <2>4. UnitsOK([source EXCEPT ![r] = s])
    BY <1>1, <2>3, UnitsAreKept
  <2> QED
    BY <1>2, <2>1, <2>4, BoundsPrimed
<1>9. CASE EndSource(r)
  <2> DEFINE t == source[r]
             early == ~Started(r)
             lost == t.kind = "cgi" /\ t.avail > 0
             avail == IF t.kind = "cgi" THEN 0 ELSE t.avail
             s == [t EXCEPT !.ended = TRUE, !.early = early, !.lost = lost, !.avail = avail]
  <2>1. source' = [source EXCEPT ![r] = s]
    BY <1>1, <1>9 DEF EndSource
  <2>2. conn' = Emitted(conn, r, IF t.kind = "cgi" THEN <<"closed", "closed">> ELSE <<"closed">>)
    BY <1>9 DEF EndSource, Emit, Emitted
  <2>3. s.left = t.left /\ s.avail = avail
    BY <1>6 DEF Sources
  <2> HIDE DEF s
  <2>4. s.avail + s.left <= MaxUnits
    BY <1>6, <2>3, HttpTransferAssumption
  <2>5. UnitsOK([source EXCEPT ![r] = s])
    BY <1>1, <2>4, UnitsAreKept
  <2> QED
    BY <1>2, <2>1, <2>2, <2>5, BoundsPrimed
<1> QED
  BY <1>5, <1>7, <1>8, <1>9

LEMMA BoundsAreInductive == Inv /\ Bounds /\ [Next]_vars => Bounds'
<1> SUFFICES ASSUME Inv, Bounds, [Next]_vars PROVE Bounds'
  OBVIOUS
<1>1. conn \in Connections /\ source \in [Rids -> Sources] /\ Bounded(conn) /\ UnitsOK(source) /\ net \in Seq(Words)
  BY DEF Inv, Types, Bounds
<1>2. ASSUME NEW k \in 1 .. Len(net), ReadyRead(k) PROVE Bounds'
  <2>1. SubSeq(net, 1, k) \in Seq(Words)
    BY <1>1, SubSeqProperties
  <2>2. Bounded(IncomingData(conn, SubSeq(net, 1, k)))
    BY <1>1, <2>1, IncomingDataIsBounded
  <2>3. conn' = IncomingData(conn, SubSeq(net, 1, k)) /\ source' = source
    BY <1>2 DEF ReadyRead
  <2> QED
    BY <1>1, <2>2, <2>3, BoundsPrimed
<1>3. CASE BytesWritten
  <2> DEFINE d == [conn EXCEPT !.toWrite = FALSE,
                               !.calls = IF conn.onBytesWritten = 0 THEN @
                                         ELSE Append(@, [op |-> "written", rid |-> conn.onBytesWritten])]
  <2>1. source' = source /\ conn' = IF conn.device = "closing" THEN Disconnected(conn) ELSE d
    BY <1>3 DEF BytesWritten
  <2>2. SameBinding(conn, d)
    BY <1>1 DEF Connections, SameBinding
  <2> HIDE DEF d
  <2>3. Bounded(conn')
    BY <1>1, <2>1, <2>2, BoundedIsKept, UnboundIsBounded
  <2> QED
    BY <1>1, <2>1, <2>3, BoundsPrimed
<1>4. CASE EventLoop
  BY <1>2, <1>3, <1>4, RunCallIsBounded, ProcessPageIsBounded DEF EventLoop
<1>5. ASSUME NEW head \in Heads, SendRequest(head) PROVE Bounds'
  <2>1. SameBinding(conn, conn') /\ source' = source
    BY <1>1, <1>5 DEF SendRequest, Connections, SameBinding
  <2> QED
    BY <1>1, <2>1, BoundedIsKept, BoundsPrimed
<1>6. CASE Abort
  <2>1. conn'.onSource = 0 /\ conn'.onBytesWritten = 0 /\ conn'.parsed = 0 /\ source' = [q \in Rids |-> NoSource]
    BY <1>6 DEF Abort, NewConnection
  <2>2. Bounded(conn')
    BY <2>1 DEF Bounded
  <2>3. UnitsOK(source')
    BY <2>1, HttpTransferAssumption DEF UnitsOK, NoSource
  <2> QED
    BY <2>2, <2>3, BoundsPrimed
<1>7. CASE UNCHANGED vars
  BY <1>1, <1>7, BoundsPrimed DEF vars
<1> QED
  BY <1>4, <1>5, <1>6, <1>7, ServicesAreBounded DEF Next, Browser

\* The connection, its handlers and its sources keep their types; the handlers
\* belong to requests that were parsed.
THEOREM TransferTypesAreKept == Spec => []TypeOK
<1>1. Init => Inv /\ Bounds
  BY InitIsSound, InitIsBounded
<1>2. Inv /\ Bounds /\ [Next]_vars => Inv' /\ Bounds'
  BY InvIsInductive, BoundsAreInductive
<1>3. ASSUME Inv, Bounds PROVE TypeOK
  <2>1. conn \in Connections /\ source \in [Rids -> Sources] /\ RequestsOK(conn, net) /\ Bounded(conn) /\ UnitsOK(source)
    BY <1>3 DEF Inv, Types, Bounds, Sound
  <2>2. /\ conn.device \in {"open", "closing", "gone"} /\ conn.buffer \in Seq(Heads \cup {"body"})
        /\ conn.needs \in {0, 1, All} /\ conn.calls \in Seq(Calls) /\ conn.wire \in Seq(Tokens)
        /\ conn.content \in Nat /\ conn.parsed \in Nat /\ conn.sent \in Nat
        /\ conn.onSource \in Nat /\ conn.onBytesWritten \in Nat
    BY <2>1, HttpTransferAssumption DEF Connections, Words
  <2>3. conn.content \in 0 .. conn.parsed /\ conn.parsed \in 0 .. conn.sent
    BY <2>1, <2>2 DEF RequestsOK
  <2>4. {conn.onBytesWritten, conn.onSource} \subseteq 0 .. conn.parsed
    BY <2>1, <2>2 DEF Bounded
  <2>5. \A r \in Rids : source[r] # NoSource => source[r].avail + source[r].left <= MaxUnits
    BY <2>1 DEF UnitsOK
  <2> QED
    BY <2>2, <2>3, <2>4, <2>5 DEF TypeOK
<1> QED
  BY <1>1, <1>2, <1>3, PTL DEF Spec

=============================================================================
