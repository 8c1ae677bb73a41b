-------------------------------- MODULE Fifo --------------------------------
(***************************************************************************)
(* QxtFifo: a loopback QIODevice over a linked list of blocks, written by  *)
(* one thread and read by another without a lock.  Every access to memory  *)
(* that both threads use is a step of its own; memory is sequentially      *)
(* consistent.                                                             *)
(*                                                                         *)
(* The bytes ever written are numbered 1, 2, 3...; a node holds the bytes  *)
(* lo+1 .. hi.  The list always has a first node, which may be empty.      *)
(***************************************************************************)
EXTENDS Integers, Sequences

CONSTANTS
    MaxSize,    \* bound: the largest size passed to read() or write()
    MaxBytes,   \* bound: how many bytes are ever written
    IntMax      \* INT_MAX

ASSUME FifoAssumption ==
    MaxSize \in Nat \ {0} /\ MaxBytes \in Nat /\ IntMax \in Nat \ {0}

VARIABLES
    nodes,      \* every node ever allocated: [lo, hi, next], next = 0 for null
    freed,      \* the nodes that were deleted
    head, tail, \* the list (head = 0: null)
    available,  \* the atomic count of bytes that can be read
    written,    \* how many bytes are in the nodes allocated so far
    wstep,      \* writer: 0 outside writeData(), else the next of WriteOrder
    rpc,        \* reader: "idle", or "copy" inside readData()
    want,       \* reader: bytes still to copy
    taken,      \* reader: bytes this call returns
    draining,   \* reader: a readyRead() slot is in readAll()
    signals,    \* queued readyRead() calls
    output      \* history: the bytes copied to the reader

writerVars == <<tail, written, wstep>>
readerVars == <<head, freed, rpc, want, taken, draining, output>>
vars == <<nodes, available, signals, writerVars, readerVars>>

Init ==
    /\ nodes = <<[lo |-> 0, hi |-> 0, next |-> 0]>>
    /\ freed = {}
    /\ head = 1 /\ tail = 1
    /\ available = 0
    /\ written = 0
    /\ wstep = 0
    /\ rpc = "idle"
    /\ want = 0 /\ taken = 0
    /\ draining = FALSE
    /\ signals = 0
    /\ output = <<>>

\* The value of an int after an atomic addition.
Int32(x) == IF x > IntMax THEN x - 2 * (IntMax + 1) ELSE x

Size(n) == nodes[n].hi - nodes[n].lo

-----------------------------------------------------------------------------
(* writeData().                                                            *)

PublishFirst == <<"publish", "link", "swing", "signal">>   \* faulty orders
SignalFirst == <<"link", "swing", "signal", "publish">>

\* The order of the steps after the new node was filled.
WriteOrder == <<"link", "swing", "publish", "signal">>

Writes(op) == wstep \in 1 .. 4 /\ WriteOrder[wstep] = op
Advance == wstep' = (wstep + 1) % 5

\* A write larger than an int is cut; the new node is not yet in the list.
BeginWrite(n) ==
    LET size == IF n > IntMax THEN IntMax ELSE n IN
    /\ wstep = 0
    /\ written + size <= MaxBytes
    /\ nodes' = Append(nodes, [lo |-> written, hi |-> written + size, next |-> 0])
    /\ written' = written + size
    /\ wstep' = 1
    /\ UNCHANGED <<available, signals, tail, readerVars>>

NewNode == Len(nodes)

\* tail->next = new node
Link ==
    /\ Writes("link")
    /\ nodes' = [nodes EXCEPT ![tail].next = NewNode]
    /\ Advance
    /\ UNCHANGED <<available, signals, tail, written, readerVars>>

SwingTail ==
    /\ Writes("swing")
    /\ tail' = NewNode
    /\ Advance
    /\ UNCHANGED <<nodes, available, signals, written, readerVars>>

Publish ==
    /\ Writes("publish")
    /\ available' = Int32(available + Size(NewNode))
    /\ Advance
    /\ UNCHANGED <<nodes, signals, tail, written, readerVars>>

\* readyRead() is queued (and bytesWritten(), which no reader waits for).
Signal ==
    /\ Writes("signal")
    /\ signals' = signals + 1
    /\ Advance
    /\ UNCHANGED <<nodes, available, tail, written, readerVars>>

-----------------------------------------------------------------------------
(* readData().                                                             *)

\* The entry: how many bytes this call returns; 0 ends a readAll().
BeginRead(m) ==
    /\ rpc = "idle"
    /\ IF available = 0
       THEN draining /\ draining' = FALSE /\ UNCHANGED <<rpc, want, taken>>
       ELSE /\ rpc' = "copy"
            /\ want' = IF available > m THEN m ELSE available
            /\ taken' = want'
            /\ UNCHANGED draining
    /\ UNCHANGED <<nodes, available, signals, writerVars, head, freed, output>>

Copied(n) == [i \in 1 .. n |-> nodes[head].lo + i]

\* The first node has all that is wanted: the rest of it stays.
CopyPart ==
    /\ rpc = "copy" /\ want > 0
    /\ Size(head) >= want
    /\ output' = output \o Copied(want)
    /\ nodes' = [nodes EXCEPT ![head].lo = @ + want]
    /\ want' = 0
    /\ UNCHANGED <<available, signals, writerVars, head, freed, rpc, taken, draining>>

\* It has not: it is copied and deleted.
CopyNode ==
    /\ rpc = "copy" /\ want > 0
    /\ Size(head) < want
    /\ output' = output \o Copied(Size(head))
    /\ want' = want - Size(head)
    /\ head' = nodes[head].next
    /\ freed' = freed \cup {head}
    /\ UNCHANGED <<nodes, available, signals, writerVars, rpc, taken, draining>>

EndRead ==
    /\ rpc = "copy" /\ want <= 0
    /\ available' = Int32(available - taken)
    /\ rpc' = "idle"
    /\ UNCHANGED <<nodes, signals, writerVars, head, freed, want, taken, draining, output>>

\* The event loop of the reader's thread emits a queued readyRead(); the slot
\* calls readAll().
ReadyRead ==
    /\ rpc = "idle" /\ ~draining /\ signals > 0
    /\ signals' = signals - 1
    /\ draining' = TRUE
    /\ UNCHANGED <<nodes, available, writerVars, head, freed, rpc, want, taken, output>>

\* clear(): unlinks every node after the first and deletes them, all but the
\* last.  It synchronises with nothing, so it is called between reads and
\* writes only.
KeepHeadContent == [nodes EXCEPT ![head].next = 0]   \* faulty
NodesAfterClear == [nodes EXCEPT ![head] = [lo |-> written, hi |-> written, next |-> 0]]

Clear ==
    /\ rpc = "idle" /\ wstep = 0
    /\ available' = 0
    /\ tail' = head
    /\ nodes' = NodesAfterClear
    /\ freed' = freed \cup {n \in DOMAIN nodes : n # head /\ nodes[n].next # 0}
    /\ UNCHANGED <<signals, written, wstep, head, rpc, want, taken, draining, output>>

-----------------------------------------------------------------------------
Writer == Link \/ SwingTail \/ Publish \/ Signal

\* What a readAll() goes on with, and what the application does of itself.
Reading == CopyPart \/ CopyNode \/ EndRead \/ (draining /\ \E m \in 1 .. MaxSize : BeginRead(m))
OwnRead == ~draining /\ \E m \in 1 .. MaxSize : BeginRead(m)

Next ==
    \/ \E n \in 1 .. MaxSize : BeginWrite(n)
    \/ Writer
    \/ Reading
    \/ OwnRead
    \/ ReadyRead
    \/ Clear

\* A call that has begun goes on, and the event loop runs; nobody is obliged
\* to begin a read or a write.
Spec == Init /\ [][Next]_vars /\ WF_vars(Writer) /\ WF_vars(Reading) /\ WF_vars(ReadyRead)

-----------------------------------------------------------------------------
TypeOK ==
    /\ nodes \in Seq([lo : Nat, hi : Nat, next : Nat])
    /\ freed \subseteq DOMAIN nodes
    /\ head \in Nat /\ tail \in Nat
    /\ available \in Int
    /\ written \in 0 .. MaxBytes
    /\ wstep \in 0 .. 4
    /\ rpc \in {"idle", "copy"}
    /\ want \in Int /\ taken \in Int
    /\ draining \in BOOLEAN
    /\ signals \in Nat
    /\ output \in Seq(Nat)

\* Neither thread ever follows a null pointer or touches a node the other one
\* deleted: the ends of the list are live nodes, and so is what they link to.
ListIsLive ==
    /\ {head, tail} \subseteq DOMAIN nodes \ freed
    /\ \A n \in {head, tail} : nodes[n].next \in (DOMAIN nodes \ freed) \cup {0}

\* Bytes come out in the order they went in, none of them twice.
OutputIsInOrder == \A i, j \in DOMAIN output : i < j => output[i] < output[j]

\* The comment on the cut in writeData() - "let's play it safe" - is about the
\* atomic count: it never wraps, however much is stored.
CountNeverWraps == available >= 0

\* What is written is read in the end: with no read but those of the
\* readyRead() slot, no published byte stays behind unannounced.
EverythingIsRead == available # 0 ~> available = 0

-----------------------------------------------------------------------------
(* The refinement: a write takes effect when it publishes its size, a read *)
(* when it subtracts what it copied.                                       *)

\* The bytes in the list from a node on.
Contents[n \in 0 .. Len(nodes)] ==
    IF n = 0 THEN <<>>
    ELSE [i \in 1 .. Size(n) |-> nodes[n].lo + i] \o Contents[nodes[n].next]

Unreturned == IF rpc = "copy" THEN taken - want ELSE 0
Returned == Len(output) - Unreturned

Published ==
    IF \E i \in 1 .. 4 : WriteOrder[i] = "publish" /\ wstep \in 1 .. i
    THEN nodes[NewNode].lo
    ELSE written

\* What reads can still get: bytes that the call under way copied, and published
\* ones in the list.
Unread == SubSeq(SubSeq(output, Returned + 1, Len(output)) \o Contents[head], 1, available)
Received == SubSeq(output, 1, Returned)

Queue == INSTANCE ByteQueue WITH queue <- Unread, put <- Published, received <- Received

\* The lock-free list is a byte queue.
IsByteQueue == Queue!BQSpec
=============================================================================
