------------------------- MODULE FifoAndLocksProofs --------------------------
(***************************************************************************)
(* Proofs about the parts of the core library that threads and processes   *)
(* share.                                                                  *)
(*                                                                         *)
(* Fifo, for every size of the reads and writes: the reader and the writer *)
(* never meet on a deleted node, bytes come out in order, and the list     *)
(* implements ByteQueue.  They hold as long as the count does not wrap     *)
(* (NoWrap).  What makes the list safe is the order of writeData(): the    *)
(* reader moves past a node only when "available" tells it of bytes behind *)
(* it, and the writer counts them after the list and "tail" were changed.  *)
(* Positions states this in terms of the numbers of the bytes.  For the    *)
(* refinement, what the nodes from one node on hold is found from the last *)
(* node back; the queue is what was counted and not yet returned.          *)
(*                                                                         *)
(* FileLocks, for any number of processes, files and locks, any ranges and *)
(* any size of an int.  WritersAreAlone is not inductive.  That a writer   *)
(* is alone in its process rests on the registry, of which no two entries  *)
(* collide (NoCollision); that it is alone among the processes rests on    *)
(* the kernel holding for a process what its active locks are for, unless  *)
(* they lost it (Held), and on the kernel's own rule (Exclusive).          *)
(***************************************************************************)
EXTENDS Fifo, FileLocks, SequenceTheorems, WellFoundedInduction, TLAPS

-----------------------------------------------------------------------------
(* The byte queue.                                                         *)

NoWrap == MaxBytes <= IntMax

Live == DOMAIN nodes \ freed

\* The writer linked its node, but "tail" is still the node before it.
Linked == wstep = 2

\* The list and the links of its nodes.
ListShape ==
    /\ head \in Live /\ tail \in Live
    /\ head = tail \/ nodes[head].next # 0
    /\ nodes[tail].next = IF Linked THEN NewNode ELSE 0
    /\ wstep = 3 => tail = NewNode
    /\ wstep \in 1 .. 2 => NewNode \in Live /\ NewNode # tail /\ NewNode # head /\ nodes[NewNode].next = 0
    /\ wstep = 1 => \A n \in Live : nodes[n].next # NewNode
    /\ \A n \in Live : nodes[n].next # 0 =>
          LET m == nodes[n].next IN
          /\ m \in Live
          /\ m # head
          /\ nodes[m].lo = nodes[n].hi
          /\ m = tail \/ nodes[m].next # 0 \/ (Linked /\ m = NewNode)
    /\ \A m, n \in Live : nodes[m].next = nodes[n].next /\ nodes[n].next # 0 => m = n

\* Bytes that were published, and bytes this readData() call already copied.
Put == IF wstep \in 1 .. 3 THEN nodes[NewNode].lo ELSE written
InCall == IF rpc = "copy" THEN taken - want ELSE 0

Positions ==
    /\ \A n \in DOMAIN nodes : nodes[n].lo <= nodes[n].hi /\ nodes[n].hi <= written
    /\ wstep \in 1 .. 3 => nodes[NewNode].hi = written
    /\ Put = IF wstep = 3 THEN nodes[tail].lo ELSE nodes[tail].hi
    /\ available - InCall = Put - nodes[head].lo
    /\ 0 <= InCall /\ InCall <= nodes[head].lo /\ InCall <= available
    /\ rpc = "copy" => 0 <= want /\ want <= available - InCall

OutputIsPast == \A i \in DOMAIN output : output[i] <= nodes[head].lo

FInv == TypeOK /\ ListShape /\ Positions /\ OutputIsPast /\ OutputIsInOrder

-----------------------------------------------------------------------------
LEMMA NodeTypes ==
    ASSUME TypeOK
    PROVE  /\ Len(nodes) \in Nat /\ DOMAIN nodes = 1 .. Len(nodes)
           /\ \A n \in DOMAIN nodes : /\ nodes[n] \in [lo : Nat, hi : Nat, next : Nat]
                                      /\ nodes[n].lo \in Nat /\ nodes[n].hi \in Nat /\ nodes[n].next \in Nat
           /\ DOMAIN output = 1 .. Len(output) /\ Len(output) \in Nat
           /\ \A i \in DOMAIN output : output[i] \in Nat
<1>1. Len(nodes) \in Nat /\ DOMAIN nodes = 1 .. Len(nodes)
      /\ \A n \in DOMAIN nodes : nodes[n] \in [lo : Nat, hi : Nat, next : Nat]
  BY LenProperties DEF TypeOK
<1>2. DOMAIN output = 1 .. Len(output) /\ Len(output) \in Nat /\ \A i \in DOMAIN output : output[i] \in Nat
  BY LenProperties DEF TypeOK
<1> QED BY <1>1, <1>2

\* The steps of writeData() by their place in WriteOrder.
LEMMA StepNumbers ==
    ASSUME TypeOK
    PROVE  /\ Writes("link") <=> wstep = 1
           /\ Writes("swing") <=> wstep = 2
           /\ Writes("publish") <=> wstep = 3
           /\ Writes("signal") <=> wstep = 4
<1>1. wstep \in 0 .. 4
  BY DEF TypeOK
<1> QED BY <1>1 DEF Writes, WriteOrder

\* The reader's copy: the new bytes follow all that were read before.
LEMMA OutputStep ==
    ASSUME FInv, NEW n \in Nat, output' = output \o Copied(n)
    PROVE  /\ output' \in Seq(Nat)
           /\ \A i \in DOMAIN output' : output'[i] <= nodes[head].lo + n
           /\ OutputIsInOrder'
<1> DEFINE lo == nodes[head].lo
<1>1. /\ lo \in Nat /\ Len(output) \in Nat /\ DOMAIN output = 1 .. Len(output)
      /\ \A i \in DOMAIN output : output[i] \in Nat /\ output[i] <= lo
      /\ \A i, j \in DOMAIN output : i < j => output[i] < output[j]
  BY NodeTypes DEF FInv, ListShape, Live, OutputIsPast, OutputIsInOrder
<1>2. Copied(n) = [i \in 1 .. n |-> lo + i]
  BY DEF Copied
<1> HIDE DEF lo
<1>3. Copied(n) \in Seq(Nat)
  BY <1>1, <1>2, IsASeq
<1>4. Len(Copied(n)) = n
  BY <1>2, <1>3, LenProperties
<1>5. /\ output' \in Seq(Nat) /\ DOMAIN output' = 1 .. Len(output) + n
      /\ \A i \in 1 .. Len(output) + n :
            output'[i] = IF i <= Len(output) THEN output[i] ELSE lo + (i - Len(output))
  BY <1>1, <1>2, <1>3, <1>4, ConcatProperties DEF FInv, TypeOK
<1>6. \A i \in DOMAIN output' : output'[i] <= lo + n
  BY <1>1, <1>5
<1>7. \A i, j \in DOMAIN output' : i < j => output'[i] < output'[j]
  <2> SUFFICES ASSUME NEW i \in DOMAIN output', NEW j \in DOMAIN output', i < j
               PROVE  output'[i] < output'[j]
    OBVIOUS
  <2>1. CASE j <= Len(output)
    BY <1>1, <1>5, <2>1
  <2>2. CASE i <= Len(output) /\ j > Len(output)
    <3>1. output'[i] <= lo /\ output'[i] \in Nat
      BY <1>1, <1>5, <2>2
    <3>2. output'[j] = lo + (j - Len(output)) /\ j - Len(output) > 0
      BY <1>1, <1>5, <2>2
    <3> QED BY <1>1, <1>5, <3>1, <3>2, SMTT(30)
  <2>3. CASE i > Len(output)
    <3>1. i \in 1 .. Len(output) + n /\ j \in 1 .. Len(output) + n /\ j > Len(output)
      BY <1>1, <1>5, <2>3
    <3>2. output'[j] = lo + (j - Len(output))
      BY <1>1, <1>5, <3>1
    <3>3. output'[i] = lo + (i - Len(output))
      BY <1>1, <1>5, <2>3, <3>1
    <3> HIDE <1>5
    <3> QED BY <1>1, <3>1, <3>2, <3>3
  <2>4. i \in Nat /\ j \in Nat
    BY <1>1, <1>5
  <2> QED BY <1>1, <2>1, <2>2, <2>3, <2>4
<1> QED BY <1>5, <1>6, <1>7 DEF OutputIsInOrder, lo

\* Facts that every step uses.
LEMMA NodeBounds ==
    FInv => \A n \in DOMAIN nodes :
               /\ nodes[n] \in [lo : Nat, hi : Nat, next : Nat]
               /\ nodes[n].lo \in Nat /\ nodes[n].hi \in Nat /\ nodes[n].next \in Nat
               /\ nodes[n].lo <= nodes[n].hi /\ nodes[n].hi <= written
  BY NodeTypes DEF FInv, Positions

LEMMA Scalars ==
    FInv => /\ Len(nodes) \in Nat /\ DOMAIN nodes = 1 .. Len(nodes) /\ NewNode = Len(nodes)
            /\ head \in DOMAIN nodes /\ tail \in DOMAIN nodes /\ NewNode \in DOMAIN nodes
            /\ written \in Nat /\ written <= MaxBytes /\ available \in Int /\ MaxBytes \in Nat
            /\ wstep \in 0 .. 4 /\ want \in Int /\ taken \in Int /\ freed \subseteq DOMAIN nodes
            /\ available <= Put /\ 0 <= available /\ InCall \in Int
<1> SUFFICES ASSUME FInv
             PROVE  /\ Len(nodes) \in Nat /\ DOMAIN nodes = 1 .. Len(nodes) /\ NewNode = Len(nodes)
                    /\ head \in DOMAIN nodes /\ tail \in DOMAIN nodes /\ NewNode \in DOMAIN nodes
                    /\ written \in Nat /\ written <= MaxBytes /\ available \in Int /\ MaxBytes \in Nat
                    /\ wstep \in 0 .. 4 /\ want \in Int /\ taken \in Int /\ freed \subseteq DOMAIN nodes
                    /\ available <= Put /\ 0 <= available /\ InCall \in Int
  OBVIOUS
<1>1. Len(nodes) \in Nat /\ DOMAIN nodes = 1 .. Len(nodes) /\ NewNode = Len(nodes)
  BY NodeTypes DEF FInv, NewNode
<1>2. head \in DOMAIN nodes /\ tail \in DOMAIN nodes
  BY DEF FInv, ListShape, Live
<1>3. /\ written \in Nat /\ written <= MaxBytes /\ available \in Int /\ MaxBytes \in Nat
      /\ wstep \in 0 .. 4 /\ want \in Int /\ taken \in Int /\ freed \subseteq DOMAIN nodes
  BY FifoAssumption DEF FInv, TypeOK
<1>4. NewNode \in DOMAIN nodes
  BY <1>1, <1>2
<1>5. InCall \in Int /\ Put \in Int /\ nodes[head].lo \in Int
  BY <1>2, <1>3, <1>4, NodeBounds DEF InCall, Put
<1>6. available <= Put /\ 0 <= available
  BY <1>3, <1>5 DEF FInv, Positions
<1> QED BY <1>1, <1>2, <1>3, <1>4, <1>5, <1>6

LEMMA BeginWriteStep ==
    ASSUME FInv, NEW n \in 1 .. MaxSize, BeginWrite(n)
    PROVE  FInv'
<1> DEFINE size == IF n > IntMax THEN IntMax ELSE n
           new == [lo |-> written, hi |-> written + size, next |-> 0]
<1>0. size \in Nat /\ size > 0
  <2>1. n \in Nat /\ n > 0 /\ IntMax \in Nat /\ IntMax > 0
    BY FifoAssumption
  <2> QED BY <2>1
<1>1. /\ wstep = 0 /\ written' = written + size /\ written + size <= MaxBytes /\ wstep' = 1
      /\ nodes' = Append(nodes, new)
      /\ UNCHANGED <<available, signals, tail, head, freed, rpc, want, taken, draining, output>>
  BY DEF BeginWrite, readerVars
<1> HIDE DEF size
<1>2. size \in Nat /\ size > 0 /\ new \in [lo : Nat, hi : Nat, next : Nat]
      /\ new.lo = written /\ new.hi = written + size /\ new.next = 0
  <2>1. written + size \in Nat /\ written \in Nat
    BY <1>0, Scalars
  <2> QED BY <1>0, <2>1
<1> HIDE DEF new
<1>3. /\ nodes' \in Seq([lo : Nat, hi : Nat, next : Nat]) /\ Len(nodes') = Len(nodes) + 1
      /\ DOMAIN nodes' = 1 .. Len(nodes) + 1 /\ NewNode' = Len(nodes) + 1
      /\ \A m \in DOMAIN nodes : nodes'[m] = nodes[m]
      /\ nodes'[Len(nodes) + 1] = new
  <2>1. nodes \in Seq([lo : Nat, hi : Nat, next : Nat])
    BY DEF FInv, TypeOK
  <2> QED BY <1>2, <1>1, <2>1, Scalars, NodeBounds, AppendProperties DEF NewNode
<1>4. TypeOK'
  <2>1. freed' \subseteq DOMAIN nodes' /\ written' \in 0 .. MaxBytes
    <3>1. 1 .. Len(nodes) \subseteq 1 .. Len(nodes) + 1
      BY Scalars
    <3>2. written' \in Nat
      BY <1>0, <1>1, Scalars
    <3> QED BY <1>1, <1>3, <3>1, <3>2, Scalars
  <2> QED BY <1>1, <1>3, <2>1 DEF FInv, TypeOK
<1>5. Live' = Live \cup {NewNode'} /\ NewNode' \notin DOMAIN nodes /\ NewNode' # 0
  <2>1. DOMAIN nodes' = DOMAIN nodes \cup {NewNode'} /\ NewNode' \notin DOMAIN nodes /\ NewNode' # 0
    <3>1. \A L \in Nat : 1 .. L + 1 = (1 .. L) \cup {L + 1} /\ L + 1 \notin 1 .. L /\ L + 1 # 0
      OBVIOUS
    <3> QED BY <1>3, <3>1, Scalars
  <2> QED BY <1>1, <2>1, Scalars, NodeBounds DEF Live
<1>6. ListShape'
  <2>1. \A m \in Live : m \in DOMAIN nodes /\ nodes'[m] = nodes[m]
    BY <1>3 DEF Live
  <2>2. nodes'[NewNode'].next = 0
    BY <1>2, <1>3
  <2>3. head \in Live /\ tail \in Live /\ NewNode' \notin Live
    BY <1>5 DEF FInv, ListShape, Live
  <2>4. \A m \in Live : nodes[m].next # 0 => nodes[m].next \in Live
    BY DEF FInv, ListShape
  <2>5. \A m \in Live : nodes'[m].next # NewNode'
    BY <1>5, <2>1, <2>4, <2>3
  <2>6. ASSUME NEW n1 \in Live', nodes'[n1].next # 0
        PROVE  LET m == nodes'[n1].next IN
               /\ m \in Live' /\ m # head /\ nodes'[m].lo = nodes'[n1].hi
               /\ m = tail \/ nodes'[m].next # 0
    <3>1. n1 \in Live /\ nodes[n1].next # 0
      BY <1>5, <2>1, <2>2, <2>6
    <3> QED BY <1>1, <1>5, <2>1, <2>4, <3>1 DEF FInv, ListShape, Linked
  <2>7. \A m, n1 \in Live' : nodes'[m].next = nodes'[n1].next /\ nodes'[n1].next # 0 => m = n1
    BY <1>5, <2>1, <2>2 DEF FInv, ListShape
  <2>8. /\ head = tail \/ nodes'[head].next # 0
        /\ nodes'[tail].next = 0
    BY <1>1, <2>1, <2>3 DEF FInv, ListShape, Linked
  <2>9. \A m \in Live' : nodes'[m].next # NewNode'
    BY <1>5, <2>2, <2>5
  <2>10. wstep' = 1 /\ head' = head /\ tail' = tail
    BY <1>1
  <2>11. /\ NewNode' \in Live' /\ NewNode' # tail' /\ NewNode' # head'
         /\ head' \in Live' /\ tail' \in Live'
    BY <1>5, <2>3, <2>10
  <2> QED BY <2>2, <2>6, <2>7, <2>8, <2>9, <2>10, <2>11 DEF ListShape, Linked
<1>7. Positions'
  <2>1. \A m \in DOMAIN nodes' : nodes'[m].lo <= nodes'[m].hi /\ nodes'[m].hi <= written'
    <3>1. \A m \in DOMAIN nodes : nodes'[m].lo <= nodes'[m].hi /\ nodes'[m].hi <= written'
      <4> TAKE m \in DOMAIN nodes
      <4>1. nodes'[m] = nodes[m] /\ nodes[m].lo <= nodes[m].hi /\ nodes[m].hi <= written /\ nodes[m].hi \in Nat
        BY <1>3, NodeBounds
      <4>2. written <= written' /\ written \in Nat /\ written' \in Nat
        BY <1>0, <1>1, Scalars
      <4> QED BY <4>1, <4>2
    <3>2. new.lo <= new.hi /\ new.hi <= written'
      BY <1>0, <1>2, <1>1, Scalars
    <3>3. \A m \in 1 .. Len(nodes) + 1 : m \in 1 .. Len(nodes) \/ m = Len(nodes) + 1
      BY Scalars
    <3> QED BY <1>3, <3>1, <3>2, <3>3, Scalars
  <2>2. nodes'[NewNode'].hi = written' /\ Put' = written /\ Put = written
    BY <1>2, <1>1, <1>3 DEF Put
  <2>3. InCall' = InCall
    BY <1>1 DEF InCall
  <2>4. nodes'[head] = nodes[head] /\ nodes'[tail] = nodes[tail]
    BY <1>3, Scalars, NodeBounds
  <2> QED BY <1>1, <2>1, <2>2, <2>3, <2>4 DEF FInv, Positions
<1>8. OutputIsPast' /\ OutputIsInOrder'
  BY <1>1, <1>3, Scalars, NodeBounds DEF FInv, OutputIsPast, OutputIsInOrder
<1> QED BY <1>4, <1>6, <1>7, <1>8 DEF FInv

LEMMA LinkStep ==
    ASSUME FInv, Link
    PROVE  FInv'
<1>1. /\ wstep = 1 /\ wstep' = 2
      /\ nodes' = [nodes EXCEPT ![tail].next = NewNode]
      /\ UNCHANGED <<available, signals, tail, written, head, freed, rpc, want, taken, draining, output>>
  BY StepNumbers DEF Link, Advance, readerVars, FInv
<1>2. /\ nodes' \in Seq([lo : Nat, hi : Nat, next : Nat])
      /\ DOMAIN nodes' = DOMAIN nodes /\ NewNode' = NewNode /\ Live' = Live
      /\ \A m \in DOMAIN nodes : /\ nodes'[m].lo = nodes[m].lo /\ nodes'[m].hi = nodes[m].hi
                                 /\ nodes'[m].next = IF m = tail THEN NewNode ELSE nodes[m].next
  <2>1. [nodes[tail] EXCEPT !.next = NewNode] \in [lo : Nat, hi : Nat, next : Nat]
    BY Scalars, NodeBounds
  <2>2. nodes' = [nodes EXCEPT ![tail] = [nodes[tail] EXCEPT !.next = NewNode]]
    BY <1>1
  <2>3. nodes' \in Seq([lo : Nat, hi : Nat, next : Nat]) /\ Len(nodes') = Len(nodes)
    <3>1. nodes \in Seq([lo : Nat, hi : Nat, next : Nat])
      BY DEF FInv, TypeOK
    <3> QED BY <2>1, <2>2, <3>1, Scalars, NodeBounds, ExceptSeq
  <2>4. DOMAIN nodes' = DOMAIN nodes
    BY <2>2
  <2>5. \A m \in DOMAIN nodes : m # tail => nodes'[m] = nodes[m]
    BY <2>2
  <2>6. nodes'[tail].lo = nodes[tail].lo /\ nodes'[tail].hi = nodes[tail].hi /\ nodes'[tail].next = NewNode
    BY <2>2, Scalars, NodeBounds
  <2> QED BY <1>1, <2>3, <2>4, <2>5, <2>6 DEF NewNode, Live
<1>3. TypeOK'
  <2>1. freed' \subseteq DOMAIN nodes' /\ wstep' \in 0 .. 4
    BY <1>1, <1>2, Scalars
  <2>2. nodes' \in Seq([lo : Nat, hi : Nat, next : Nat])
    BY <1>2
  <2> QED BY <1>1, <2>1, <2>2 DEF FInv, TypeOK
<1>4. ListShape'
  <2> USE DEF FInv, ListShape, Linked
  <2>1. NewNode \in Live /\ NewNode # tail /\ NewNode # head /\ nodes[NewNode].next = 0 /\ NewNode \in Nat \ {0}
    BY <1>1, Scalars, NodeBounds
  <2>2. nodes[NewNode].lo = nodes[tail].hi
    BY <1>1 DEF Positions, Put
  <2>3. \A n \in Live : nodes[n].next # NewNode
    BY <1>1
  <2>4. ASSUME NEW n \in Live, nodes'[n].next # 0
        PROVE  LET m == nodes'[n].next IN
               /\ m \in Live /\ m # head /\ nodes'[m].lo = nodes'[n].hi
               /\ m = tail \/ nodes'[m].next # 0 \/ m = NewNode
    <3>1. n \in DOMAIN nodes /\ NewNode \in DOMAIN nodes
      BY Scalars, NodeBounds DEF Live
    <3>2. CASE n = tail
      BY <1>2, <2>1, <2>2, <3>1, <3>2, SMTT(30)
    <3>3. CASE n # tail
      <4>1. nodes'[n].next = nodes[n].next /\ nodes[n].next # 0
        BY <1>2, <2>4, <3>1, <3>3
      <4>2. nodes[n].next \in Live /\ nodes[n].next \in DOMAIN nodes
        BY <4>1 DEF Live
      <4> QED BY <1>1, <1>2, <2>3, <3>1, <4>1, <4>2
    <3> QED BY <3>2, <3>3
  <2>5. \A m, n \in Live : nodes'[m].next = nodes'[n].next /\ nodes'[n].next # 0 => m = n
    <3>1. \A n \in Live : nodes'[n].next = IF n = tail THEN NewNode ELSE nodes[n].next
      BY <1>2 DEF Live
    <3>2. \A m, n \in Live : nodes[m].next = nodes[n].next /\ nodes[n].next # 0 => m = n
      OBVIOUS
    <3> HIDE DEF FInv, ListShape
    <3> QED BY <2>3, <3>1, <3>2
  <2>6. head = tail \/ nodes'[head].next # 0
    BY <1>2, Scalars, NodeBounds
  <2> QED BY <1>1, <1>2, <2>1, <2>4, <2>5, <2>6, Scalars, NodeBounds
<1>5. Positions'
  <2>1. Put' = Put /\ InCall' = InCall
    BY <1>1, <1>2, Scalars, NodeBounds DEF Put, InCall
  <2>2. /\ nodes'[head].lo = nodes[head].lo
        /\ nodes'[tail].lo = nodes[tail].lo /\ nodes'[tail].hi = nodes[tail].hi
        /\ nodes'[NewNode'].hi = nodes[NewNode].hi
    BY <1>2, Scalars, NodeBounds
  <2>3. \A m \in DOMAIN nodes' : nodes'[m].lo <= nodes'[m].hi /\ nodes'[m].hi <= written
    BY <1>2, Scalars, NodeBounds
  <2> QED BY <1>1, <2>1, <2>2, <2>3 DEF FInv, Positions
<1>6. OutputIsPast' /\ OutputIsInOrder'
  BY <1>1, <1>2, Scalars, NodeBounds DEF FInv, OutputIsPast, OutputIsInOrder
<1> QED BY <1>3, <1>4, <1>5, <1>6 DEF FInv

LEMMA SwingTailStep ==
    ASSUME FInv, SwingTail
    PROVE  FInv'
<1>1. /\ wstep = 2 /\ wstep' = 3 /\ tail' = NewNode
      /\ UNCHANGED <<nodes, available, signals, written, head, freed, rpc, want, taken, draining, output>>
  BY StepNumbers DEF SwingTail, Advance, readerVars, FInv
<1>2. TypeOK'
  BY <1>1, Scalars, NodeBounds DEF FInv, TypeOK
<1>3. ListShape'
  BY <1>1, Scalars, NodeBounds, SMTT(30) DEF FInv, ListShape, Live, Linked, NewNode
<1>4. Positions'
  <2>1. Put' = Put /\ InCall' = InCall /\ Put = nodes[NewNode].lo /\ NewNode' = NewNode
    BY <1>1 DEF Put, InCall, NewNode
  <2> QED BY <1>1, <2>1, Scalars, NodeBounds DEF FInv, Positions
<1>5. OutputIsPast' /\ OutputIsInOrder'
  BY <1>1 DEF FInv, OutputIsPast, OutputIsInOrder
<1> QED BY <1>2, <1>3, <1>4, <1>5 DEF FInv

LEMMA PublishStep ==
    ASSUME FInv, NoWrap, Publish
    PROVE  FInv'
<1>1. /\ wstep = 3 /\ wstep' = 4 /\ available' = Int32(available + Size(NewNode))
      /\ UNCHANGED <<nodes, signals, tail, written, head, freed, rpc, want, taken, draining, output>>
  BY StepNumbers DEF Publish, Advance, readerVars, FInv
<1>2. /\ Put = nodes[NewNode].lo /\ Put' = written /\ nodes[NewNode].hi = written /\ tail = NewNode
      /\ InCall' = InCall /\ InCall \in Int
  BY <1>1, Scalars, NodeBounds DEF Put, InCall, FInv, Positions, ListShape, NewNode
<1>3. available' = available + (written - nodes[NewNode].lo)
  <2>1. available + (written - nodes[NewNode].lo) <= written
    BY <1>2, Scalars, NodeBounds
  <2> QED BY <1>1, <1>2, <2>1, Scalars, NodeBounds, FifoAssumption, SMTT(30) DEF Int32, Size, NoWrap
<1>4. TypeOK'
  BY <1>1, <1>2, <1>3, Scalars, NodeBounds, SMTT(30) DEF FInv, TypeOK
<1>5. ListShape'
  BY <1>1 DEF FInv, ListShape, Live, Linked, NewNode
<1>6. Positions'
  <2>1. nodes[tail].hi = written /\ NewNode' = NewNode /\ nodes[head].lo \in Nat /\ nodes[NewNode].lo \in Nat
        /\ nodes[NewNode].lo <= nodes[NewNode].hi
    BY <1>1, <1>2, Scalars, NodeBounds DEF NewNode
  <2>2. /\ available - InCall = Put - nodes[head].lo
        /\ 0 <= InCall /\ InCall <= nodes[head].lo /\ InCall <= available
        /\ rpc = "copy" => 0 <= want /\ want <= available - InCall
        /\ \A n \in DOMAIN nodes : nodes[n].lo <= nodes[n].hi /\ nodes[n].hi <= written
    BY DEF FInv, Positions
  <2>3. available \in Int /\ written \in Nat /\ InCall \in Int /\ want \in Int
    BY Scalars
  <2>4. nodes[NewNode].lo <= written
    BY <1>2, <2>1
  <2>5. available' >= available /\ available' \in Int
    BY <1>3, <2>1, <2>3, <2>4
  <2>6. /\ available' - InCall' = Put' - nodes[head].lo
        /\ InCall' <= available'
        /\ rpc = "copy" => want <= available' - InCall'
    <3>1. available' - InCall' = Put' - nodes[head].lo
      BY <1>2, <1>3, <2>1, <2>2, <2>3
    <3>2. InCall' = InCall
      BY <1>2
    <3>3. InCall' <= available'
      BY <2>2, <2>5, <2>3, <3>2
    <3>4. ASSUME rpc = "copy" PROVE want <= available' - InCall'
      <4>1. want <= available - InCall
        BY <2>2, <3>4
      <4>2. \A a, b, c, d \in Int : a <= b - c /\ d >= b => a <= d - c
        OBVIOUS
      <4> QED BY <2>5, <2>3, <3>2, <4>1, <4>2
    <3> QED BY <3>1, <3>3, <3>4
  <2> QED BY <1>1, <1>2, <2>1, <2>2, <2>6 DEF Positions
<1>7. OutputIsPast' /\ OutputIsInOrder'
  BY <1>1 DEF FInv, OutputIsPast, OutputIsInOrder
<1> QED BY <1>4, <1>5, <1>6, <1>7 DEF FInv

\* A read is started: what it returns was counted, so it is in the list.
LEMMA BeginReadStep ==
    ASSUME FInv, NEW m \in 1 .. MaxSize, BeginRead(m)
    PROVE  FInv'
<1>1. /\ rpc = "idle"
      /\ UNCHANGED <<nodes, available, signals, tail, written, wstep, head, freed, output>>
  BY DEF BeginRead, writerVars
<1>2. InCall = 0 /\ available \in Int /\ m \in Nat /\ 0 <= available
  BY <1>1, FifoAssumption, Scalars DEF InCall
<1>3. /\ want' \in Int /\ taken' \in Int /\ draining' \in BOOLEAN /\ rpc' \in {"idle", "copy"}
      /\ rpc' = "copy" => want' = taken' /\ 0 <= want' /\ want' <= available
  <2>1. want \in Int /\ taken \in Int /\ draining \in BOOLEAN
    BY DEF FInv, TypeOK
  <2>2. CASE available = 0
    <3>1. draining' = FALSE /\ rpc' = "idle" /\ want' = want /\ taken' = taken
      BY <1>1, <2>2 DEF BeginRead
    <3> QED BY <2>1, <3>1
  <2>3. CASE available # 0
    <3>1. draining' = draining /\ rpc' = "copy" /\ taken' = want'
          /\ want' = IF available > m THEN m ELSE available
      BY <2>3 DEF BeginRead
    <3> QED BY <1>2, <2>1, <3>1
  <2> QED BY <2>2, <2>3
<1>4. TypeOK'
  BY <1>1, <1>3 DEF FInv, TypeOK
<1>5. ListShape' /\ OutputIsPast' /\ OutputIsInOrder'
  BY <1>1 DEF FInv, ListShape, Live, Linked, NewNode, OutputIsPast, OutputIsInOrder
<1>6. Positions'
  <2>1. InCall' = 0
    <3>1. CASE rpc' = "copy"
      <4>1. want' = taken' /\ want' \in Int /\ taken' \in Int
        BY <1>3, <3>1
      <4>2. \A a, b \in Int : a = b => b - a = 0
        OBVIOUS
      <4>3. taken' - want' = 0
        BY <4>2, <4>1
      <4> QED BY <3>1, <4>3 DEF InCall
    <3>2. CASE rpc' # "copy"
      BY <3>2 DEF InCall
    <3> QED BY <3>1, <3>2
  <2>2. Put' = Put /\ NewNode' = NewNode
    BY <1>1 DEF Put, NewNode
  <2> QED BY <1>1, <1>2, <1>3, <2>1, <2>2 DEF FInv, Positions
<1> QED BY <1>4, <1>5, <1>6 DEF FInv

LEMMA CopyPartStep ==
    ASSUME FInv, CopyPart
    PROVE  FInv'
<1> DEFINE lo == nodes[head].lo
<1>1. /\ rpc = "copy" /\ want > 0 /\ Size(head) >= want /\ want' = 0
      /\ output' = output \o Copied(want)
      /\ nodes' = [nodes EXCEPT ![head].lo = lo + want]
      /\ UNCHANGED <<available, signals, tail, written, wstep, head, freed, rpc, taken, draining>>
  BY DEF CopyPart, writerVars
<1>2. want \in Nat /\ lo \in Nat /\ lo + want \in Nat /\ lo + want <= nodes[head].hi
  <2>1. want \in Int /\ want > 0 /\ nodes[head].hi - nodes[head].lo >= want
    BY <1>1, Scalars DEF Size
  <2>2. nodes[head].hi \in Nat /\ nodes[head].lo \in Nat
    BY Scalars, NodeBounds
  <2> QED BY <2>1, <2>2
<1>3. /\ nodes' \in Seq([lo : Nat, hi : Nat, next : Nat])
      /\ DOMAIN nodes' = DOMAIN nodes /\ NewNode' = NewNode /\ Live' = Live
      /\ \A n \in DOMAIN nodes : /\ nodes'[n].next = nodes[n].next /\ nodes'[n].hi = nodes[n].hi
                                 /\ nodes'[n].lo = IF n = head THEN lo + want ELSE nodes[n].lo
  <2>1. [nodes[head] EXCEPT !.lo = lo + want] \in [lo : Nat, hi : Nat, next : Nat]
    BY <1>2, Scalars, NodeBounds
  <2>2. nodes' = [nodes EXCEPT ![head] = [nodes[head] EXCEPT !.lo = lo + want]]
    BY <1>1
  <2>3. nodes' \in Seq([lo : Nat, hi : Nat, next : Nat]) /\ Len(nodes') = Len(nodes)
    <3>1. nodes \in Seq([lo : Nat, hi : Nat, next : Nat])
      BY DEF FInv, TypeOK
    <3> QED BY <2>1, <2>2, <3>1, Scalars, ExceptSeq
  <2>4. DOMAIN nodes' = DOMAIN nodes
    BY <2>2
  <2>5. \A m \in DOMAIN nodes : m # head => nodes'[m] = nodes[m]
    BY <2>2
  <2>6. nodes'[head].lo = lo + want /\ nodes'[head].hi = nodes[head].hi /\ nodes'[head].next = nodes[head].next
    BY <2>2, Scalars, NodeBounds
  <2> HIDE DEF lo
  <2> QED BY <1>1, <2>3, <2>4, <2>5, <2>6 DEF NewNode, Live
<1>4. /\ output' \in Seq(Nat) /\ OutputIsInOrder'
      /\ \A i \in DOMAIN output' : output'[i] <= lo + want
  BY <1>1, <1>2, OutputStep
<1>5. TypeOK'
  <2>1. freed' \subseteq DOMAIN nodes'
    BY <1>1, <1>3, Scalars
  <2>2. nodes' \in Seq([lo : Nat, hi : Nat, next : Nat]) /\ want' \in Int
    BY <1>1, <1>3
  <2>3. output' \in Seq(Nat)
    BY <1>4
  <2> QED BY <1>1, <2>1, <2>2, <2>3 DEF FInv, TypeOK
<1>6. ListShape'
  <2>0. wstep' = wstep /\ tail' = tail /\ head' = head /\ Live' = Live /\ NewNode' = NewNode
    BY <1>1, <1>3
  <2>1. \A n \in Live : n \in DOMAIN nodes
    BY DEF Live
  \* No live node links to the head, so no neighbour sees its bytes move.
  <2>2. \A n \in Live : nodes[n].next # 0 => /\ nodes[n].next \in Live /\ nodes[n].next # head
                                             /\ nodes[nodes[n].next].lo = nodes[n].hi
    BY DEF FInv, ListShape
  <2>3. \A n \in Live : nodes'[n].next # 0 => /\ nodes'[n].next \in Live' /\ nodes'[n].next # head'
                                              /\ nodes'[nodes'[n].next].lo = nodes'[n].hi
    <3> SUFFICES ASSUME NEW n \in Live, nodes'[n].next # 0
                 PROVE  /\ nodes'[n].next \in Live /\ nodes'[n].next # head
                        /\ nodes'[nodes'[n].next].lo = nodes'[n].hi
      BY <2>0
    <3>1. nodes'[n].next = nodes[n].next /\ nodes'[n].hi = nodes[n].hi
      BY <1>3, <2>1
    <3>2. nodes[n].next \in Live /\ nodes[n].next # head /\ nodes[nodes[n].next].lo = nodes[n].hi
      BY <2>2, <3>1
    <3>3. nodes'[nodes[n].next].lo = nodes[nodes[n].next].lo
      BY <1>3, <2>1, <3>2
    <3> QED BY <3>1, <3>2, <3>3
  <2>4. \A n \in Live : nodes'[n].next = nodes[n].next
    BY <1>3, <2>1
  <2>5. head \in Live /\ tail \in Live
    BY DEF FInv, ListShape
  <2> QED BY <2>0, <2>2, <2>3, <2>4, <2>5 DEF FInv, ListShape, Linked
<1>7. Positions'
  <2>0. /\ available \in Int /\ written \in Nat /\ InCall \in Int /\ taken \in Int /\ want \in Int
        /\ Put \in Int /\ tail \in DOMAIN nodes /\ head \in DOMAIN nodes /\ NewNode \in DOMAIN nodes
    BY Scalars, NodeBounds DEF Put
  <2>1. InCall = taken - want /\ InCall' = taken /\ InCall' = InCall + want
    BY <1>1, <2>0 DEF InCall
  <2>2. \A n \in DOMAIN nodes' : nodes'[n].lo <= nodes'[n].hi /\ nodes'[n].hi <= written
    BY <1>2, <1>3, NodeBounds
  <2>3. wstep \in 1 .. 3 => nodes'[NewNode].hi = written
    BY <1>3, <2>0 DEF FInv, Positions
  \* At wstep = 3 the head is before the unpublished tail.
  <2>4. wstep \in 1 .. 3 => NewNode # head
    <3>1. CASE wstep \in 1 .. 2
      BY <3>1 DEF FInv, ListShape
    <3>2. CASE wstep = 3
      <4>1. Put = nodes[NewNode].lo /\ available - InCall = Put - lo /\ want <= available - InCall
        BY <1>1, <3>2 DEF Put, FInv, Positions
      <4> QED BY <1>1, <1>2, <2>0, <4>1
    <3> QED BY <3>1, <3>2
  <2>5. Put' = Put
    <3>1. CASE wstep \in 1 .. 3
      BY <1>1, <1>3, <2>0, <2>4, <3>1 DEF Put
    <3>2. CASE wstep \notin 1 .. 3
      BY <1>1, <3>2 DEF Put
    <3> QED BY <3>1, <3>2
  <2>6. Put = IF wstep = 3 THEN nodes'[tail].lo ELSE nodes'[tail].hi
    <3>1. wstep = 3 => tail # head
      BY <2>4 DEF FInv, ListShape
    <3> QED BY <1>3, <2>0, <3>1 DEF FInv, Positions
  <2>7. /\ available - InCall = Put - lo /\ 0 <= InCall /\ InCall <= lo /\ want <= available - InCall
    BY <1>1 DEF FInv, Positions
  <2>8. nodes'[head].lo = lo + want
    BY <1>3, <2>0
  <2>9. /\ available - InCall' = Put - (lo + want)
        /\ 0 <= InCall' /\ InCall' <= lo + want /\ InCall' <= available /\ 0 <= available - InCall'
    <3> HIDE DEF lo
    <3> QED BY <1>1, <1>2, <2>0, <2>1, <2>7, SMTT(30)
  <2>10. rpc' = "copy" => 0 <= want' /\ want' <= available - InCall'
    BY <1>1, <2>9
  <2> QED BY <1>1, <1>3, <2>2, <2>3, <2>5, <2>6, <2>8, <2>9, <2>10 DEF Positions
<1>8. OutputIsPast'
  BY <1>1, <1>3, <1>4, Scalars, ZenonT(30) DEF OutputIsPast
<1> QED BY <1>4, <1>5, <1>6, <1>7, <1>8 DEF FInv

\* The reader moves on to the next node: what it still wants was published,
\* so the list goes on there.
LEMMA CopyNodeStep ==
    ASSUME FInv, CopyNode
    PROVE  FInv'
<1> DEFINE next == nodes[head].next
           size == nodes[head].hi - nodes[head].lo
<1>1. /\ rpc = "copy" /\ want > 0 /\ size < want /\ want' = want - size
      /\ output' = output \o Copied(size)
      /\ head' = next /\ freed' = freed \cup {head}
      /\ UNCHANGED <<nodes, available, signals, tail, written, wstep, rpc, taken, draining>>
  BY DEF CopyNode, Size, writerVars
<1>2. /\ want \in Int /\ available \in Int /\ InCall \in Int /\ taken \in Int /\ written \in Nat
      /\ head \in DOMAIN nodes /\ tail \in DOMAIN nodes /\ NewNode \in DOMAIN nodes
      /\ nodes[head].lo \in Nat /\ nodes[head].hi \in Nat /\ nodes[head].lo <= nodes[head].hi
      /\ nodes[tail].lo \in Nat /\ nodes[tail].hi \in Nat /\ nodes[tail].lo <= nodes[tail].hi
      /\ nodes[NewNode].lo \in Nat
  BY Scalars, NodeBounds
<1>3. size \in Nat
  BY <1>2
<1>4. /\ available - InCall = Put - nodes[head].lo /\ 0 <= InCall /\ InCall <= nodes[head].lo
      /\ InCall <= available /\ want <= available - InCall
      /\ Put = IF wstep = 3 THEN nodes[tail].lo ELSE nodes[tail].hi
  BY <1>1 DEF FInv, Positions
<1>5. head # tail
  <2> SUFFICES ASSUME head = tail PROVE FALSE
    OBVIOUS
  <2>1. Put <= nodes[head].hi
    BY <1>2, <1>4
  <2> QED BY <1>1, <1>2, <1>4, <2>1
<1>6. /\ next # 0 /\ next \in Live /\ next # head /\ nodes[next].lo = nodes[head].hi
      /\ next = tail \/ nodes[next].next # 0
  <2>1. head \in Live /\ tail \in Live /\ next # 0
    BY <1>5 DEF FInv, ListShape
  <2>2. /\ next \in Live /\ next # head /\ nodes[next].lo = nodes[head].hi
        /\ next = tail \/ nodes[next].next # 0 \/ (Linked /\ next = NewNode)
    BY <2>1 DEF FInv, ListShape
  <2>3. ~(Linked /\ next = NewNode)
    BY <1>5, <2>1 DEF FInv, ListShape
  <2> QED BY <2>1, <2>2, <2>3
<1>7. Live' = Live \ {head} /\ NewNode' = NewNode
  BY <1>1 DEF Live, NewNode
<1>8. /\ output' \in Seq(Nat) /\ OutputIsInOrder'
      /\ \A i \in DOMAIN output' : output'[i] <= nodes[head].hi
  <2>1. nodes[head].lo + size = nodes[head].hi
    BY <1>2
  <2> HIDE DEF size
  <2> QED BY <1>1, <1>3, <2>1, OutputStep
<1>9. TypeOK'
  <2>1. next \in Nat /\ freed \subseteq DOMAIN nodes
    BY <1>2, Scalars, NodeBounds
  <2> HIDE DEF next
  <2>2. head' \in Nat /\ freed' \subseteq DOMAIN nodes
    BY <1>1, <1>2, <2>1
  <2> HIDE DEF size
  <2>3. want' \in Int
    BY <1>1, <1>2, <1>3
  <2> QED BY <1>1, <1>8, <2>2, <2>3 DEF FInv, TypeOK
<1>10. ListShape'
  <2>0. wstep' = wstep /\ tail' = tail /\ nodes' = nodes /\ head' = next
    BY <1>1
  <2> HIDE DEF next
  <2>1. next \in Live' /\ tail \in Live'
    BY <1>5, <1>6, <1>7 DEF FInv, ListShape
  \* Only the old head linked to the new one.
  <2>2. \A n \in Live' : nodes[n].next # 0 => nodes[n].next # next /\ nodes[n].next \in Live'
    <3> SUFFICES ASSUME NEW n \in Live', nodes[n].next # 0
                 PROVE  nodes[n].next # next /\ nodes[n].next \in Live'
      OBVIOUS
    <3>1. n \in Live /\ n # head /\ head \in Live
      BY <1>7 DEF FInv, ListShape
    <3>2. nodes[n].next \in Live /\ nodes[n].next # head
      BY <3>1 DEF FInv, ListShape
    <3>3. nodes[n].next # nodes[head].next
      BY <3>1 DEF FInv, ListShape
    <3> QED BY <1>7, <3>2, <3>3 DEF next
  <2>3. wstep \in 1 .. 2 => NewNode \in Live' /\ NewNode # next
    <3> SUFFICES ASSUME wstep \in 1 .. 2 PROVE NewNode \in Live' /\ NewNode # next
      OBVIOUS
    <3>1. NewNode \in Live /\ NewNode # head /\ NewNode # tail /\ nodes[NewNode].next = 0
      BY DEF FInv, ListShape
    <3> QED BY <1>6, <1>7, <3>1
  <2>4. next = tail \/ nodes[next].next # 0
    BY <1>6
  <2> QED BY <1>7, <2>0, <2>1, <2>2, <2>3, <2>4 DEF FInv, ListShape, Linked
<1>11. Positions'
  <2>1. Put' = Put /\ Put \in Int
    BY <1>1, <1>2, <1>7 DEF Put
  <2>2. InCall' = InCall + size
    BY <1>1, <1>2, <1>3 DEF InCall
  <2>3. nodes'[head'].lo = nodes[head].lo + size
    BY <1>1, <1>2, <1>6
  <2> DEFINE lo == nodes[head].lo
  <2>4. /\ available - (InCall + size) = Put - (lo + size)
        /\ 0 <= InCall + size /\ InCall + size <= lo + size /\ InCall + size <= available
        /\ 0 <= want - size /\ want - size <= available - (InCall + size)
    <3>1. lo \in Nat
      BY <1>2
    <3> HIDE DEF size, lo
    <3>2. /\ available - InCall = Put - lo /\ 0 <= InCall /\ InCall <= lo
          /\ InCall <= available /\ want <= available - InCall /\ size < want
      BY <1>1, <1>4 DEF lo
    <3> QED BY <1>2, <1>3, <2>1, <3>1, <3>2
  <2> HIDE DEF size
  <2>5. Put' = IF wstep' = 3 THEN nodes'[tail'].lo ELSE nodes'[tail'].hi
    BY <1>1, <1>4, <2>1
  <2>6. /\ \A n \in DOMAIN nodes' : nodes'[n].lo <= nodes'[n].hi /\ nodes'[n].hi <= written'
        /\ wstep' \in 1 .. 3 => nodes'[NewNode'].hi = written'
    BY <1>1, <1>7 DEF FInv, Positions
  <2> QED BY <1>1, <2>1, <2>2, <2>3, <2>4, <2>5, <2>6 DEF Positions
<1>12. OutputIsPast'
  BY <1>1, <1>6, <1>8 DEF OutputIsPast
<1> QED BY <1>8, <1>9, <1>10, <1>11, <1>12 DEF FInv

LEMMA EndReadStep ==
    ASSUME FInv, NoWrap, EndRead
    PROVE  FInv'
<1>1. /\ rpc = "copy" /\ want <= 0 /\ available' = Int32(available - taken) /\ rpc' = "idle"
      /\ UNCHANGED <<nodes, signals, tail, written, wstep, head, freed, want, taken, draining, output>>
  BY DEF EndRead, writerVars
<1>2. /\ available \in Int /\ written \in Nat /\ taken \in Int /\ want \in Int
      /\ nodes[head].lo \in Nat /\ Put \in Int /\ MaxBytes \in Nat /\ written <= MaxBytes /\ IntMax \in Nat
      /\ available <= Put /\ 0 <= available
  BY Scalars, NodeBounds, FifoAssumption DEF Put
<1>3. /\ want = 0 /\ InCall = taken /\ InCall <= available /\ 0 <= InCall
      /\ available - InCall = Put - nodes[head].lo
  <2>1. 0 <= want
    BY <1>1 DEF FInv, Positions
  <2>2. want = 0
    BY <1>1, <1>2, <2>1
  <2>3. InCall = taken
    BY <1>1, <1>2, <2>2 DEF InCall
  <2> QED BY <2>2, <2>3 DEF FInv, Positions
<1>4. Put <= written
  BY Scalars, NodeBounds, SMTT(30) DEF Put
<1>5. available' = available - taken
  BY <1>1, <1>2, <1>3, <1>4 DEF Int32, NoWrap
<1>6. TypeOK'
  BY <1>1, <1>2, <1>5 DEF FInv, TypeOK
<1>7. ListShape' /\ OutputIsPast' /\ OutputIsInOrder'
  BY <1>1 DEF FInv, ListShape, Live, Linked, NewNode, OutputIsPast, OutputIsInOrder
<1>8. Positions'
  <2>1. Put' = Put /\ NewNode' = NewNode /\ InCall' = 0
    BY <1>1 DEF Put, NewNode, InCall
  <2> QED BY <1>1, <1>2, <1>3, <1>5, <2>1 DEF FInv, Positions
<1> QED BY <1>6, <1>7, <1>8 DEF FInv

LEMMA ClearStep ==
    ASSUME FInv, Clear
    PROVE  FInv'
<1> DEFINE empty == [lo |-> written, hi |-> written, next |-> 0]
<1>1. /\ rpc = "idle" /\ wstep = 0 /\ available' = 0 /\ tail' = head
      /\ nodes' = [nodes EXCEPT ![head] = empty]
      /\ freed' = freed \cup {n \in DOMAIN nodes : n # head /\ nodes[n].next # 0}
      /\ UNCHANGED <<signals, written, wstep, head, rpc, want, taken, draining, output>>
  BY DEF Clear, NodesAfterClear
<1>2. /\ written \in Nat /\ head \in DOMAIN nodes /\ nodes[head].lo \in Nat /\ nodes[head].lo <= written
      /\ empty \in [lo : Nat, hi : Nat, next : Nat]
  <2>1. /\ written \in Nat /\ head \in DOMAIN nodes /\ nodes[head].lo \in Nat
        /\ nodes[head].lo <= nodes[head].hi /\ nodes[head].hi <= written /\ nodes[head].hi \in Nat
    BY Scalars, NodeBounds
  <2> QED BY <2>1
<1>3. /\ nodes' \in Seq([lo : Nat, hi : Nat, next : Nat])
      /\ DOMAIN nodes' = DOMAIN nodes /\ NewNode' = NewNode
      /\ \A n \in DOMAIN nodes : nodes'[n] = IF n = head THEN empty ELSE nodes[n]
  <2>1. nodes \in Seq([lo : Nat, hi : Nat, next : Nat])
    BY DEF FInv, TypeOK
  <2>2. nodes' \in Seq([lo : Nat, hi : Nat, next : Nat]) /\ Len(nodes') = Len(nodes)
    BY <1>1, <1>2, <2>1, Scalars, ExceptSeq
  <2> QED BY <1>1, <2>2 DEF NewNode
<1>4. TypeOK'
  <2>1. freed' \subseteq DOMAIN nodes' /\ tail' \in Nat
    BY <1>1, <1>3, Scalars DEF FInv, TypeOK
  <2> QED BY <1>1, <1>3, <2>1 DEF FInv, TypeOK
<1>5. ListShape'
  <2>1. head \in Live' /\ \A n \in Live' : n \in DOMAIN nodes /\ nodes'[n].next = 0
    BY <1>1, <1>3, Scalars DEF FInv, ListShape, Live
  <2> QED BY <1>1, <2>1 DEF ListShape, Linked
<1>6. Positions'
  <2>1. Put' = written /\ InCall' = 0
    BY <1>1 DEF Put, InCall
  <2>2. nodes'[head].lo = written /\ nodes'[head].hi = written
    BY <1>2, <1>3
  <2>3. \A n \in DOMAIN nodes : nodes'[n].lo <= nodes'[n].hi /\ nodes'[n].hi <= written
    <3> TAKE n \in DOMAIN nodes
    <3>1. CASE n = head
      BY <1>2, <2>2, <3>1
    <3>2. CASE n # head
      BY <1>3, <3>2, NodeBounds
    <3> QED BY <3>1, <3>2
  <2>4. tail' = head /\ DOMAIN nodes' = DOMAIN nodes /\ wstep' = 0 /\ head' = head /\ written' = written
    BY <1>1, <1>3
  <2>5. Put' = nodes'[tail'].hi /\ available' - InCall' = Put' - nodes'[head'].lo /\ rpc' # "copy"
    BY <1>1, <1>2, <2>1, <2>2, <2>4
  <2> QED BY <1>1, <1>2, <2>1, <2>2, <2>3, <2>4, <2>5 DEF Positions
<1>7. OutputIsPast' /\ OutputIsInOrder'
  <2>1. \A i \in DOMAIN output : output[i] <= nodes[head].lo /\ output[i] \in Nat
    BY NodeTypes DEF FInv, OutputIsPast
  <2>2. nodes'[head'].lo = written
    BY <1>1, <1>2, <1>3
  <2>3. OutputIsPast'
    BY <1>1, <1>2, <2>1, <2>2 DEF OutputIsPast
  <2> QED BY <1>1, <2>3 DEF FInv, OutputIsInOrder
<1> QED BY <1>4, <1>5, <1>6, <1>7 DEF FInv

\* readyRead() is about no byte: only the writer's place and the reader's loop
\* change.
LEMMA QuietStep ==
    ASSUME FInv, Signal \/ ReadyRead
    PROVE  FInv'
<1>1. /\ UNCHANGED <<nodes, available, tail, written, head, freed, rpc, want, taken, output>>
      /\ wstep' = wstep \/ (wstep = 4 /\ wstep' = 0)
      /\ draining' \in BOOLEAN /\ signals' \in Nat
  <2>1. CASE Signal
    BY <2>1, StepNumbers DEF Signal, Advance, readerVars, FInv, TypeOK
  <2>2. CASE ReadyRead
    <3>1. signals > 0 /\ signals \in Nat /\ signals' = signals - 1
      BY <2>2 DEF ReadyRead, FInv, TypeOK
    <3>2. signals' \in Nat
      BY <3>1
    <3> QED BY <2>2, <3>2 DEF ReadyRead, writerVars
  <2> QED BY <2>1, <2>2
<1>2. TypeOK'
  BY <1>1 DEF FInv, TypeOK
<1>3. ListShape' /\ OutputIsPast' /\ OutputIsInOrder'
  BY <1>1 DEF FInv, ListShape, Live, Linked, NewNode, OutputIsPast, OutputIsInOrder
<1>4. Put' = Put /\ InCall' = InCall /\ NewNode' = NewNode
  BY <1>1 DEF Put, InCall, NewNode
<1>5. Positions'
  BY <1>1, <1>4 DEF FInv, Positions
<1> QED BY <1>2, <1>3, <1>5 DEF FInv

LEMMA StutterStep ==
    ASSUME FInv, UNCHANGED vars
    PROVE  FInv'
BY DEF vars, writerVars, readerVars, FInv, TypeOK, ListShape, Live, Linked, NewNode, Positions, Put,
       InCall, OutputIsPast, OutputIsInOrder

-----------------------------------------------------------------------------
LEMMA FInvInitially == Init => FInv
<1> SUFFICES ASSUME Init PROVE FInv
  OBVIOUS
<1> DEFINE first == [lo |-> 0, hi |-> 0, next |-> 0]
<1>1. nodes = <<first>> /\ Len(nodes) = 1 /\ DOMAIN nodes = {1} /\ nodes[1] = first
  BY DEF Init
<1>2. first \in [lo : Nat, hi : Nat, next : Nat] /\ first.lo = 0 /\ first.hi = 0 /\ first.next = 0
  OBVIOUS
<1> HIDE DEF first
<1>3. TypeOK
  <2>1. nodes \in Seq([lo : Nat, hi : Nat, next : Nat])
    BY <1>1, <1>2
  <2>2. output \in Seq(Nat) /\ written \in 0 .. MaxBytes
    BY FifoAssumption DEF Init
  <2>3. freed \subseteq DOMAIN nodes /\ head \in Nat /\ tail \in Nat /\ available \in Int /\ wstep \in 0 .. 4
    BY DEF Init
  <2>4. rpc \in {"idle", "copy"} /\ want \in Int /\ taken \in Int /\ signals \in Nat
    BY DEF Init
  <2>5. draining \in BOOLEAN
    BY Zenon DEF Init
  <2> QED BY <2>1, <2>2, <2>3, <2>4, <2>5 DEF TypeOK
<1>4. ListShape
  BY <1>1, <1>2 DEF Init, ListShape, Live, Linked
<1>5. Positions
  BY <1>1, <1>2 DEF Init, Positions, Put, InCall
<1>6. OutputIsPast /\ OutputIsInOrder
  BY DEF Init, OutputIsPast, OutputIsInOrder
<1> QED BY <1>3, <1>4, <1>5, <1>6 DEF FInv

LEMMA FInvStep == NoWrap /\ FInv /\ [Next]_vars => FInv'
<1> SUFFICES ASSUME NoWrap, FInv, [Next]_vars PROVE FInv'
  OBVIOUS
<1>1. CASE \E n \in 1 .. MaxSize : BeginWrite(n)
  BY <1>1, BeginWriteStep
<1>2. CASE Writer
  BY <1>2, LinkStep, SwingTailStep, PublishStep, QuietStep DEF Writer
<1>3. CASE Reading
  BY <1>3, BeginReadStep, CopyPartStep, CopyNodeStep, EndReadStep DEF Reading
<1>4. CASE OwnRead
  BY <1>4, BeginReadStep DEF OwnRead
<1>5. CASE ReadyRead
  BY <1>5, QuietStep
<1>6. CASE Clear
  BY <1>6, ClearStep
<1>7. CASE UNCHANGED vars
  BY <1>7, StutterStep
<1> QED BY <1>1, <1>2, <1>3, <1>4, <1>5, <1>6, <1>7 DEF Next

LEMMA FInvHolds == ASSUME NoWrap PROVE Spec => []FInv
<1>1. FInv /\ [Next]_vars => FInv'
  BY FInvStep
<1> QED BY <1>1, FInvInitially, PTL DEF Spec

\* The state of the queue has its type, for all sizes of reads and writes.
THEOREM TypeCorrect == ASSUME NoWrap PROVE Spec => []TypeOK
<1>1. FInv => TypeOK
  BY DEF FInv
<1> QED BY <1>1, FInvHolds, PTL

\* QxtFifo without a lock: neither readData() nor writeData() ever touches a
\* node that the other thread deleted, or follows a null link.
THEOREM ListStaysLive == ASSUME NoWrap PROVE Spec => []ListIsLive
<1>1. FInv => ListIsLive
  BY DEF FInv, ListShape, Live, Linked, ListIsLive
<1> QED BY <1>1, FInvHolds, PTL

\* readData() returns the bytes in the order writeData() got them, none twice.
THEOREM OutputStaysInOrder == ASSUME NoWrap PROVE Spec => []OutputIsInOrder
<1>1. FInv => OutputIsInOrder
  BY DEF FInv
<1> QED BY <1>1, FInvHolds, PTL

\* While less than an int of bytes is written, the count does not wrap: the
\* bound that writeData() does not enforce is all that is missing.
THEOREM CountStaysPositive == ASSUME NoWrap PROVE Spec => []CountNeverWraps
<1>1. FInv => CountNeverWraps
  BY Scalars DEF CountNeverWraps
<1> QED BY <1>1, FInvHolds, PTL

-----------------------------------------------------------------------------
(* The byte queue implements ByteQueue.  What the list holds is defined by *)
(* recursion along its links, which lead to later nodes (Forward): that it *)
(* holds the rest of the bytes from a node on is shown by induction from   *)
(* the last node backwards.  The induction is on a set of numbers, by way  *)
(* of its complement's least number.                                       *)

LEMMA LeastNumber ==
    ASSUME NEW T, T \subseteq Nat, T # {}
    PROVE  \E x \in T : \A y \in T : x <= y
<1>1. PICK x \in T : \A y \in T : ~(<<y, x>> \in OpToRel(<, Nat))
  BY WFMin, NatLessThanWellFounded, Zenon
<1>2. \A y \in T : ~(y < x)
  BY <1>1 DEF OpToRel
<1>3. \A y \in T : x <= y
  <2> SUFFICES ASSUME NEW y \in T PROVE x <= y
    OBVIOUS
  <2>1. x \in Nat /\ y \in Nat
    OBVIOUS
  <2>2. ~(y < x)
    BY <1>2
  <2> QED
    BY <2>1, <2>2
<1> QED
  BY <1>3

LEMMA Induction ==
    ASSUME NEW T, 0 \in T, \A n \in Nat : n \in T => n + 1 \in T
    PROVE  Nat \subseteq T
<1> SUFFICES ASSUME Nat \ T # {} PROVE FALSE
  OBVIOUS
<1>1. PICK x \in Nat \ T : \A y \in Nat \ T : x <= y
  BY LeastNumber
<1>2. x # 0
  BY <1>1
<1>3. x - 1 \in Nat /\ x - 1 + 1 = x /\ ~(x <= x - 1)
  BY <1>1, <1>2
<1>4. x - 1 \in T
  BY <1>1, <1>3
<1> QED
  BY <1>1, <1>3, <1>4

-----------------------------------------------------------------------------
\* The bytes a+1 .. b.
Stream(a, b) == [i \in 1 .. b - a |-> a + i]

LEMMA StreamIs ==
    ASSUME NEW a \in Nat, NEW b \in Nat, a <= b
    PROVE  /\ Stream(a, b) \in Seq(Nat) /\ Len(Stream(a, b)) = b - a
           /\ \A i \in 1 .. b - a : Stream(a, b)[i] = a + i
<1>1. b - a \in Nat /\ \A i \in 1 .. b - a : a + i \in Nat
  OBVIOUS
<1>2. [i \in 1 .. b - a |-> a + i] \in Seq(Nat)
  BY <1>1, IsASeq
<1> QED
  BY <1>1, <1>2, LenProperties DEF Stream

LEMMA StreamsJoin ==
    ASSUME NEW a \in Nat, NEW b \in Nat, NEW c \in Nat, a <= b, b <= c
    PROVE  Stream(a, b) \o Stream(b, c) = Stream(a, c)
<1> DEFINE s == Stream(a, b)
           t == Stream(b, c)
           u == Stream(a, c)
<1>0. a <= c
  OBVIOUS
<1>1. /\ s \in Seq(Nat) /\ Len(s) = b - a /\ \A i \in 1 .. b - a : s[i] = a + i
      /\ t \in Seq(Nat) /\ Len(t) = c - b /\ \A i \in 1 .. c - b : t[i] = b + i
      /\ u \in Seq(Nat) /\ Len(u) = c - a /\ \A i \in 1 .. c - a : u[i] = a + i
  <2>1. s \in Seq(Nat) /\ Len(s) = b - a /\ \A i \in 1 .. b - a : s[i] = a + i
    BY StreamIs
  <2>2. t \in Seq(Nat) /\ Len(t) = c - b /\ \A i \in 1 .. c - b : t[i] = b + i
    BY StreamIs
  <2>3. u \in Seq(Nat) /\ Len(u) = c - a /\ \A i \in 1 .. c - a : u[i] = a + i
    BY <1>0, StreamIs
  <2> HIDE DEF s, t, u
  <2> QED
    BY <2>1, <2>2, <2>3
<1> HIDE DEF s, t, u
<1>2. /\ s \o t \in Seq(Nat) /\ Len(s \o t) = Len(s) + Len(t)
      /\ \A i \in 1 .. Len(s) + Len(t) : (s \o t)[i] = IF i <= Len(s) THEN s[i] ELSE t[i - Len(s)]
  BY <1>1, ConcatProperties
<1>3. Len(s \o t) = Len(u)
  BY <1>1, <1>2
<1>4. ASSUME NEW i \in 1 .. c - a PROVE (s \o t)[i] = u[i]
  <2>1. CASE i <= b - a
    BY <1>1, <1>2, <2>1
  <2>2. CASE ~(i <= b - a)
    <3> DEFINE k == i - (b - a)
    <3>1. k \in 1 .. c - b /\ b + k = a + i /\ i \in 1 .. Len(s) + Len(t)
      BY <1>1, <2>2
    <3>2. (s \o t)[i] = t[k]
      BY <1>1, <1>2, <2>2, <3>1
    <3> HIDE DEF k
    <3> QED
      BY <1>1, <3>1, <3>2
  <2> QED
    BY <2>1, <2>2
<1>5. s \o t = u
  <2>1. \A i \in 1 .. Len(s \o t) : (s \o t)[i] = u[i]
    BY <1>1, <1>3, <1>4
  <2> QED
    BY <1>1, <1>2, <1>3, <2>1, SeqEqual
<1> QED
  BY <1>5 DEF s, t, u

LEMMA StreamPart ==
    ASSUME NEW a \in Nat, NEW b \in Nat, NEW m \in Nat, NEW n \in Nat, m <= n, a + n <= b
    PROVE  SubSeq(Stream(a, b), m + 1, n) = Stream(a + m, a + n)
<1> DEFINE s == Stream(a, b)
           t == SubSeq(s, m + 1, n)
           u == Stream(a + m, a + n)
<1>0. a <= b /\ a + m \in Nat /\ a + n \in Nat /\ a + m <= a + n /\ (a + n) - (a + m) = n - m
  OBVIOUS
<1>1. /\ s \in Seq(Nat) /\ Len(s) = b - a /\ \A i \in 1 .. b - a : s[i] = a + i
      /\ u \in Seq(Nat) /\ Len(u) = n - m /\ \A i \in 1 .. n - m : u[i] = (a + m) + i
  <2>1. s \in Seq(Nat) /\ Len(s) = b - a /\ \A i \in 1 .. b - a : s[i] = a + i
    BY <1>0, StreamIs
  <2> DEFINE p == a + m
             q == a + n
  <2>2. p \in Nat /\ q \in Nat /\ p <= q /\ q - p = n - m /\ u = Stream(p, q)
    BY <1>0
  <2> HIDE DEF p, q, s, u
  <2>3. u \in Seq(Nat) /\ Len(u) = q - p /\ \A i \in 1 .. q - p : u[i] = p + i
    BY <2>2, StreamIs
  <2> QED
    BY <2>1, <2>2, <2>3 DEF p
<1> HIDE DEF s, u
<1>2. ASSUME NEW i \in m + 1 .. n PROVE i \in 1 .. b - a /\ s[i] \in Nat /\ s[i] = a + i
  <2>1. i \in 1 .. b - a
    BY <1>0
  <2> QED
    BY <1>1, <2>1
<1>3. /\ t \in Seq(Nat) /\ Len(t) = IF m + 1 <= n THEN n - (m + 1) + 1 ELSE 0
      /\ \A i \in 1 .. n - (m + 1) + 1 : t[i] = s[m + 1 + i - 1]
  BY <1>2, SubSeqProperties
<1> HIDE DEF t
<1>4. Len(t) = n - m /\ \A i \in 1 .. n - m : t[i] = u[i]
  <2>1. Len(t) = n - m
    BY <1>3
  <2>2. ASSUME NEW i \in 1 .. n - m PROVE t[i] = u[i]
    <3> DEFINE k == m + i
    <3>1. k \in m + 1 .. n /\ m + 1 + i - 1 = k /\ i \in 1 .. n - (m + 1) + 1 /\ a + k = (a + m) + i
      OBVIOUS
    <3> HIDE DEF k
    <3>2. t[i] = s[k]
      BY <1>3, <3>1
    <3> QED
      BY <1>1, <1>2, <3>1, <3>2
  <2> QED
    BY <2>1, <2>2
<1>5. t = u
  BY <1>1, <1>3, <1>4, SeqEqual
<1> QED
  BY <1>5 DEF s, t, u

LEMMA StreamPrefix ==
    ASSUME NEW a \in Nat, NEW b \in Nat, NEW n \in Nat, a + n <= b
    PROVE  SubSeq(Stream(a, b), 1, n) = Stream(a, a + n)
<1> DEFINE m == 0
<1>1. m \in Nat /\ m <= n /\ m + 1 = 1 /\ a + m = a
  OBVIOUS
<1> HIDE DEF m
<1>2. SubSeq(Stream(a, b), m + 1, n) = Stream(a + m, a + n)
  BY <1>1, StreamPart, ZenonT(30)
<1> QED
  BY <1>1, <1>2

-----------------------------------------------------------------------------
(* The list holds the bytes from its first node on.                        *)

\* Links lead to later nodes.
Forward == \A n \in DOMAIN nodes : nodes[n].next = 0 \/ nodes[n].next \in n + 1 .. Len(nodes)

ContentsFrom(f, n) == IF n = 0 THEN <<>> ELSE [i \in 1 .. Size(n) |-> nodes[n].lo + i] \o f[nodes[n].next]

LEMMA ContentsExist ==
    ASSUME Forward, NEW N \in Nat, N = Len(nodes), DOMAIN nodes = 1 .. N
    PROVE  \E f : f = [n \in 0 .. N |-> ContentsFrom(f, n)]
<1> DEFINE Dom(j) == {0} \cup (N + 1 - j .. N)
           T == {j \in Nat : j <= N => \E f : f = [n \in Dom(j) |-> ContentsFrom(f, n)]}
<1>1. 0 \in T
  <2>1. Dom(0) = {0}
    OBVIOUS
  <2>2. [n \in {0} |-> <<>>] = [n \in {0} |-> ContentsFrom([k \in {0} |-> <<>>], n)]
    BY DEF ContentsFrom
  <2> HIDE DEF Dom
  <2> QED
    BY <2>1, <2>2
<1>2. ASSUME NEW j \in Nat, j \in T PROVE j + 1 \in T
  <2> HIDE DEF Dom
  <2> SUFFICES ASSUME j + 1 <= N PROVE \E f : f = [n \in Dom(j + 1) |-> ContentsFrom(f, n)]
    OBVIOUS
  <2> USE DEF Dom
  <2>1. PICK f : f = [n \in Dom(j) |-> ContentsFrom(f, n)]
    BY <1>2
  <2> DEFINE m == N - j
             g == [n \in Dom(j + 1) |-> IF n = m THEN ContentsFrom(f, n) ELSE f[n]]
  <2>2. m \in 1 .. N /\ Dom(j + 1) = Dom(j) \cup {m} /\ m \notin Dom(j) /\ 0 \in Dom(j)
    OBVIOUS
  <2>3. \A n \in Dom(j + 1) : n # 0 => n \in DOMAIN nodes /\ nodes[n].next \in Dom(j)
    <3> SUFFICES ASSUME NEW n \in Dom(j + 1), n # 0 PROVE n \in DOMAIN nodes /\ nodes[n].next \in Dom(j)
      OBVIOUS
    <3>1. n \in 1 .. N /\ n >= N - j
      OBVIOUS
    <3>2. nodes[n].next = 0 \/ nodes[n].next \in n + 1 .. N
      BY <3>1 DEF Forward
    <3> QED
      BY <3>1, <3>2
  <2>4. \A n \in Dom(j) : g[n] = f[n] /\ f[n] = ContentsFrom(f, n)
    <3> HIDE DEF Dom, m
    <3> QED
      BY <2>1, <2>2
  <2>5. \A n \in Dom(j + 1) : ContentsFrom(g, n) = ContentsFrom(f, n)
    <3> HIDE DEF Dom, g
    <3> QED
      BY <2>3, <2>4 DEF ContentsFrom
  <2>6. \A n \in Dom(j + 1) : g[n] = ContentsFrom(g, n)
    <3> SUFFICES ASSUME NEW n \in Dom(j + 1) PROVE g[n] = ContentsFrom(f, n)
      BY <2>5
    <3>1. CASE n = m
      <4> HIDE DEF Dom, m
      <4> QED
        BY <3>1
    <3>2. CASE n # m
      <4> HIDE DEF Dom, m, g
      <4> QED
        BY <2>2, <2>4, <3>2
    <3> QED
      BY <3>1, <3>2
  <2>7. g = [n \in Dom(j + 1) |-> g[n]]
    <3> HIDE DEF Dom, m
    <3> QED
      OBVIOUS
  <2> HIDE DEF g, Dom
  <2>8. g = [n \in Dom(j + 1) |-> ContentsFrom(g, n)]
    BY <2>6, <2>7
  <2> QED
    BY <2>8
<1>3. N \in T
  <2> HIDE DEF T
  <2> QED
    BY <1>1, <1>2, Induction
<1>4. Dom(N) = 0 .. N
  OBVIOUS
<1> HIDE DEF Dom
<1> QED
  BY <1>3, <1>4

LEMMA ContentsAre ==
    ASSUME Forward, NEW N \in Nat, N = Len(nodes), DOMAIN nodes = 1 .. N
    PROVE  \A n \in 0 .. N : Contents[n] = ContentsFrom(Contents, n)
<1> DEFINE c == CHOOSE f : f = [n \in 0 .. Len(nodes) |-> ContentsFrom(f, n)]
<1>1. Contents = c
  BY DEF Contents, ContentsFrom
<1>2. c = [n \in 0 .. N |-> ContentsFrom(c, n)]
  <2>1. \E f : f = [n \in 0 .. Len(nodes) |-> ContentsFrom(f, n)]
    BY ContentsExist, Zenon
  <2> QED
    BY <2>1, Zenon
<1> HIDE DEF c
<1>3. \A n \in 0 .. N : c[n] = ContentsFrom(c, n)
  BY <1>2
<1> QED
  BY <1>1, <1>3

-----------------------------------------------------------------------------
(* What the refinement needs besides FInv.                                 *)

\* The bytes copied by the call under way end where the list begins.
Recent ==
    /\ InCall <= Len(output)
    /\ \A i \in Len(output) - InCall + 1 .. Len(output) : output[i] = nodes[head].lo - Len(output) + i

\* The sizes of the calls under way.
Sizes ==
    /\ wstep \in 1 .. 3 => Size(NewNode) \in 1 .. MaxSize
    /\ rpc = "copy" => taken \in 1 .. MaxSize

QInv == FInv /\ Forward /\ Recent /\ Sizes

LEMMA QInvInitially == Init => QInv
<1> SUFFICES ASSUME Init PROVE QInv
  OBVIOUS
<1>1. FInv
  BY FInvInitially
<1>2. Forward
  BY DEF Init, Forward
<1>3. Recent
  BY DEF Init, Recent, InCall
<1>4. Sizes
  BY DEF Init, Sizes
<1> QED
  BY <1>1, <1>2, <1>3, <1>4 DEF QInv

\* The links, step by step.
LEMMA ForwardStep ==
    ASSUME FInv, NoWrap, Forward, [Next]_vars
    PROVE  Forward'
<1>0. /\ Len(nodes) \in Nat /\ DOMAIN nodes = 1 .. Len(nodes) /\ head \in DOMAIN nodes /\ tail \in DOMAIN nodes
      /\ nodes \in Seq([lo : Nat, hi : Nat, next : Nat])
  BY Scalars DEF FInv, TypeOK
<1>1. ASSUME NEW n \in 1 .. MaxSize, BeginWrite(n) PROVE Forward'
  <2> DEFINE size == IF n > IntMax THEN IntMax ELSE n
             new == [lo |-> written, hi |-> written + size, next |-> 0]
  <2>1. nodes' = Append(nodes, new) /\ new.next = 0
    BY <1>1 DEF BeginWrite
  <2> HIDE DEF new
  <2>2. new \in [lo : Nat, hi : Nat, next : Nat]
    <3>1. written \in Nat /\ size \in Nat /\ written + size \in Nat
      BY Scalars, FifoAssumption
    <3> QED
      BY <3>1 DEF new
  <2>3. /\ Len(nodes') = Len(nodes) + 1 /\ DOMAIN nodes' = 1 .. Len(nodes) + 1
        /\ \A i \in 1 .. Len(nodes) : nodes'[i] = nodes[i]
        /\ nodes'[Len(nodes) + 1] = new
    BY <1>0, <2>1, <2>2, AppendProperties
  <2> SUFFICES ASSUME NEW i \in DOMAIN nodes'
               PROVE  nodes'[i].next = 0 \/ nodes'[i].next \in i + 1 .. Len(nodes')
    BY DEF Forward
  <2>4. CASE i = Len(nodes) + 1
    BY <2>1, <2>3, <2>4
  <2>5. CASE i \in 1 .. Len(nodes)
    <3>1. nodes[i].next = 0 \/ nodes[i].next \in i + 1 .. Len(nodes)
      BY <1>0, <2>5 DEF Forward
    <3>2. nodes'[i] = nodes[i] /\ Len(nodes') = Len(nodes) + 1
      BY <2>3, <2>5
    <3>3. \A p, q, k \in Nat : k = 0 \/ k \in q + 1 .. p => k = 0 \/ k \in q + 1 .. p + 1
      OBVIOUS
    <3>4. nodes[i].next \in Nat /\ i \in Nat
      BY <1>0, <2>5, NodeBounds
    <3>5. nodes[i].next = 0 \/ nodes[i].next \in i + 1 .. Len(nodes) + 1
      BY <1>0, <3>1, <3>3, <3>4
    <3> QED
      BY <3>2, <3>5
  <2> QED
    BY <1>0, <2>3, <2>4, <2>5
<1>2. CASE Link
  <2>1. wstep = 1 /\ nodes' = [nodes EXCEPT ![tail].next = Len(nodes)]
    BY <1>2, StepNumbers DEF Link, FInv, NewNode
  <2>2. Len(nodes) # tail
    BY <2>1 DEF FInv, ListShape, NewNode
  <2>3. Len(nodes') = Len(nodes) /\ DOMAIN nodes' = DOMAIN nodes
        /\ \A i \in DOMAIN nodes : nodes'[i].next = IF i = tail THEN Len(nodes) ELSE nodes[i].next
    <3> DEFINE r == [nodes[tail] EXCEPT !.next = Len(nodes)]
    <3>1. nodes[tail] \in [lo : Nat, hi : Nat, next : Nat]
      BY <1>0, NodeBounds
    <3>2. r \in [lo : Nat, hi : Nat, next : Nat] /\ r.next = Len(nodes)
      BY <1>0, <3>1
    <3>3. nodes' = [nodes EXCEPT ![tail] = r]
      BY <2>1
    <3> HIDE DEF r
    <3>4. nodes' \in Seq([lo : Nat, hi : Nat, next : Nat]) /\ Len(nodes') = Len(nodes)
      BY <1>0, <3>2, <3>3, ExceptSeq
    <3> QED
      BY <1>0, <3>2, <3>3, <3>4
  <2>4. Len(nodes) \in tail + 1 .. Len(nodes)
    BY <1>0, <2>2
  <2> QED
    BY <1>0, <2>3, <2>4 DEF Forward
<1>3. CASE CopyPart
  <2>1. nodes' = [nodes EXCEPT ![head].lo = nodes[head].lo + want]
    BY <1>3 DEF CopyPart
  <2>2. Len(nodes') = Len(nodes) /\ DOMAIN nodes' = DOMAIN nodes
        /\ \A i \in DOMAIN nodes : nodes'[i].next = nodes[i].next
    <3>1. \A i \in DOMAIN nodes : nodes[i] \in [lo : Nat, hi : Nat, next : Nat]
      BY NodeBounds
    <3> DEFINE r == [nodes[head] EXCEPT !.lo = nodes[head].lo + want]
    <3>2. r \in [lo : Nat, hi : Nat, next : Nat] /\ r.next = nodes[head].next
      <4>1. want \in Nat /\ nodes[head].lo + want \in Nat
        <5>1. want \in Int /\ want > 0 /\ nodes[head].lo \in Nat
          BY <1>0, <1>3, Scalars, NodeBounds DEF CopyPart
        <5> QED
          BY <5>1
      <4> QED
        BY <1>0, <3>1, <4>1
    <3>3. nodes' = [nodes EXCEPT ![head] = r]
      BY <2>1
    <3> HIDE DEF r
    <3>4. nodes' \in Seq([lo : Nat, hi : Nat, next : Nat]) /\ Len(nodes') = Len(nodes)
      BY <1>0, <3>2, <3>3, ExceptSeq
    <3> QED
      BY <1>0, <3>2, <3>3, <3>4
  <2> QED
    BY <1>0, <2>2 DEF Forward
<1>4. CASE Clear
  <2> DEFINE empty == [lo |-> written, hi |-> written, next |-> 0]
  <2>1. nodes' = [nodes EXCEPT ![head] = empty] /\ empty.next = 0
    BY <1>4 DEF Clear, NodesAfterClear
  <2>2. empty \in [lo : Nat, hi : Nat, next : Nat]
    BY Scalars
  <2> HIDE DEF empty
  <2>3. Len(nodes') = Len(nodes) /\ DOMAIN nodes' = DOMAIN nodes
        /\ \A i \in DOMAIN nodes : nodes'[i].next = 0 \/ nodes'[i].next = nodes[i].next
    <3>1. nodes' \in Seq([lo : Nat, hi : Nat, next : Nat]) /\ Len(nodes') = Len(nodes)
      BY <1>0, <2>1, <2>2, ExceptSeq
    <3> QED
      BY <1>0, <2>1, <3>1
  <2> QED
    BY <1>0, <2>3 DEF Forward
<1>5. CASE UNCHANGED nodes
  BY <1>5 DEF Forward
<1>6. \/ \E n \in 1 .. MaxSize : BeginWrite(n)
      \/ Link \/ CopyPart \/ Clear \/ UNCHANGED nodes
  BY DEF Next, Writer, Reading, OwnRead, SwingTail, Publish, Signal, BeginRead, CopyNode, EndRead, ReadyRead, vars
<1> QED
  BY <1>1, <1>2, <1>3, <1>4, <1>5, <1>6

-----------------------------------------------------------------------------
(* What a step does to the numbers of the bytes.                           *)

Front == nodes[head].lo

Quiet == Put' = Put /\ InCall' = InCall /\ Front' = Front /\ output' = output

Copies(k) ==
    /\ rpc = "copy" /\ rpc' = "copy" /\ taken' = taken
    /\ Put' = Put /\ InCall' = InCall + k /\ Front' = Front + k
    /\ output' = output \o Copied(k)

Publishes ==
    /\ wstep = 3
    /\ Put' = Put + Size(NewNode) /\ InCall' = InCall /\ Front' = Front /\ output' = output

Returns ==
    /\ rpc = "copy" /\ InCall = taken
    /\ Put' = Put /\ InCall' = 0 /\ Front' = Front /\ output' = output

Empties == Put' = Put /\ InCall = 0 /\ InCall' = 0 /\ Front' = Put /\ output' = output

\* How many bytes can be read.
Numbered ==
    /\ Front \in Nat /\ InCall \in Nat /\ Put \in Nat /\ available \in Nat
    /\ InCall <= Front /\ Front <= Put /\ InCall <= available
    /\ available - InCall = Put - Front

LEMMA Numbers == FInv => Numbered
<1> SUFFICES ASSUME FInv PROVE Numbered
  OBVIOUS
<1>1. /\ Front \in Nat /\ nodes[NewNode].lo \in Nat /\ written \in Nat
      /\ InCall \in Int /\ available \in Int
  BY Scalars, NodeBounds DEF Front
<1>2. Put \in Nat
  BY <1>1 DEF Put
<1>3. 0 <= InCall /\ InCall <= Front /\ InCall <= available /\ available - InCall = Put - Front
  BY DEF FInv, Positions, Front
<1> QED
  BY <1>1, <1>2, <1>3 DEF Numbered

LEMMA NumbersAfter == FInv' => Numbered'
BY Numbers, PTL

LEMMA BeginWriteIsQuiet ==
    ASSUME FInv, FInv', NEW n \in 1 .. MaxSize, BeginWrite(n)
    PROVE  Quiet
<1> DEFINE size == IF n > IntMax THEN IntMax ELSE n
           new == [lo |-> written, hi |-> written + size, next |-> 0]
<1>1. /\ wstep = 0 /\ nodes' = Append(nodes, new)
      /\ UNCHANGED <<available, head, rpc, want, taken, output>>
  BY DEF BeginWrite, readerVars
<1>2. nodes'[head] = nodes[head]
  <2>1. new \in [lo : Nat, hi : Nat, next : Nat]
    <3>1. written \in Nat /\ size \in Nat /\ written + size \in Nat
      BY Scalars, FifoAssumption
    <3> QED
      BY <3>1
  <2>2. nodes \in Seq([lo : Nat, hi : Nat, next : Nat]) /\ head \in 1 .. Len(nodes)
    BY Scalars DEF FInv, TypeOK
  <2> HIDE DEF new
  <2> QED
    BY <1>1, <2>1, <2>2, AppendProperties
<1>3. InCall' = InCall /\ Front' = Front /\ output' = output /\ available' = available
  BY <1>1, <1>2 DEF InCall, Front
<1>4. Put' = Put
  BY <1>3, Numbers, NumbersAfter DEF Numbered
<1> QED
  BY <1>3, <1>4 DEF Quiet

LEMMA OthersAreQuiet ==
    ASSUME FInv, Link \/ SwingTail \/ Signal \/ ReadyRead \/ UNCHANGED vars
    PROVE  Quiet
<1>1. CASE Link
  <2>1. /\ wstep = 1 /\ wstep' = 2 /\ nodes' = [nodes EXCEPT ![tail].next = Len(nodes)]
        /\ UNCHANGED <<available, head, rpc, want, taken, output>>
    BY <1>1, StepNumbers DEF Link, Advance, readerVars, FInv, NewNode
  <2>2. Len(nodes') = Len(nodes) /\ \A i \in DOMAIN nodes : nodes'[i].lo = nodes[i].lo
    <3> DEFINE r == [nodes[tail] EXCEPT !.next = Len(nodes)]
    <3>1. nodes[tail] \in [lo : Nat, hi : Nat, next : Nat] /\ Len(nodes) \in Nat
      BY Scalars, NodeBounds
    <3>2. r \in [lo : Nat, hi : Nat, next : Nat] /\ r.lo = nodes[tail].lo
      BY <3>1
    <3>3. nodes' = [nodes EXCEPT ![tail] = r] /\ tail \in 1 .. Len(nodes)
          /\ nodes \in Seq([lo : Nat, hi : Nat, next : Nat]) /\ DOMAIN nodes = 1 .. Len(nodes)
      BY <2>1, Scalars DEF FInv, TypeOK
    <3> HIDE DEF r
    <3>4. Len(nodes') = Len(nodes)
      BY <3>2, <3>3, ExceptSeq
    <3> QED
      BY <3>2, <3>3, <3>4
  <2>3. head \in DOMAIN nodes /\ Len(nodes) \in DOMAIN nodes
    BY Scalars
  <2> QED
    BY <2>1, <2>2, <2>3 DEF Quiet, Put, InCall, Front, NewNode
<1>2. CASE SwingTail
  BY <1>2, StepNumbers DEF SwingTail, Advance, readerVars, FInv, NewNode, Quiet, Put, InCall, Front
<1>3. CASE Signal
  BY <1>3, StepNumbers DEF Signal, Advance, readerVars, FInv, NewNode, Quiet, Put, InCall, Front
<1>4. CASE ReadyRead
  BY <1>4 DEF ReadyRead, writerVars, NewNode, Quiet, Put, InCall, Front
<1>5. CASE UNCHANGED vars
  BY <1>5 DEF vars, writerVars, readerVars, NewNode, Quiet, Put, InCall, Front
<1> QED
  BY <1>1, <1>2, <1>3, <1>4, <1>5

LEMMA BeginReadIsQuiet ==
    ASSUME FInv, NEW m \in 1 .. MaxSize, BeginRead(m)
    PROVE  Quiet /\ (rpc' = "copy" => taken' \in 1 .. MaxSize)
<1>1. rpc = "idle" /\ UNCHANGED <<nodes, available, written, wstep, head, output>>
  BY DEF BeginRead, writerVars
<1>2. available \in Nat /\ m \in 1 .. MaxSize /\ MaxSize \in Nat
  BY Numbers, FifoAssumption DEF Numbered
<1>3. InCall' = 0 /\ (rpc' = "copy" => taken' \in 1 .. MaxSize)
  <2>1. CASE available = 0
    BY <1>1, <2>1 DEF BeginRead, InCall
  <2>2. CASE available # 0
    <3>1. taken' = want' /\ want' = IF available > m THEN m ELSE available
      BY <2>2 DEF BeginRead
    <3>2. want' \in 1 .. MaxSize
      BY <1>2, <2>2, <3>1
    <3>3. taken' - want' = 0
      BY <3>1, <3>2
    <3> QED
      BY <3>1, <3>2, <3>3 DEF InCall
  <2> QED
    BY <2>1, <2>2
<1>4. InCall = 0
  BY <1>1 DEF InCall
<1> QED
  BY <1>1, <1>3, <1>4 DEF Quiet, Put, Front, NewNode

LEMMA CopyCopies ==
    ASSUME FInv, FInv', CopyPart \/ CopyNode
    PROVE  \E k \in Nat : Copies(k)
<1>0. available' - InCall' = Put' - Front' /\ Put' \in Nat /\ Front' \in Nat /\ Numbered
  BY Numbers, NumbersAfter DEF Numbered
<1>1. /\ rpc = "copy" /\ want \in Int /\ want > 0 /\ taken \in Int
      /\ nodes[head].lo \in Nat /\ nodes[head].hi \in Nat /\ nodes[head].lo <= nodes[head].hi
  BY Scalars, NodeBounds DEF CopyPart, CopyNode
<1>2. CASE CopyPart
  <2>1. /\ want' = 0 /\ output' = output \o Copied(want)
        /\ nodes' = [nodes EXCEPT ![head].lo = nodes[head].lo + want]
        /\ UNCHANGED <<available, head, rpc, taken>>
    BY <1>2 DEF CopyPart
  <2>2. Front' = Front + want
    <3>1. head \in DOMAIN nodes /\ nodes[head] \in [lo : Nat, hi : Nat, next : Nat]
      BY Scalars, NodeBounds
    <3> QED
      BY <2>1, <3>1 DEF Front
  <2>3. InCall' = InCall + want
    BY <1>1, <2>1 DEF InCall
  <2>4. Put' = Put
    <3> DEFINE f == Front
               p == Put
               q == Put'
               a == available
               i == InCall
    <3>1. available' = available
      BY <2>1
    <3>2. f \in Int /\ p \in Int /\ q \in Int /\ a \in Int /\ i \in Int /\ want \in Int
      BY <1>0, <1>1 DEF Numbered
    <3>3. a - i = p - f
      BY <1>0 DEF Numbered
    <3>4. a - (i + want) = q - (f + want)
      BY <1>0, <2>2, <2>3, <3>1
    <3> HIDE DEF f, p, q, a, i
    <3>5. q = p
      BY <3>2, <3>3, <3>4
    <3> QED
      BY <3>5 DEF p, q
  <2>5. Copies(want)
    BY <1>1, <2>1, <2>2, <2>3, <2>4 DEF Copies
  <2> QED
    BY <1>1, <2>5
<1>3. CASE CopyNode
  <2> DEFINE k == nodes[head].hi - nodes[head].lo
  <2>1. /\ want' = want - k /\ output' = output \o Copied(k)
        /\ UNCHANGED <<nodes, available, written, wstep, rpc, taken>>
    BY <1>3 DEF CopyNode, Size, writerVars
  <2>2. k \in Nat
    BY <1>1
  <2> HIDE DEF k
  <2>3. InCall' = InCall + k
    BY <1>1, <2>1, <2>2 DEF InCall
  <2>4. Put' = Put
    BY <2>1 DEF Put, NewNode
  <2>5. Front' = Front + k
    <3>1. available - InCall = Put - Front /\ available - (InCall + k) = Put - Front'
      BY <1>0, <2>1, <2>3, <2>4 DEF Numbered
    <3>2. available \in Int /\ InCall \in Int /\ Put \in Int /\ Front \in Int /\ Front' \in Int /\ k \in Int
      BY <1>0, <2>2 DEF Numbered
    <3> DEFINE f == Front
               g == Front'
               p == Put
               a == available
               i == InCall
    <3>3. f \in Int /\ g \in Int /\ p \in Int /\ a \in Int /\ i \in Int /\ a - i = p - f
          /\ a - (i + k) = p - g /\ k \in Int
      BY <3>1, <3>2
    <3> HIDE DEF f, g, p, a, i
    <3>4. g = f + k
      BY <3>3
    <3> QED
      BY <3>4 DEF f, g
  <2>6. Copies(k)
    BY <1>1, <2>1, <2>3, <2>4, <2>5 DEF Copies
  <2> QED
    BY <2>2, <2>6
<1> QED
  BY <1>2, <1>3

LEMMA PublishPublishes ==
    ASSUME FInv, Publish
    PROVE  Publishes
<1>1. wstep = 3 /\ wstep' = 4 /\ UNCHANGED <<nodes, written, head, rpc, want, taken, output>>
  BY StepNumbers DEF Publish, Advance, readerVars, FInv
<1>2. nodes[NewNode].hi = written /\ nodes[NewNode].hi \in Nat /\ nodes[NewNode].lo \in Nat
  <2>1. nodes[NewNode].hi = written
    BY <1>1 DEF FInv, Positions
  <2> QED
    BY <2>1, Scalars, NodeBounds
<1>3. Put = nodes[NewNode].lo /\ Put' = written
  BY <1>1 DEF Put
<1>4. Put' = Put + Size(NewNode)
  BY <1>2, <1>3 DEF Size
<1> QED
  BY <1>1, <1>4 DEF Publishes, InCall, Front

LEMMA EndReadReturns ==
    ASSUME FInv, EndRead
    PROVE  Returns
<1>1. rpc = "copy" /\ want <= 0 /\ rpc' = "idle" /\ UNCHANGED <<nodes, written, wstep, head, output>>
  BY DEF EndRead, writerVars
<1>2. want = 0 /\ taken \in Int
  <2>1. 0 <= want /\ want \in Int /\ taken \in Int
    BY <1>1, Scalars DEF FInv, Positions
  <2> QED
    BY <1>1, <2>1
<1>3. InCall = taken /\ InCall' = 0
  BY <1>1, <1>2 DEF InCall
<1> QED
  BY <1>1, <1>3 DEF Returns, Put, Front, NewNode

LEMMA ClearEmpties ==
    ASSUME FInv, Clear
    PROVE  Empties
<1>1. /\ rpc = "idle" /\ rpc' = rpc /\ wstep = 0 /\ wstep' = 0 /\ written' = written /\ head' = head
      /\ nodes' = [nodes EXCEPT ![head] = [lo |-> written, hi |-> written, next |-> 0]]
      /\ output' = output /\ head \in DOMAIN nodes
  BY Scalars DEF Clear, NodesAfterClear
<1>2. Front' = written
  BY <1>1 DEF Front
<1> QED
  BY <1>1, <1>2 DEF Empties, Put, InCall

LEMMA StepKinds ==
    ASSUME FInv, FInv', [Next]_vars
    PROVE  \/ Quiet \/ (\E k \in Nat : Copies(k))
           \/ (Publishes /\ Publish) \/ (Returns /\ EndRead) \/ (Empties /\ Clear)
<1>1. CASE \E n \in 1 .. MaxSize : BeginWrite(n)
  BY <1>1, BeginWriteIsQuiet
<1>2. CASE Link \/ SwingTail \/ Signal \/ ReadyRead \/ UNCHANGED vars
  BY <1>2, OthersAreQuiet
<1>3. CASE Publish
  BY <1>3, PublishPublishes
<1>4. CASE CopyPart \/ CopyNode
  BY <1>4, CopyCopies
<1>5. CASE EndRead
  BY <1>5, EndReadReturns
<1>6. CASE \E m \in 1 .. MaxSize : BeginRead(m)
  BY <1>6, BeginReadIsQuiet
<1>7. CASE Clear
  BY <1>7, ClearEmpties
<1> QED
  BY <1>1, <1>2, <1>3, <1>4, <1>5, <1>6, <1>7 DEF Next, Writer, Reading, OwnRead

LEMMA RecentStep ==
    ASSUME FInv, FInv', Recent, [Next]_vars
    PROVE  Recent'
<1> USE DEF Recent, Front
<1>0. /\ Len(output) \in Nat /\ output \in Seq(Nat) /\ DOMAIN output = 1 .. Len(output)
      /\ Front \in Nat /\ InCall \in Nat
  <2>1. output \in Seq(Nat)
    BY DEF FInv, TypeOK
  <2> QED
    BY <2>1, LenProperties, Numbers DEF Numbered
<1>1. CASE Quiet
  BY <1>1 DEF Quiet
<1>2. ASSUME NEW k \in Nat, Copies(k) PROVE Recent'
  <2> DEFINE lo == Front
             len == Len(output)
             call == InCall
             copy == Copied(k)
  <2>1. output' = output \o copy /\ InCall' = call + k /\ Front' = lo + k
    BY <1>2 DEF Copies
  <2>2. copy \in Seq(Nat) /\ Len(copy) = k /\ \A i \in 1 .. k : copy[i] = lo + i
    <3>1. copy = [i \in 1 .. k |-> lo + i] /\ lo \in Nat
      BY <1>0 DEF Copied
    <3>2. copy \in Seq(Nat)
      <4> HIDE DEF lo, copy
      <4> QED
        BY <3>1, IsASeq
    <3> HIDE DEF copy
    <3> QED
      BY <3>1, <3>2, LenProperties
  <2>3. /\ lo \in Nat /\ len \in Nat /\ call \in Nat /\ call <= len
        /\ \A i \in len - call + 1 .. len : output[i] = lo - len + i
    BY <1>0
  <2> HIDE DEF lo, copy
  <2>4. /\ Len(output') = len + k
        /\ \A i \in 1 .. len + k : output'[i] = IF i <= len THEN output[i] ELSE copy[i - len]
    BY <1>0, <2>1, <2>2, ConcatProperties
  <2> HIDE DEF len, call
  <2>5. ASSUME NEW i \in len - call + 1 .. len + k PROVE output'[i] = lo - len + i
    <3>1. i \in 1 .. len + k
      BY <2>3
    <3>2. CASE i <= len
      BY <2>3, <2>4, <3>1, <3>2
    <3>3. CASE i > len
      <4> DEFINE j == i - len
      <4>1. j \in 1 .. k /\ lo + j = lo - len + i
        BY <2>3, <3>1, <3>3
      <4>2. output'[i] = copy[j]
        BY <2>3, <2>4, <3>1, <3>3
      <4> HIDE DEF j
      <4> QED
        BY <2>2, <4>1, <4>2
    <3> QED
      BY <2>3, <3>1, <3>2, <3>3
  <2> DEFINE lo2 == nodes'[head'].lo
             len2 == Len(output')
             call2 == InCall'
  <2>7. lo2 = lo + k /\ len2 = len + k /\ call2 = call + k
    BY <2>1, <2>4
  <2> HIDE DEF lo2, len2, call2
  <2>8. call2 <= len2 /\ len2 - call2 + 1 = len - call + 1 /\ \A i \in Int : lo2 - len2 + i = lo - len + i
    BY <2>3, <2>7
  <2>9. \A i \in len2 - call2 + 1 .. len2 : output'[i] = lo2 - len2 + i
    <3> SUFFICES ASSUME NEW i \in len2 - call2 + 1 .. len2 PROVE output'[i] = lo2 - len2 + i
      OBVIOUS
    <3>1. i \in len - call + 1 .. len + k /\ i \in Int
      BY <2>7, <2>8
    <3> QED
      BY <2>5, <2>8, <3>1
  <2> QED
    BY <2>8, <2>9 DEF lo2, len2, call2
<1>3. CASE Publishes
  BY <1>3 DEF Publishes
<1>4. CASE Returns \/ Empties
  <2>1. InCall' = 0 /\ output' = output
    BY <1>4 DEF Returns, Empties
  <2> QED
    BY <1>0, <2>1
<1> QED
  BY <1>1, <1>2, <1>3, <1>4, StepKinds

LEMMA SizesStep ==
    ASSUME FInv, FInv', Sizes, [Next]_vars
    PROVE  Sizes'
<1>0. /\ Len(nodes) \in Nat /\ DOMAIN nodes = 1 .. Len(nodes) /\ NewNode = Len(nodes)
      /\ head \in DOMAIN nodes /\ NewNode \in DOMAIN nodes
      /\ nodes \in Seq([lo : Nat, hi : Nat, next : Nat])
  BY Scalars DEF FInv, TypeOK
<1>1. ASSUME NEW n \in 1 .. MaxSize, BeginWrite(n) PROVE Sizes'
  <2> DEFINE size == IF n > IntMax THEN IntMax ELSE n
             new == [lo |-> written, hi |-> written + size, next |-> 0]
  <2>1. nodes' = Append(nodes, new) /\ rpc' = rpc /\ taken' = taken
    BY <1>1 DEF BeginWrite, readerVars
  <2>2. size \in 1 .. MaxSize /\ written \in Nat
    BY Scalars, FifoAssumption
  <2> HIDE DEF size
  <2>3. new \in [lo : Nat, hi : Nat, next : Nat] /\ new.hi - new.lo = size
    BY <2>2
  <2> HIDE DEF new
  <2>4. nodes'[Len(nodes')] = new
    BY <1>0, <2>1, <2>3, AppendProperties
  <2>5. Size(NewNode)' = size
    BY <2>3, <2>4 DEF Size, NewNode
  <2> QED
    BY <2>1, <2>2, <2>5 DEF Sizes
<1>2. CASE Link
  <2>1. wstep = 1 /\ rpc' = rpc /\ taken' = taken /\ nodes' = [nodes EXCEPT ![tail].next = Len(nodes)]
    BY <1>2, StepNumbers DEF Link, FInv, NewNode, readerVars
  <2>2. NewNode # tail
    BY <2>1 DEF FInv, ListShape
  <2>3. NewNode' = NewNode /\ nodes'[NewNode] = nodes[NewNode]
    BY <1>0, <2>1, <2>2 DEF NewNode
  <2> QED
    BY <2>1, <2>3 DEF Sizes, Size
<1>3. CASE CopyPart
  <2>1. /\ rpc = "copy" /\ rpc' = rpc /\ taken' = taken /\ wstep' = wstep /\ want > 0
        /\ nodes' = [nodes EXCEPT ![head].lo = nodes[head].lo + want]
    BY <1>3 DEF CopyPart, writerVars
  <2>2. wstep \in 1 .. 3 => NewNode # head
    <3> SUFFICES ASSUME wstep \in 1 .. 3, NewNode = head PROVE FALSE
      OBVIOUS
    <3>1. Put = Front
      BY DEF Put, Front
    <3>2. want <= available - InCall /\ want \in Int
      BY <2>1, Scalars DEF FInv, Positions
    <3>3. available - InCall = Put - Front /\ Front \in Nat /\ Put \in Nat
      BY Numbers DEF Numbered
    <3> QED
      BY <2>1, <3>1, <3>2, <3>3
  <2>3. NewNode' = NewNode /\ (wstep \in 1 .. 3 => nodes'[NewNode] = nodes[NewNode])
    BY <1>0, <2>1, <2>2 DEF NewNode
  <2> QED
    BY <2>1, <2>3 DEF Sizes, Size
<1>4. ASSUME NEW m \in 1 .. MaxSize, BeginRead(m) PROVE Sizes'
  <2>1. nodes' = nodes /\ wstep' = wstep
    BY <1>4 DEF BeginRead, writerVars
  <2>2. rpc' = "copy" => taken' \in 1 .. MaxSize
    BY <1>4, BeginReadIsQuiet
  <2> QED
    BY <2>1, <2>2 DEF Sizes, Size, NewNode
<1>5. CASE Clear
  BY <1>5 DEF Clear, Sizes
<1>6. CASE SwingTail \/ Publish
  BY <1>6, StepNumbers DEF SwingTail, Publish, Advance, readerVars, Sizes, Size, NewNode, FInv
<1>7. CASE Signal
  BY <1>7, StepNumbers DEF Signal, Advance, readerVars, Sizes, FInv
<1>8. CASE CopyNode \/ EndRead
  BY <1>8 DEF CopyNode, EndRead, writerVars, Sizes, Size, NewNode
<1>9. CASE ReadyRead \/ UNCHANGED vars
  BY <1>9 DEF ReadyRead, vars, writerVars, readerVars, Sizes, Size, NewNode
<1> QED
  BY <1>1, <1>2, <1>3, <1>4, <1>5, <1>6, <1>7, <1>8, <1>9 DEF Next, Writer, Reading, OwnRead

LEMMA QInvStep == NoWrap /\ QInv /\ [Next]_vars => QInv'
<1> SUFFICES ASSUME NoWrap, QInv, [Next]_vars PROVE QInv'
  OBVIOUS
<1>1. FInv' /\ FInv
  BY FInvStep DEF QInv
<1> QED
  BY <1>1, ForwardStep, RecentStep, SizesStep DEF QInv

LEMMA QInvHolds == ASSUME NoWrap PROVE Spec => []QInv
<1>1. QInv /\ [Next]_vars => QInv'
  BY QInvStep
<1> QED
  BY <1>1, QInvInitially, PTL DEF Spec

-----------------------------------------------------------------------------
(* What the list holds.                                                    *)

InList(n) == n \in Live /\ (n = tail \/ nodes[n].next # 0 \/ (Linked /\ n = NewNode))

\* The number of the last byte that the list leads to.
ListEnd == IF wstep = 1 THEN Put ELSE written

HoldsTheRest(n) == nodes[n].lo <= ListEnd /\ Contents[n] = Stream(nodes[n].lo, ListEnd)

LEMMA EmptyConcat == ASSUME NEW s \in Seq(Nat) PROVE s \o <<>> = s
<1>1. Len(s \o <<>>) = Len(s) /\ s \o <<>> \in Seq(Nat) /\ \A i \in 1 .. Len(s) : (s \o <<>>)[i] = s[i]
  BY ConcatProperties, EmptySeq
<1> QED
  BY <1>1, SeqEqual

\* The last node ends with the last byte.
LEMMA LastNode ==
    ASSUME QInv, NEW n \in DOMAIN nodes, InList(n), nodes[n].next = 0
    PROVE  nodes[n].hi = ListEnd
<1>1. n = tail \/ (Linked /\ n = NewNode)
  BY DEF InList
<1>2. wstep \in 0 .. 4
  BY Scalars DEF QInv
<1>3. CASE Linked
  <2>1. tail \in Live /\ nodes[tail].next = NewNode /\ NewNode # 0
    BY <1>3, Scalars DEF QInv, FInv, ListShape
  <2>2. n = NewNode
    BY <1>1, <2>1
  <2> QED
    BY <1>3, <2>2 DEF Linked, ListEnd, QInv, FInv, Positions
<1>4. CASE ~Linked
  <2>1. n = tail
    BY <1>1, <1>4
  <2>2. CASE wstep = 3
    BY <2>1, <2>2 DEF ListEnd, QInv, FInv, Positions, ListShape
  <2>3. CASE wstep # 3
    BY <1>2, <1>4, <2>1, <2>3 DEF Linked, ListEnd, Put, QInv, FInv, Positions
  <2> QED
    BY <2>2, <2>3
<1> QED
  BY <1>3, <1>4

\* What a node holds, if the rest of the list is known.
LEMMA NodeAndRest ==
    ASSUME QInv, NEW n \in DOMAIN nodes, InList(n),
           nodes[n].next # 0 => HoldsTheRest(nodes[n].next)
    PROVE  HoldsTheRest(n)
<1> DEFINE lo == nodes[n].lo
           hi == nodes[n].hi
           next == nodes[n].next
<1>1. /\ lo \in Nat /\ hi \in Nat /\ lo <= hi /\ n # 0 /\ next \in 0 .. Len(nodes) /\ n \in 0 .. Len(nodes)
      /\ DOMAIN nodes = 1 .. Len(nodes) /\ Len(nodes) \in Nat
  <2>1. /\ lo \in Nat /\ hi \in Nat /\ lo <= hi /\ next \in Nat
        /\ DOMAIN nodes = 1 .. Len(nodes) /\ Len(nodes) \in Nat
    BY Scalars, NodeBounds DEF QInv
  <2>2. next = 0 \/ next \in n + 1 .. Len(nodes)
    BY DEF QInv, Forward
  <2> HIDE DEF lo, hi, next
  <2> QED
    BY <2>1, <2>2
<1>2. Contents[n] = Stream(lo, hi) \o Contents[next]
  <2>1. Contents[n] = ContentsFrom(Contents, n)
    BY <1>1, ContentsAre DEF QInv
  <2> QED
    BY <1>1, <2>1 DEF ContentsFrom, Stream, Size
<1>3. CASE next = 0
  <2>1. hi = ListEnd
    BY <1>3, LastNode
  <2>2. Contents[0] = <<>>
    <3>0. \A i \in 0 .. Len(nodes) : Contents[i] = ContentsFrom(Contents, i)
      BY <1>1, ContentsAre DEF QInv
    <3>1. Contents[0] = ContentsFrom(Contents, 0)
      BY <1>1, <3>0
    <3> QED
      BY <3>1 DEF ContentsFrom
  <2> HIDE DEF lo, hi, next
  <2>3. Contents[n] = Stream(lo, hi)
    BY <1>1, <1>2, <1>3, <2>2, StreamIs, EmptyConcat
  <2> QED
    BY <1>1, <2>1, <2>3 DEF HoldsTheRest, lo, hi
<1>4. CASE next # 0
  <2>1. next \in Live /\ nodes[next].lo = hi
    BY <1>4 DEF InList, QInv, FInv, ListShape
  <2>2. hi <= ListEnd /\ Contents[next] = Stream(hi, ListEnd)
    BY <1>4, <2>1 DEF HoldsTheRest
  <2>3. ListEnd \in Nat
    BY Scalars, Numbers DEF ListEnd, Numbered, QInv
  <2> HIDE DEF lo, hi, next
  <2> DEFINE end == ListEnd
  <2>4. end \in Nat /\ hi <= end /\ Contents[n] = Stream(lo, hi) \o Stream(hi, end)
    BY <1>2, <2>2, <2>3
  <2> HIDE DEF end
  <2>5. Stream(lo, hi) \o Stream(hi, end) = Stream(lo, end)
    BY <1>1, <2>4, StreamsJoin
  <2>6. lo <= end
    BY <1>1, <2>4
  <2>7. Contents[n] = Stream(lo, ListEnd) /\ lo <= ListEnd
    BY <2>4, <2>5, <2>6 DEF end
  <2> QED
    BY <2>7 DEF HoldsTheRest, lo
<1> QED
  BY <1>3, <1>4

LEMMA NextInList ==
    ASSUME QInv, NEW n \in DOMAIN nodes, InList(n), nodes[n].next # 0
    PROVE  nodes[n].next \in n + 1 .. Len(nodes) /\ InList(nodes[n].next)
<1>1. nodes[n].next \in n + 1 .. Len(nodes)
  BY DEF QInv, Forward
<1>2. InList(nodes[n].next)
  BY DEF InList, QInv, FInv, ListShape
<1> QED
  BY <1>1, <1>2

LEMMA ListHoldsTheRest ==
    ASSUME QInv
    PROVE  \A n \in DOMAIN nodes : InList(n) => HoldsTheRest(n)
<1> DEFINE N == Len(nodes)
           T == {j \in Nat : \A n \in DOMAIN nodes : n > N - j /\ InList(n) => HoldsTheRest(n)}
<1>0. N \in Nat /\ DOMAIN nodes = 1 .. N
  BY Scalars DEF QInv
<1> HIDE DEF N
<1>1. 0 \in T
  BY <1>0
<1>2. ASSUME NEW j \in Nat, j \in T PROVE j + 1 \in T
  <2> SUFFICES ASSUME NEW n \in DOMAIN nodes, n > N - (j + 1), InList(n) PROVE HoldsTheRest(n)
    OBVIOUS
  <2>1. ASSUME nodes[n].next # 0 PROVE HoldsTheRest(nodes[n].next)
    <3> DEFINE m == nodes[n].next
    <3>1. m \in n + 1 .. N /\ InList(m)
      BY <2>1, NextInList DEF N
    <3> HIDE DEF m
    <3>2. m \in DOMAIN nodes /\ m > N - j
      BY <1>0, <3>1
    <3>3. HoldsTheRest(m)
      BY <1>2, <3>1, <3>2
    <3> QED
      BY <3>3 DEF m
  <2> QED
    BY <2>1, NodeAndRest
<1>3. Nat \subseteq T
  <2> HIDE DEF T
  <2> QED
    BY <1>1, <1>2, Induction
<1>4. N \in T
  BY <1>0, <1>3
<1> QED
  BY <1>0, <1>4

-----------------------------------------------------------------------------
(* The abstract state.                                                     *)

\* How many bytes were returned or dropped.
Base == Front - InCall

Abstract ==
    /\ Front \in Nat /\ Base \in Nat /\ Put \in Nat /\ Base <= Put /\ InCall \in Nat /\ InCall <= Put - Base
    /\ output \in Seq(Nat) /\ Len(output) \in Nat /\ InCall <= Len(output)
    /\ SubSeq(output, Len(output) - InCall + 1, Len(output)) = Stream(Base, Base + InCall)
    /\ Published = Put
    /\ Unread = Stream(Base, Put)
    /\ Received = SubSeq(output, 1, Len(output) - InCall)

LEMMA AbstractState == QInv => Abstract
<1> SUFFICES ASSUME QInv PROVE Abstract
  OBVIOUS
<1> DEFINE len == Len(output)
           call == InCall
           lo == Front
           base == Base
           end == ListEnd
           put == Put
<1>1. /\ lo \in Nat /\ call \in Nat /\ put \in Nat /\ available \in Nat
      /\ call <= lo /\ lo <= put /\ call <= available
      /\ available - call = put - lo
  BY Numbers DEF Numbered, QInv
<1>2. base = lo - call
  BY DEF Base
<1>3. output \in Seq(Nat) /\ len \in Nat /\ call <= len
  <2>1. output \in Seq(Nat) /\ call <= len
    BY DEF QInv, FInv, TypeOK, Recent
  <2> QED
    BY <2>1, LenProperties
<1>4. end \in Nat /\ put <= end
  <2>0. NewNode \in DOMAIN nodes /\ written \in Nat
    BY Scalars DEF QInv
  <2>1. /\ nodes[NewNode].lo \in Nat /\ nodes[NewNode].hi \in Nat
        /\ nodes[NewNode].lo <= nodes[NewNode].hi /\ nodes[NewNode].hi <= written
    BY <2>0, NodeBounds DEF QInv
  <2>2. nodes[NewNode].lo <= written /\ written \in Nat /\ nodes[NewNode].lo \in Nat
    BY <2>0, <2>1
  <2> QED
    BY <2>2 DEF ListEnd, Put
<1>5. Contents[head] = Stream(lo, end) /\ lo <= end
  <2>1. head \in DOMAIN nodes /\ InList(head)
    BY Scalars DEF QInv, FInv, ListShape, InList
  <2>2. HoldsTheRest(head)
    BY <2>1, ListHoldsTheRest
  <2> QED
    BY <2>2 DEF HoldsTheRest, Front
<1>6. \A i \in len - call + 1 .. len : output[i] = lo - len + i
  BY DEF QInv, Recent, Front
<1>7. Published = put
  <2>1. (\E i \in 1 .. 4 : WriteOrder[i] = "publish" /\ wstep \in 1 .. i) <=> wstep \in 1 .. 3
    BY DEF WriteOrder
  <2> QED
    BY <2>1 DEF Published, Put
<1>8. Returned = len - call
  BY DEF Returned, Unreturned, InCall
<1>9. base \in Nat /\ base <= put /\ base + call = lo /\ available = put - base /\ base <= lo
      /\ base + available = put /\ call <= put - base
  <2> HIDE DEF len, call, lo, base, end, put
  <2> QED
    BY <1>1, <1>2
<1>10. SubSeq(output, len - call + 1, len) = Stream(base, lo)
  <2> DEFINE s == SubSeq(output, len - call + 1, len)
             t == Stream(base, lo)
  <2> HIDE DEF len, call, lo, base, end, put
  <2>1. ASSUME NEW i \in len - call + 1 .. len PROVE output[i] \in Nat
    <3>1. i \in 1 .. len
      BY <1>1, <1>3, <2>1
    <3> QED
      BY <1>3, <3>1, LenProperties DEF len
  <2>2. /\ s \in Seq(Nat) /\ Len(s) = call
        /\ \A i \in 1 .. call : s[i] = output[len - call + 1 + i - 1]
    <3> DEFINE m == len - call + 1
    <3>1. m \in Int /\ len \in Int /\ (IF m <= len THEN len - m + 1 ELSE 0) = call /\ len - m + 1 = call
      BY <1>1, <1>3
    <3> HIDE DEF m
    <3>2. /\ SubSeq(output, m, len) \in Seq(Nat)
          /\ Len(SubSeq(output, m, len)) = IF m <= len THEN len - m + 1 ELSE 0
          /\ \A i \in 1 .. len - m + 1 : SubSeq(output, m, len)[i] = output[m + i - 1]
      BY <1>3, <2>1, <3>1, SubSeqProperties DEF m
    <3> QED
      BY <3>1, <3>2 DEF m
  <2>3. t \in Seq(Nat) /\ Len(t) = call /\ \A i \in 1 .. call : t[i] = base + i
    <3>1. lo - base = call
      BY <1>1, <1>9
    <3> QED
      BY <1>1, <1>9, <3>1, StreamIs
  <2> HIDE DEF s, t
  <2>4. ASSUME NEW i \in 1 .. call PROVE s[i] = t[i]
    <3> DEFINE k == len - call + 1 + i - 1
    <3>1. k \in len - call + 1 .. len /\ lo - len + k = base + i
      BY <1>1, <1>3, <1>9
    <3>2. s[i] = output[k]
      BY <2>2
    <3> HIDE DEF k
    <3> QED
      BY <1>6, <2>3, <3>1, <3>2
  <2>5. s = t
    BY <2>2, <2>3, <2>4, SeqEqual
  <2> QED
    BY <2>5 DEF s, t
<1>11. Unread = Stream(base, put)
  <2>1. Unread = SubSeq(SubSeq(output, len - call + 1, len) \o Contents[head], 1, available)
    BY <1>8 DEF Unread
  <2> HIDE DEF len, call, lo, base, end, put
  <2>2. Unread = SubSeq(Stream(base, lo) \o Stream(lo, end), 1, available)
    BY <1>5, <1>10, <2>1
  <2>3. Stream(base, lo) \o Stream(lo, end) = Stream(base, end)
    BY <1>1, <1>4, <1>5, <1>9, StreamsJoin
  <2>4. SubSeq(Stream(base, end), 1, available) = Stream(base, base + available)
    <3>1. base + available <= end
      BY <1>4, <1>9
    <3> QED
      BY <1>1, <1>4, <1>9, <3>1, StreamPrefix
  <2> QED
    BY <1>9, <2>2, <2>3, <2>4
<1>12. Received = SubSeq(output, 1, len - call)
  BY <1>8 DEF Received
<1> HIDE DEF len, call, lo, base, end, put
<1>13. SubSeq(output, len - call + 1, len) = Stream(base, base + call)
  BY <1>9, <1>10
<1> QED
  BY <1>1, <1>3, <1>7, <1>9, <1>11, <1>12, <1>13 DEF Abstract, len, call, base, put, lo

LEMMA AbstractStateAfter == QInv' => Abstract'
BY AbstractState, PTL

-----------------------------------------------------------------------------
(* The refinement.                                                         *)

LEMMA QuietStutters ==
    ASSUME Abstract, Abstract', Quiet
    PROVE  UNCHANGED <<Unread, Published, Received>>
BY DEF Abstract, Quiet, Base

\* The part of a sequence before the new elements.
LEMMA PrefixStays ==
    ASSUME NEW s \in Seq(Nat), NEW t \in Seq(Nat), NEW n \in Nat, n <= Len(s)
    PROVE  SubSeq(s \o t, 1, n) = SubSeq(s, 1, n)
<1> DEFINE u == s \o t
           v == SubSeq(u, 1, n)
           w == SubSeq(s, 1, n)
<1>1. /\ Len(s) \in Nat /\ Len(t) \in Nat /\ u \in Seq(Nat)
      /\ \A i \in 1 .. Len(s) : u[i] = s[i] /\ s[i] \in Nat
  <2>1. Len(s) \in Nat /\ Len(t) \in Nat /\ \A i \in 1 .. Len(s) : s[i] \in Nat
    BY LenProperties
  <2>2. u \in Seq(Nat) /\ \A i \in 1 .. Len(s) + Len(t) : u[i] = IF i <= Len(s) THEN s[i] ELSE t[i - Len(s)]
    BY ConcatProperties
  <2> HIDE DEF u
  <2>3. ASSUME NEW i \in 1 .. Len(s) PROVE u[i] = s[i]
    <3>1. i \in 1 .. Len(s) + Len(t) /\ i <= Len(s)
      BY <2>1
    <3> QED
      BY <2>2, <3>1
  <2> QED
    BY <2>1, <2>2, <2>3
<1> HIDE DEF u
<1>2. /\ v \in Seq(Nat) /\ Len(v) = n /\ \A i \in 1 .. n : v[i] = u[i]
      /\ w \in Seq(Nat) /\ Len(w) = n /\ \A i \in 1 .. n : w[i] = s[i]
  <2>1. \A i \in 1 .. n : u[i] = s[i] /\ s[i] \in Nat /\ u[i] \in Nat
    BY <1>1
  <2>2. /\ v \in Seq(Nat) /\ Len(v) = (IF 1 <= n THEN n - 1 + 1 ELSE 0)
        /\ \A i \in 1 .. n - 1 + 1 : v[i] = u[1 + i - 1]
    BY <2>1, SubSeqProperties
  <2>3. /\ w \in Seq(Nat) /\ Len(w) = (IF 1 <= n THEN n - 1 + 1 ELSE 0)
        /\ \A i \in 1 .. n - 1 + 1 : w[i] = s[1 + i - 1]
    BY <2>1, SubSeqProperties
  <2> HIDE DEF v, w
  <2>4. n - 1 + 1 = n /\ (IF 1 <= n THEN n - 1 + 1 ELSE 0) = n /\ \A i \in 1 .. n : 1 + i - 1 = i
    OBVIOUS
  <2>5. Len(v) = n /\ \A i \in 1 .. n : v[i] = u[i]
    BY <2>2, <2>4
  <2>6. Len(w) = n /\ \A i \in 1 .. n : w[i] = s[i]
    BY <2>3, <2>4
  <2> QED
    BY <2>2, <2>3, <2>5, <2>6
<1> HIDE DEF v, w
<1>3. ASSUME NEW i \in 1 .. n PROVE v[i] = w[i]
  <2>1. i \in 1 .. Len(s)
    BY <1>1
  <2> QED
    BY <1>1, <1>2, <2>1
<1>4. v = w
  BY <1>2, <1>3, SeqEqual
<1> QED
  BY <1>4 DEF u, v, w

LEMMA CopiesStutters ==
    ASSUME Abstract, Abstract', NEW k \in Nat, Copies(k)
    PROVE  UNCHANGED <<Unread, Published, Received>>
<1>1. Put' = Put /\ InCall' = InCall + k /\ Front' = Front + k /\ output' = output \o Copied(k)
  BY DEF Copies
<1>2. Copied(k) \in Seq(Nat) /\ Len(Copied(k)) = k
  <2>0. nodes[head].lo \in Nat
    BY DEF Abstract, Front
  <2>1. \A i \in 1 .. k : nodes[head].lo + i \in Nat
    BY <2>0
  <2>2. Copied(k) \in Seq(Nat)
    BY <2>1, IsASeq DEF Copied
  <2> QED
    BY <2>2, LenProperties DEF Copied
<1>3. InCall \in Nat /\ Front \in Nat /\ Len(output) \in Nat /\ output \in Seq(Nat) /\ InCall <= Len(output)
  BY DEF Abstract
<1>4. Base' = Base
  BY <1>1, <1>3 DEF Base
<1>5. Len(output') = Len(output) + k
  BY <1>1, <1>2, <1>3, ConcatProperties
<1> DEFINE n == Len(output) - InCall
<1>6. n \in Nat /\ n <= Len(output) /\ Len(output') - InCall' = n
  BY <1>1, <1>3, <1>5
<1> HIDE DEF n
<1>7. SubSeq(output', 1, n) = SubSeq(output, 1, n)
  BY <1>1, <1>2, <1>3, <1>6, PrefixStays
<1>8. Received' = Received
  BY <1>6, <1>7 DEF Abstract, n
<1> QED
  BY <1>1, <1>4, <1>8 DEF Abstract

LEMMA PublishesPuts ==
    ASSUME Abstract, Abstract', Publishes, Size(NewNode) \in 1 .. MaxSize
    PROVE  Queue!BQNext
<1> DEFINE n == Size(NewNode)
           base == Base
           put == Put
<1>1. n \in 1 .. MaxSize /\ n \in Nat /\ put \in Nat /\ base \in Nat /\ base <= put
  <2>1. n \in 1 .. MaxSize
    OBVIOUS
  <2>2. put \in Nat /\ base \in Nat /\ base <= put
    BY DEF Abstract
  <2> HIDE DEF n
  <2>3. n \in Nat
    BY <2>1, FifoAssumption
  <2> QED
    BY <2>1, <2>2, <2>3
<1>2. put' = put + n /\ base' = base /\ Received' = Received
  BY DEF Publishes, Base, Abstract
<1>3. Unread = Stream(base, put) /\ Unread' = Stream(base, put + n) /\ Published = put /\ Published' = put + n
  BY <1>2 DEF Abstract
<1> HIDE DEF n, base, put
<1>4. Stream(base, put) \o Stream(put, put + n) = Stream(base, put + n)
  <2> DEFINE c == put + n
  <2>1. c \in Nat /\ put <= c
    BY <1>1
  <2> HIDE DEF c
  <2>2. Stream(base, put) \o Stream(put, c) = Stream(base, c)
    BY <1>1, <2>1, StreamsJoin
  <2> QED
    BY <2>2 DEF c
<1>5. Stream(put, put + n) = [i \in 1 .. n |-> put + i]
  <2> DEFINE c == put + n
  <2>1. c - put = n
    BY <1>1
  <2> HIDE DEF c
  <2>2. Stream(put, c) = [i \in 1 .. n |-> put + i]
    BY <2>1 DEF Stream
  <2> QED
    BY <2>2 DEF c
<1>6. Queue!Put(n)
  BY <1>2, <1>3, <1>4, <1>5 DEF Queue!Put
<1> QED
  BY <1>1, <1>6 DEF Queue!BQNext

\* A sequence is its two parts.
LEMMA SplitSeq ==
    ASSUME NEW s \in Seq(Nat), NEW n \in Nat, n <= Len(s)
    PROVE  SubSeq(s, 1, n) \o SubSeq(s, n + 1, Len(s)) = s
<1> DEFINE len == Len(s)
           v == SubSeq(s, 1, n)
           w == SubSeq(s, n + 1, len)
           u == v \o w
<1>1. len \in Nat /\ \A i \in 1 .. len : s[i] \in Nat
  BY LenProperties
<1> HIDE DEF len
<1>2. /\ v \in Seq(Nat) /\ Len(v) = n /\ \A i \in 1 .. n : v[i] = s[i]
      /\ w \in Seq(Nat) /\ Len(w) = len - n /\ \A i \in 1 .. len - n : w[i] = s[n + i]
  <2>1. n <= len /\ (\A i \in 1 .. n : s[i] \in Nat) /\ (\A i \in n + 1 .. len : s[i] \in Nat)
    BY <1>1 DEF len
  <2>2. /\ v \in Seq(Nat) /\ Len(v) = (IF 1 <= n THEN n - 1 + 1 ELSE 0)
        /\ \A i \in 1 .. n - 1 + 1 : v[i] = s[1 + i - 1]
    BY <2>1, SubSeqProperties
  <2>3. /\ w \in Seq(Nat) /\ Len(w) = (IF n + 1 <= len THEN len - (n + 1) + 1 ELSE 0)
        /\ \A i \in 1 .. len - (n + 1) + 1 : w[i] = s[n + 1 + i - 1]
    BY <1>1, <2>1, SubSeqProperties
  <2> HIDE DEF v, w
  <2>4. len - (n + 1) + 1 = len - n /\ \A i \in Int : n + 1 + i - 1 = n + i
    BY <1>1
  <2>5. Len(w) = len - n /\ \A i \in 1 .. len - n : w[i] = s[n + i]
    BY <1>1, <2>1, <2>3, <2>4
  <2> QED
    BY <2>2, <2>3, <2>5
<1> HIDE DEF v, w
<1>3. /\ u \in Seq(Nat) /\ Len(u) = Len(v) + Len(w)
      /\ \A i \in 1 .. Len(v) + Len(w) : u[i] = IF i <= Len(v) THEN v[i] ELSE w[i - Len(v)]
  BY <1>2, ConcatProperties
<1> HIDE DEF u
<1>4. Len(u) = len /\ n <= len
  BY <1>1, <1>2, <1>3 DEF len
<1>5. ASSUME NEW i \in 1 .. len PROVE u[i] = s[i]
  <2>1. CASE i <= n
    BY <1>1, <1>2, <1>3, <2>1
  <2>2. CASE i > n
    <3> DEFINE k == i - n
    <3>1. k \in 1 .. len - n /\ n + k = i
      BY <1>1, <2>2
    <3>2. u[i] = w[k]
      BY <1>1, <1>2, <1>3, <2>2
    <3> HIDE DEF k
    <3> QED
      BY <1>2, <3>1, <3>2
  <2> QED
    BY <1>1, <2>1, <2>2
<1>6. u = s
  BY <1>3, <1>4, <1>5, SeqEqual DEF len
<1> QED
  BY <1>6 DEF u, v, w, len

LEMMA WholeSeq ==
    ASSUME NEW s \in Seq(Nat)
    PROVE  SubSeq(s, 1, Len(s)) = s
<1> DEFINE n == Len(s)
           w == SubSeq(s, 1, n)
<1>1. n \in Nat /\ \A i \in 1 .. n : s[i] \in Nat
  BY LenProperties
<1> HIDE DEF n
<1>2. /\ w \in Seq(Nat) /\ Len(w) = (IF 1 <= n THEN n - 1 + 1 ELSE 0)
      /\ \A i \in 1 .. n - 1 + 1 : w[i] = s[1 + i - 1]
  BY <1>1, SubSeqProperties
<1> HIDE DEF w
<1>3. n - 1 + 1 = n /\ (IF 1 <= n THEN n - 1 + 1 ELSE 0) = n /\ \A i \in 1 .. n : 1 + i - 1 = i
  BY <1>1
<1>4. w \in Seq(Nat) /\ Len(w) = n /\ \A i \in 1 .. n : w[i] = s[i]
  BY <1>2, <1>3
<1>5. w = s
  BY <1>4, SeqEqual DEF n
<1> QED
  BY <1>5 DEF w, n

LEMMA ReturnsTakes ==
    ASSUME Abstract, Abstract', Returns, taken \in 1 .. MaxSize
    PROVE  Queue!BQNext
<1> DEFINE n == taken
           base == Base
           put == Put
           len == Len(output)
<1>1. /\ n \in 1 .. MaxSize /\ n \in Nat /\ put \in Nat /\ base \in Nat /\ base <= put /\ n <= put - base
      /\ len \in Nat /\ n <= len /\ output \in Seq(Nat) /\ InCall = n
  <2>1. n \in 1 .. MaxSize /\ InCall = n
    BY DEF Returns
  <2>2. /\ put \in Nat /\ base \in Nat /\ base <= put /\ InCall <= put - base
        /\ len \in Nat /\ InCall <= len /\ output \in Seq(Nat) /\ InCall \in Nat
    BY DEF Abstract
  <2> HIDE DEF n, put, base, len
  <2> QED
    BY <2>1, <2>2
<1>2. put' = put /\ InCall' = 0 /\ output' = output /\ base' = base + n
  <2>1. put' = put /\ InCall' = 0 /\ output' = output /\ Front' = Front
    BY DEF Returns
  <2> DEFINE f == Front
  <2>2. f \in Nat
    BY DEF Abstract
  <2>3. base' = f - 0 /\ base = f - n
    BY <1>1, <2>1 DEF Base
  <2> HIDE DEF f, base
  <2>4. f - 0 = f - n + n
    BY <1>1, <2>2
  <2> QED
    BY <2>1, <2>3, <2>4
<1>3. /\ Unread = Stream(base, put) /\ Unread' = Stream(base + n, put)
      /\ Published' = Published /\ Received = SubSeq(output, 1, len - n) /\ Received' = output
  <2>1. Unread = Stream(base, put) /\ Published = put /\ Received = SubSeq(output, 1, len - n)
    BY <1>1 DEF Abstract
  <2>2. Unread' = Stream(base', put') /\ Published' = put' /\ Received' = SubSeq(output', 1, Len(output') - InCall')
    BY DEF Abstract
  <2>3. Received' = SubSeq(output, 1, len)
    <3>1. Received' = SubSeq(output, 1, len - 0) /\ len - 0 = len
      BY <1>1, <1>2, <2>2
    <3> QED
      BY <3>1
  <2>4. SubSeq(output, 1, len) = output
    BY <1>1, WholeSeq
  <2> HIDE DEF n, base, put, len
  <2> QED
    BY <1>2, <2>1, <2>2, <2>3, <2>4
<1>4. SubSeq(output, len - n + 1, len) = Stream(base, base + n)
  BY <1>1 DEF Abstract
<1> HIDE DEF n, base, put
<1>5. SubSeq(Unread, 1, n) = Stream(base, base + n)
  <2>1. base + n <= put
    BY <1>1
  <2> QED
    BY <1>1, <1>3, <2>1, StreamPrefix
<1>6. SubSeq(Unread, n + 1, Len(Unread)) = Stream(base + n, put)
  <2> DEFINE k == put - base
  <2>1. k \in Nat /\ n <= k /\ base + k = put
    BY <1>1
  <2>2. Len(Unread) = k
    BY <1>1, <1>3, StreamIs
  <2> HIDE DEF k
  <2>3. SubSeq(Stream(base, put), n + 1, k) = Stream(base + n, base + k)
    <3>1. n \in Nat /\ k \in Nat /\ base \in Nat /\ put \in Nat /\ n <= k /\ base + k <= put
      BY <1>1, <2>1
    <3> QED
      BY <3>1, StreamPart
  <2> QED
    BY <1>3, <2>1, <2>2, <2>3
<1>7. Received \o SubSeq(Unread, 1, n) = output
  <2> DEFINE m == len - n
  <2>1. m \in Nat /\ m <= len /\ SubSeq(output, 1, m) \o SubSeq(output, m + 1, len) = output
    <3>1. m \in Nat /\ m <= len
      BY <1>1
    <3> HIDE DEF m
    <3> QED
      BY <1>1, <3>1, SplitSeq
  <2> QED
    BY <1>3, <1>4, <1>5, <2>1
<1>8. n <= Len(Unread)
  <2>1. Len(Unread) = put - base
    BY <1>1, <1>3, StreamIs
  <2> QED
    BY <1>1, <2>1
<1>9. Queue!Take(n)
  BY <1>3, <1>6, <1>7 DEF Queue!Take
<1> QED
  BY <1>1, <1>8, <1>9 DEF Queue!BQNext

LEMMA EmptiesDrops ==
    ASSUME Abstract, Abstract', Empties
    PROVE  Queue!BQNext
<1> DEFINE put == Put
<1>1. put' = put /\ InCall = 0 /\ InCall' = 0 /\ Front' = put /\ output' = output /\ put \in Nat
  BY DEF Abstract, Empties
<1>2. Base' = put
  <2> HIDE DEF put
  <2>1. Base' = put - 0
    BY <1>1 DEF Base
  <2> QED
    BY <1>1, <2>1
<1>3. Unread' = Stream(put, put) /\ Published' = Published /\ Received' = Received
  BY <1>1, <1>2 DEF Abstract
<1> HIDE DEF put
<1>4. Stream(put, put) = <<>>
  <2>1. Stream(put, put) \in Seq(Nat) /\ Len(Stream(put, put)) = 0
    BY <1>1, StreamIs
  <2> QED
    BY <2>1, EmptySeq
<1>5. Queue!Drop
  BY <1>3, <1>4 DEF Queue!Drop
<1> QED
  BY <1>5 DEF Queue!BQNext

LEMMA StepImplements ==
    ASSUME QInv, QInv', [Next]_vars
    PROVE  Queue!BQNext \/ UNCHANGED <<Unread, Published, Received>>
<1>1. Abstract /\ Abstract' /\ FInv /\ FInv'
  BY AbstractState, AbstractStateAfter DEF QInv
<1>2. CASE Quiet
  BY <1>1, <1>2, QuietStutters
<1>3. ASSUME NEW k \in Nat, Copies(k) PROVE UNCHANGED <<Unread, Published, Received>>
  BY <1>1, <1>3, CopiesStutters
<1>4. CASE Publishes
  <2>1. Size(NewNode) \in 1 .. MaxSize
    BY <1>4 DEF Publishes, QInv, Sizes
  <2> QED
    BY <1>1, <1>4, <2>1, PublishesPuts
<1>5. CASE Returns
  <2>1. taken \in 1 .. MaxSize
    BY <1>5 DEF Returns, QInv, Sizes
  <2> QED
    BY <1>1, <1>5, <2>1, ReturnsTakes
<1>6. CASE Empties
  BY <1>1, <1>6, EmptiesDrops
<1> QED
  BY <1>1, <1>2, <1>3, <1>4, <1>5, <1>6, StepKinds

LEMMA InitImplements == Init => Queue!BQInit
<1> SUFFICES ASSUME Init PROVE Queue!BQInit
  OBVIOUS
<1>1. Abstract
  BY QInvInitially, AbstractState
<1>2. Put = 0 /\ InCall = 0 /\ Front = 0 /\ output = <<>>
  BY DEF Init, Put, InCall, Front
<1>3. Base = 0 /\ Len(output) = 0
  BY <1>2 DEF Base
<1>4. Unread = Stream(0, 0) /\ Published = 0 /\ Received = SubSeq(output, 1, 0)
  BY <1>1, <1>2, <1>3 DEF Abstract
<1>5. Stream(0, 0) = <<>>
  BY DEF Stream
<1>6. SubSeq(output, 1, 0) = <<>>
  BY <1>2, <1>3, WholeSeq, EmptySeq
<1> QED
  BY <1>4, <1>5, <1>6 DEF Queue!BQInit

\* QxtFifo is a queue of bytes: a write takes effect when its size is added to
\* the count, a read when its size is subtracted, clear() at once; and no
\* other step of the two threads is seen.
THEOREM FifoIsByteQueue == ASSUME NoWrap PROVE Spec => IsByteQueue
<1>1. QInv /\ QInv' /\ [Next]_vars => [Queue!BQNext]_<<Unread, Published, Received>>
  BY StepImplements
<1>2. Init => Queue!BQInit
  BY InitImplements
<1>3. Spec => []QInv
  BY QInvHolds
<1> QED
  BY <1>1, <1>2, <1>3, PTL DEF Spec, IsByteQueue, Queue!BQSpec, Queue!bqVars

-----------------------------------------------------------------------------
(* File locks.                                                             *)

USE FileLocksAssumption

Registered == \A l \in Lock :
    /\ state[l] \notin {"idle", "registering"} <=> l \in procLocks[Owner(l)]
    /\ state[l] # "idle" => FileOf(l) \in open

NoCollision == \A p \in Process : \A l, m \in procLocks[p] :
    l # m /\ Owner(l) = p /\ Owner(m) = p => ~Collides(l, m)

Exclusive == \A p, q \in Process, b \in 0 .. MaxByte :
    p # q /\ kernel[p][b] = "write" => kernel[q][b] = "none"

Held == \A l \in Lock : state[l] = "active" /\ lost[l] = "no" =>
    \A b \in Bytes(l) : IF IsWriter(l) THEN kernel[Owner(l)][b] = "write" ELSE kernel[Owner(l)][b] # "none"

SharedByReaders == \A l \in Lock :
    lost[l] = "shared" /\ IsWriter(l) => ~AllPlain(Owner(l))

NeverLeaked == \A p \in Process, b \in 0 .. MaxByte : kernel[p][b] # "none" =>
    \E l \in Lock : Owner(l) = p /\ state[l] = "active" /\ b \in Bytes(l)

Legal == attribute \in Choices

LInv ==
    /\ LocksTypeOK /\ Legal /\ Registered /\ NoCollision
    /\ Exclusive /\ Held /\ SharedByReaders /\ NeverLeaked

-----------------------------------------------------------------------------
\* Facts about the ranges.

\* An off_t that fits an int is stored as it is.
LEMMA ToIntIsExact == ASSUME NEW n \in Nat, n <= MaxInt PROVE ToInt(n) = n
<1>1. n + MaxInt + 1 \in 0 .. (2 * (MaxInt + 1) - 1) /\ 2 * (MaxInt + 1) \in Nat \ {0}
  OBVIOUS
<1>2. \A a, b \in Nat : a < b => a % b = a
  OBVIOUS
<1>3. (n + MaxInt + 1) % (2 * (MaxInt + 1)) = n + MaxInt + 1
  BY <1>1, <1>2
<1> QED BY <1>3 DEF ToInt

LEMMA BytesAreBytes ==
    ASSUME LocksTypeOK, Legal, NEW l \in Lock
    PROVE  Bytes(l) \subseteq 0 .. MaxByte
<1>1. attribute[l].offset \in Nat /\ attribute[l].length \in Nat
  BY DEF LocksTypeOK, Attribute
<1>2. attribute[l].offset + attribute[l].length <= MaxByte + 1
  BY DEF Legal
<1> QED BY <1>1, <1>2 DEF Bytes

\* Two plain ranges that share a byte collide, if one of the locks writes.
LEMMA PlainOverlapCollides ==
    ASSUME LocksTypeOK, NEW l \in Lock, NEW m \in Lock, Plain(l), Plain(m), Overlap(l, m),
           IsWriter(l) \/ IsWriter(m)
    PROVE  Collides(l, m)
<1>1. /\ attribute[l].offset \in Nat /\ attribute[l].length \in Nat
      /\ attribute[m].offset \in Nat /\ attribute[m].length \in Nat
  BY DEF LocksTypeOK, Attribute
<1>2. First(l) = attribute[l].offset /\ First(m) = attribute[m].offset
  BY <1>1, ToIntIsExact DEF First, Plain
<1>3. End(l) = attribute[l].offset + attribute[l].length /\ End(m) = attribute[m].offset + attribute[m].length
  BY <1>1, ToIntIsExact DEF End, Plain
<1>4. PICK b \in Int : b \in Bytes(l) /\ b \in Bytes(m)
  BY <1>1 DEF Overlap, Bytes
<1> QED BY <1>1, <1>2, <1>3, <1>4 DEF Collides, Bytes, Plain

LEMMA CollisionIsMutual ==
    ASSUME LocksTypeOK, NEW l \in Lock, NEW m \in Lock, Collides(l, m)
    PROVE  Collides(m, l)
<1>1. /\ attribute[l].offset \in Nat /\ attribute[l].length \in Nat
      /\ attribute[m].offset \in Nat /\ attribute[m].length \in Nat
  BY DEF LocksTypeOK, Attribute
<1>2. \A n \in Nat : ToInt(n) \in Int
  BY DEF ToInt
<1>3. First(l) \in Int /\ First(m) \in Int /\ End(l) \in Int /\ End(m) \in Int
  BY <1>1, <1>2 DEF First, End
<1> QED BY <1>3 DEF Collides

LEMMA Owners == ASSUME LocksTypeOK, NEW l \in Lock PROVE FileOf(l) \in File /\ Owner(l) \in Process
  BY DEF LocksTypeOK, Attribute, FileOf, Owner

\* The attributes of a lock never change, nor what follows from them.
LEMMA AttributesStay ==
    ASSUME UNCHANGED attribute, NEW l \in Lock, NEW m \in Lock
    PROVE  /\ FileOf(l)' = FileOf(l) /\ Owner(l)' = Owner(l)
           /\ Bytes(l)' = Bytes(l) /\ (IsWriter(l)' <=> IsWriter(l)) /\ (Plain(l)' <=> Plain(l))
           /\ Type(l)' = Type(l) /\ (Collides(l, m)' <=> Collides(l, m)) /\ (Overlap(l, m)' <=> Overlap(l, m))
<1>1. FileOf(l)' = FileOf(l) /\ Owner(l)' = Owner(l) /\ Bytes(l)' = Bytes(l)
  BY DEF FileOf, Owner, Bytes
<1>2. Bytes(m)' = Bytes(m)
  BY DEF Bytes
<1>3. (IsWriter(l)' <=> IsWriter(l)) /\ (IsWriter(m)' <=> IsWriter(m)) /\ (Plain(l)' <=> Plain(l))
  BY DEF IsWriter, Plain
<1>4. Type(l)' = Type(l)
  BY <1>3 DEF Type
<1>5. First(l)' = First(l) /\ First(m)' = First(m) /\ End(l)' = End(l) /\ End(m)' = End(m)
  BY DEF First, End
<1>6. Collides(l, m)' <=> Collides(l, m)
  BY <1>3, <1>5 DEF Collides
<1>7. Overlap(l, m)' <=> Overlap(l, m)
  BY <1>1, <1>2 DEF Overlap
<1> QED BY <1>1, <1>3, <1>4, <1>6, <1>7

LEMMA AttributesNeverChange == [LocksNext]_lockVars => UNCHANGED attribute
  BY DEF lockVars, LocksNext, LockStep, Open, lock, registerLock, Acquire, Block, Withdraw, unlock, removeLock,
         Close, Closed, Crash

\* What the kernel and the history hold after an action that sets the bytes of a lock.
LEMMA SetKernelEffect ==
    ASSUME LocksTypeOK, NEW l \in Lock, NEW type \in {"none", "read", "write"}, SetKernel(l, type)
    PROVE  /\ kernel' \in [Process -> [0 .. MaxByte -> {"none", "read", "write"}]]
           /\ \A p \in Process, b \in 0 .. MaxByte :
                  kernel'[p][b] = IF p = Owner(l) /\ b \in Bytes(l) THEN type ELSE kernel[p][b]
<1>1. Owner(l) \in Process
  BY Owners
<1> QED BY <1>1 DEF SetKernel, LocksTypeOK

LEMMA LoseToEffect ==
    ASSUME LocksTypeOK, NEW l \in Lock, NEW type, LoseTo(l, type)
    PROVE  /\ lost' \in [Lock -> {"no", "shared", "closed"}]
           /\ \A m \in Lock :
                 /\ lost'[m] = "no" => lost[m] = "no"
                 /\ lost'[m] = "no" /\ m # l /\ Owner(m) = Owner(l) /\ isActive(m) /\ Overlap(l, m) => Type(m) = type
                 /\ lost'[m] = "shared" => lost[m] = "shared" \/
                      (m # l /\ Owner(m) = Owner(l) /\ isActive(m) /\ Overlap(l, m))
  BY DEF LoseTo, LocksTypeOK

LEMMA RemoveEffect ==
    ASSUME LocksTypeOK, NEW l \in Lock, Remove(l)
    PROVE  /\ procLocks' \in [Process -> SUBSET Lock]
           /\ \A p \in Process : procLocks'[p] = IF p = Owner(l) THEN procLocks[p] \ {l} ELSE procLocks[p]
<1>1. Owner(l) \in Process
  BY Owners
<1>2. procLocks' = [procLocks EXCEPT ![Owner(l)] = procLocks[Owner(l)] \ {l}]
  BY DEF Remove
<1> QED BY <1>1, <1>2 DEF LocksTypeOK

-----------------------------------------------------------------------------
(* Each part of the invariant is preserved by each action.                 *)

LEMMA LocksTypeStep == ASSUME LocksTypeOK, [LocksNext]_lockVars PROVE LocksTypeOK'
<1>1. CASE UNCHANGED lockVars
  BY <1>1 DEF lockVars, LocksTypeOK
<1>2. ASSUME NEW f \in File, Open(f) \/ Close(f) PROVE LocksTypeOK'
  BY <1>2 DEF Open, Close, LocksTypeOK
<1>3. ASSUME NEW f \in File, Closed(f) PROVE LocksTypeOK'
  <2>1. ProcessOf[f] \in Process
    OBVIOUS
  <2>2. kernel' \in [Process -> [0 .. MaxByte -> {"none", "read", "write"}]]
    BY <1>3, <2>1 DEF Closed, LocksTypeOK
  <2>3. lost' \in [Lock -> {"no", "shared", "closed"}]
    BY <1>3 DEF Closed, LocksTypeOK
  <2> QED BY <1>3, <2>2, <2>3 DEF Closed, LocksTypeOK
<1>4. ASSUME NEW l \in Lock, lock(l) PROVE LocksTypeOK'
  BY <1>4 DEF lock, Goto, States, LocksTypeOK
<1>5. ASSUME NEW l \in Lock, registerLock(l) PROVE LocksTypeOK'
  <2>1. Owner(l) \in Process
    BY Owners
  <2>2. procLocks' \in [Process -> SUBSET Lock]
    BY <1>5, <2>1 DEF registerLock, LocksTypeOK
  <2>3. state' \in [Lock -> States]
    BY <1>5 DEF registerLock, Goto, States, LocksTypeOK
  <2> QED BY <1>5, <2>2, <2>3 DEF registerLock, LocksTypeOK
<1>6. ASSUME NEW l \in Lock, Acquire(l) PROVE LocksTypeOK'
  <2>1. Type(l) \in {"none", "read", "write"}
    BY DEF Type
  <2>2. kernel' \in [Process -> [0 .. MaxByte -> {"none", "read", "write"}]]
    BY <1>6, <2>1, SetKernelEffect DEF Acquire
  <2>3. lost' \in [Lock -> {"no", "shared", "closed"}]
    BY <1>6, LoseToEffect DEF Acquire
  <2> QED BY <1>6, <2>2, <2>3 DEF Acquire, Goto, States, LocksTypeOK
<1>7. ASSUME NEW l \in Lock, Block(l) \/ Withdraw(l) \/ removeLock(l) PROVE LocksTypeOK'
  <2>1. CASE Block(l)
    BY <2>1 DEF Block, Goto, States, LocksTypeOK
  <2>2. CASE Withdraw(l) \/ removeLock(l)
    <3>1. procLocks' \in [Process -> SUBSET Lock]
      BY <2>2, RemoveEffect DEF Withdraw, removeLock
    <3>2. state' \in [Lock -> States] /\ lost' \in [Lock -> {"no", "shared", "closed"}]
      BY <2>2 DEF Withdraw, removeLock, Goto, States, LocksTypeOK
    <3> QED BY <2>2, <3>1, <3>2 DEF Withdraw, removeLock, LocksTypeOK
  <2> QED BY <1>7, <2>1, <2>2
<1>8. ASSUME NEW l \in Lock, unlock(l) PROVE LocksTypeOK'
  BY <1>8, SetKernelEffect, LoseToEffect DEF unlock, Goto, States, LocksTypeOK
<1>9. ASSUME NEW p \in Process, Crash(p) PROVE LocksTypeOK'
  <2>1. kernel' \in [Process -> [0 .. MaxByte -> {"none", "read", "write"}]]
    BY <1>9 DEF Crash, LocksTypeOK
  <2>2. state' \in [Lock -> States] /\ lost' \in [Lock -> {"no", "shared", "closed"}]
    BY <1>9 DEF Crash, LocksTypeOK, States
  <2> QED BY <1>9, <2>1, <2>2 DEF Crash, LocksTypeOK
<1> QED BY <1>1, <1>2, <1>3, <1>4, <1>5, <1>6, <1>7, <1>8, <1>9 DEF LocksNext, LockStep

LEMMA RegisteredStep == ASSUME LocksTypeOK, Registered, [LocksNext]_lockVars PROVE Registered'
<1>0. \A l \in Lock : FileOf(l)' = FileOf(l) /\ Owner(l)' = Owner(l) /\ Owner(l) \in Process /\ FileOf(l) \in File
  BY AttributesNeverChange, AttributesStay, Owners
<1>1. CASE UNCHANGED lockVars
  BY <1>0, <1>1 DEF lockVars, Registered
<1>2. ASSUME NEW f \in File, Open(f) \/ Close(f) \/ Closed(f) PROVE Registered'
  BY <1>0, <1>2 DEF Open, Close, Closed, Registered
<1>3. ASSUME NEW l \in Lock, lock(l) PROVE Registered'
  BY <1>0, <1>3 DEF lock, Goto, Busy, isActive, Registered, LocksTypeOK, States
<1>4. ASSUME NEW l \in Lock, registerLock(l) PROVE Registered'
  <2> DEFINE live == {m \in procLocks[Owner(l)] : FileOf(m) \in open}
  <2>1. \A m \in Lock : m \in procLocks[Owner(l)] /\ Owner(m) = Owner(l) => m \in live
    BY DEF Registered
  <2>2. CASE procLocks' = [procLocks EXCEPT ![Owner(l)] = live \cup {l}] /\ Goto(l, "locking")
    <3>1. \A m \in Lock : m # l => (m \in procLocks'[Owner(m)] <=> m \in procLocks[Owner(m)])
      BY <1>0, <2>1, <2>2 DEF LocksTypeOK
    <3>2. l \in procLocks'[Owner(l)]
      BY <1>0, <2>2 DEF LocksTypeOK
    <3> QED BY <1>0, <1>4, <2>2, <3>1, <3>2 DEF registerLock, Goto, Registered, LocksTypeOK
  <2>3. CASE Goto(l, "idle") /\ UNCHANGED procLocks
    BY <1>0, <1>4, <2>3 DEF registerLock, Goto, Registered, LocksTypeOK
  <2> QED BY <1>4, <2>2, <2>3 DEF registerLock
<1>5. ASSUME NEW l \in Lock, Acquire(l) \/ Block(l) \/ unlock(l) PROVE Registered'
  BY <1>0, <1>5 DEF Acquire, Block, unlock, isActive, Goto, Registered, LocksTypeOK
<1>6. ASSUME NEW l \in Lock, Withdraw(l) \/ removeLock(l) PROVE Registered'
  <2>1. \A m \in Lock : m # l => (m \in procLocks'[Owner(m)] <=> m \in procLocks[Owner(m)])
    BY <1>0, <1>6, RemoveEffect DEF Withdraw, removeLock
  <2>2. l \notin procLocks'[Owner(l)]
    BY <1>0, <1>6, RemoveEffect DEF Withdraw, removeLock
  <2>3. state' = [state EXCEPT ![l] = "idle"] /\ UNCHANGED open
    BY <1>6 DEF Withdraw, removeLock, Goto
  <2> QED BY <1>0, <2>1, <2>2, <2>3 DEF Registered, LocksTypeOK
<1>7. ASSUME NEW p \in Process, Crash(p) PROVE Registered'
  <2> DEFINE mine == {l \in Lock : Owner(l) = p}
             files == {f \in File : ProcessOf[f] = p}
  <2>1. \A l \in Lock : l \in mine <=> FileOf(l) \in files
    BY <1>0 DEF Owner
  <2>2. /\ state' = [l \in Lock |-> IF l \in mine THEN "idle" ELSE state[l]]
        /\ procLocks' = [procLocks EXCEPT ![p] = {}] /\ open' = open \ files
    BY <1>7 DEF Crash
  <2>3. \A l \in Lock : procLocks'[Owner(l)] = IF l \in mine THEN {} ELSE procLocks[Owner(l)]
    BY <1>0, <2>2 DEF LocksTypeOK
  <2> HIDE DEF mine, files
  <2> QED BY <1>0, <2>1, <2>2, <2>3 DEF Registered
<1> QED BY <1>1, <1>2, <1>3, <1>4, <1>5, <1>6, <1>7 DEF LocksNext, LockStep

LEMMA NoCollisionStep == ASSUME LocksTypeOK, Registered, NoCollision, [LocksNext]_lockVars PROVE NoCollision'
<1>0. \A l, m \in Lock : Owner(l)' = Owner(l) /\ (Collides(l, m)' <=> Collides(l, m))
  BY AttributesNeverChange, AttributesStay
<1>1. CASE \A p \in Process : procLocks'[p] \subseteq procLocks[p]
  BY <1>0, <1>1 DEF NoCollision, LocksTypeOK
<1>2. ASSUME NEW l \in Lock, registerLock(l) PROVE NoCollision'
  <2> DEFINE live == {m \in procLocks[Owner(l)] : FileOf(m) \in open}
  <2>1. CASE UNCHANGED procLocks
    BY <1>1, <2>1
  <2>2. CASE procLocks' = [procLocks EXCEPT ![Owner(l)] = live \cup {l}] /\ \A m \in live : ~Collides(l, m)
    <3>1. \A m \in Lock : m \in procLocks[Owner(l)] /\ Owner(m) = Owner(l) => ~Collides(l, m) /\ ~Collides(m, l)
      BY <2>2, CollisionIsMutual DEF Registered
    <3>2. \A p \in Process : procLocks'[p] \subseteq procLocks[p] \cup (IF p = Owner(l) THEN {l} ELSE {})
      BY <2>2 DEF LocksTypeOK
    <3>3. ASSUME NEW p \in Process, NEW a \in procLocks'[p], NEW b \in procLocks'[p],
                 a # b, Owner(a) = p, Owner(b) = p
          PROVE  ~Collides(a, b)
      BY <3>1, <3>2, <3>3 DEF NoCollision, LocksTypeOK
    <3>4. \A p \in Process : procLocks'[p] \subseteq Lock
      BY LocksTypeStep DEF LocksTypeOK
    <3> QED BY <1>0, <3>3, <3>4 DEF NoCollision
  <2> QED BY <1>2, <2>1, <2>2 DEF registerLock
<1>3. ASSUME NEW l \in Lock, Withdraw(l) \/ removeLock(l) PROVE NoCollision'
  BY <1>1, <1>3, Owners DEF Withdraw, removeLock, Remove, LocksTypeOK
<1>4. ASSUME NEW p \in Process, Crash(p) PROVE NoCollision'
  BY <1>1, <1>4 DEF Crash, LocksTypeOK
<1>5. CASE UNCHANGED procLocks
  BY <1>1, <1>5
<1> QED BY <1>2, <1>3, <1>4, <1>5
        DEF LocksNext, LockStep, lockVars, Open, Close, Closed, lock, Acquire, Block, unlock

-----------------------------------------------------------------------------
\* Every other action leaves the kernel's locks and the active locks alone.
LEMMA KernelStays ==
    ASSUME LocksTypeOK, [LocksNext]_lockVars,
           ~ \E l \in Lock : Acquire(l) \/ unlock(l),
           ~ \E f \in File : Closed(f), ~ \E p \in Process : Crash(p)
    PROVE  /\ UNCHANGED kernel
           /\ \A l \in Lock : (state'[l] = "active" <=> state[l] = "active")
           /\ \A l \in Lock : state[l] # "unlocked" => lost'[l] = lost[l]
           /\ \A l \in Lock : lost'[l] \in {lost[l], "no"}
  BY DEF LocksNext, LockStep, lockVars, Open, Close, lock, registerLock, Block, Withdraw, removeLock, Goto, isActive, LocksTypeOK

LEMMA ExclusiveStep == ASSUME LocksTypeOK, Legal, Exclusive, [LocksNext]_lockVars PROVE Exclusive'
<1>1. ASSUME NEW l \in Lock, Acquire(l) PROVE Exclusive'
  <2>1. \A p \in Process, b \in 0 .. MaxByte :
          kernel'[p][b] = IF p = Owner(l) /\ b \in Bytes(l) THEN Type(l) ELSE kernel[p][b]
    BY <1>1, SetKernelEffect DEF Acquire, Type
  <2>2. \A p \in Process, b \in Bytes(l) :
          p # Owner(l) => kernel[p][b] # "write" /\ (kernel[p][b] = "read" => ~IsWriter(l))
    BY <1>1 DEF Acquire, Granted, Refuses
  <2>3. \A p \in Process, b \in 0 .. MaxByte : kernel[p][b] \in {"none", "read", "write"}
    BY DEF LocksTypeOK
  <2> QED BY <2>1, <2>2, <2>3 DEF Exclusive, Type
<1>2. ASSUME NEW l \in Lock, unlock(l) PROVE Exclusive'
  <2>1. \A p \in Process, b \in 0 .. MaxByte : kernel'[p][b] \in {"none", kernel[p][b]}
    BY <1>2, SetKernelEffect DEF unlock
  <2> QED BY <2>1 DEF Exclusive
<1>3. ASSUME NEW f \in File, Closed(f) PROVE Exclusive'
  <2>1. \A p \in Process, b \in 0 .. MaxByte : kernel'[p][b] \in {"none", kernel[p][b]}
    BY <1>3 DEF Closed, LocksTypeOK
  <2> QED BY <2>1 DEF Exclusive
<1>4. ASSUME NEW p \in Process, Crash(p) PROVE Exclusive'
  <2>1. \A q \in Process, b \in 0 .. MaxByte : kernel'[q][b] \in {"none", kernel[q][b]}
    BY <1>4 DEF Crash, LocksTypeOK
  <2> QED BY <2>1 DEF Exclusive
<1>5. CASE UNCHANGED kernel
  BY <1>5 DEF Exclusive
<1> QED BY <1>1, <1>2, <1>3, <1>4, <1>5, KernelStays

LEMMA HeldStep == ASSUME LocksTypeOK, Legal, Held, [LocksNext]_lockVars PROVE Held'
<1>0. \A l \in Lock : /\ Owner(l)' = Owner(l) /\ Bytes(l)' = Bytes(l) /\ (IsWriter(l)' <=> IsWriter(l))
                       /\ Owner(l) \in Process /\ Bytes(l) \subseteq 0 .. MaxByte
  BY AttributesNeverChange, AttributesStay, Owners, BytesAreBytes
<1>1. ASSUME NEW l \in Lock, NEW type \in {"none", "read", "write"}, SetKernel(l, type), LoseTo(l, type),
             NEW m \in Lock, m # l, state[m] = "active", lost'[m] = "no", NEW b \in Bytes(m)
      PROVE  IF IsWriter(m) THEN kernel'[Owner(m)][b] = "write" ELSE kernel'[Owner(m)][b] # "none"
  <2>1. lost[m] = "no" /\ (Owner(m) = Owner(l) /\ Overlap(l, m) => Type(m) = type)
    BY <1>1, LoseToEffect DEF isActive
  <2>2. kernel'[Owner(m)][b] = IF Owner(m) = Owner(l) /\ b \in Bytes(l) THEN type ELSE kernel[Owner(m)][b]
    BY <1>0, <1>1, SetKernelEffect
  <2>3. IF IsWriter(m) THEN kernel[Owner(m)][b] = "write" ELSE kernel[Owner(m)][b] # "none"
    BY <1>1, <2>1 DEF Held
  <2>4. Owner(m) = Owner(l) /\ b \in Bytes(l) => type = Type(m)
    BY <1>1, <2>1 DEF Overlap
  <2> QED BY <2>2, <2>3, <2>4 DEF Type
<1>2. ASSUME NEW l \in Lock, Acquire(l) PROVE Held'
  <2>1. \A b \in Bytes(l) : kernel'[Owner(l)][b] = Type(l)
    BY <1>0, <1>2, SetKernelEffect DEF Acquire, Type
  <2>2. \A m \in Lock : m # l => state'[m] = state[m]
    BY <1>2 DEF Acquire, Goto, LocksTypeOK
  <2>3. SetKernel(l, Type(l)) /\ LoseTo(l, Type(l)) /\ Type(l) \in {"none", "read", "write"}
    BY <1>2 DEF Acquire, Type
  <2>4. ASSUME NEW m \in Lock, state'[m] = "active", lost'[m] = "no", NEW b \in Bytes(m)
        PROVE  IF IsWriter(m) THEN kernel'[Owner(m)][b] = "write" ELSE kernel'[Owner(m)][b] # "none"
    <3>1. CASE m = l
      BY <2>1, <2>4, <3>1 DEF Type
    <3>2. CASE m # l
      BY <1>1, <2>2, <2>3, <2>4, <3>2
    <3> QED BY <3>1, <3>2
  <2> QED BY <1>0, <2>4 DEF Held
<1>3. ASSUME NEW l \in Lock, unlock(l) PROVE Held'
  <2>1. \A m \in Lock : state'[m] = "active" => m # l /\ state[m] = "active"
    BY <1>3 DEF unlock, Goto, LocksTypeOK
  <2>2. SetKernel(l, "none") /\ LoseTo(l, "none")
    BY <1>3 DEF unlock
  <2>3. ASSUME NEW m \in Lock, state'[m] = "active", lost'[m] = "no", NEW b \in Bytes(m)
        PROVE  IF IsWriter(m) THEN kernel'[Owner(m)][b] = "write" ELSE kernel'[Owner(m)][b] # "none"
    BY <1>1, <2>1, <2>2, <2>3
  <2> QED BY <1>0, <2>3 DEF Held
<1>4. ASSUME NEW f \in File, Closed(f) PROVE Held'
  <2>1. ASSUME NEW m \in Lock, state'[m] = "active", lost'[m] = "no"
        PROVE  state[m] = "active" /\ lost[m] = "no" /\ kernel'[Owner(m)] = kernel[Owner(m)]
    BY <1>0, <1>4, <2>1 DEF Closed, isActive, LocksTypeOK
  <2> QED BY <1>0, <2>1 DEF Held
<1>5. ASSUME NEW p \in Process, Crash(p) PROVE Held'
  <2>1. ASSUME NEW m \in Lock, state'[m] = "active", lost'[m] = "no"
        PROVE  state[m] = "active" /\ lost[m] = "no" /\ kernel'[Owner(m)] = kernel[Owner(m)]
    BY <1>0, <1>5, <2>1 DEF Crash, LocksTypeOK
  <2> QED BY <1>0, <2>1 DEF Held
<1>6. CASE /\ UNCHANGED kernel
           /\ \A l \in Lock : state'[l] = "active" <=> state[l] = "active"
           /\ \A l \in Lock : state[l] # "unlocked" => lost'[l] = lost[l]
  <2>1. ASSUME NEW m \in Lock, state'[m] = "active", lost'[m] = "no"
        PROVE  state[m] = "active" /\ lost[m] = "no" /\ kernel'[Owner(m)] = kernel[Owner(m)]
    BY <1>6, <2>1
  <2> QED BY <1>0, <2>1 DEF Held
<1> QED BY <1>2, <1>3, <1>4, <1>5, <1>6, KernelStays

LEMMA SharedByReadersStep ==
    ASSUME LocksTypeOK, Registered, NoCollision, SharedByReaders, [LocksNext]_lockVars
    PROVE  SharedByReaders'
<1>0. \A l \in Lock : /\ Owner(l)' = Owner(l) /\ (IsWriter(l)' <=> IsWriter(l)) /\ (Plain(l)' <=> Plain(l))
                       /\ Owner(l) \in Process
  BY AttributesNeverChange, AttributesStay, Owners
<1>1. \A l \in Lock : AllPlain(Owner(l))' <=> AllPlain(Owner(l))
  BY <1>0 DEF AllPlain
<1>2. CASE \A l \in Lock : lost'[l] = "shared" => lost[l] = "shared"
  BY <1>0, <1>1, <1>2 DEF SharedByReaders
<1>3. ASSUME NEW l \in Lock, NEW type, LoseTo(l, type), state[l] \in {"locking", "blocked", "active", "unlocked"}
      PROVE  SharedByReaders'
  <2>1. ASSUME NEW m \in Lock, lost'[m] = "shared", lost[m] # "shared", IsWriter(m), AllPlain(Owner(m))
        PROVE  FALSE
    <3>1. m # l /\ Owner(m) = Owner(l) /\ isActive(m) /\ Overlap(l, m)
      BY <1>3, <2>1, LoseToEffect
    <3>2. l \in procLocks[Owner(l)] /\ m \in procLocks[Owner(l)]
      BY <1>3, <3>1 DEF Registered, isActive
    <3>3. Plain(l) /\ Plain(m)
      BY <2>1, <3>1 DEF AllPlain
    <3>4. Collides(l, m)
      BY <2>1, <3>1, <3>3, PlainOverlapCollides
    <3> QED BY <1>0, <3>1, <3>2, <3>4 DEF NoCollision
  <2> QED BY <1>0, <1>1, <2>1 DEF SharedByReaders
<1>4. ASSUME NEW l \in Lock, Acquire(l) \/ unlock(l) PROVE SharedByReaders'
  BY <1>3, <1>4 DEF Acquire, unlock, isActive
<1>5. ASSUME NEW f \in File, Closed(f) PROVE SharedByReaders'
  BY <1>2, <1>5 DEF Closed, LocksTypeOK
<1>6. ASSUME NEW p \in Process, Crash(p) PROVE SharedByReaders'
  BY <1>2, <1>6 DEF Crash, LocksTypeOK
<1>7. CASE \A l \in Lock : lost'[l] \in {lost[l], "no"}
  BY <1>2, <1>7
<1> QED BY <1>4, <1>5, <1>6, <1>7, KernelStays

LEMMA NeverLeakedStep == ASSUME LocksTypeOK, Legal, NeverLeaked, [LocksNext]_lockVars PROVE NeverLeaked'
<1>0. \A l \in Lock : Owner(l)' = Owner(l) /\ Bytes(l)' = Bytes(l) /\ Owner(l) \in Process
  BY AttributesNeverChange, AttributesStay, Owners
<1>1. ASSUME NEW l \in Lock, Acquire(l) PROVE NeverLeaked'
  <2>1. \A p \in Process, b \in 0 .. MaxByte : kernel'[p][b] # "none" =>
          kernel[p][b] # "none" \/ (p = Owner(l) /\ b \in Bytes(l))
    BY <1>1, SetKernelEffect DEF Acquire, Type
  <2>2. state'[l] = "active" /\ \A m \in Lock : state[m] = "active" => state'[m] = "active"
    BY <1>1 DEF Acquire, Goto, LocksTypeOK
  <2> QED BY <1>0, <2>1, <2>2 DEF NeverLeaked
<1>2. ASSUME NEW l \in Lock, unlock(l) PROVE NeverLeaked'
  <2>1. \A p \in Process, b \in 0 .. MaxByte : kernel'[p][b] # "none" =>
          kernel[p][b] # "none" /\ ~(p = Owner(l) /\ b \in Bytes(l))
    BY <1>2, SetKernelEffect DEF unlock
  <2>2. \A m \in Lock : m # l /\ state[m] = "active" => state'[m] = "active"
    BY <1>2 DEF unlock, Goto, LocksTypeOK
  <2> QED BY <1>0, <2>1, <2>2 DEF NeverLeaked
<1>3. ASSUME NEW f \in File, Closed(f) PROVE NeverLeaked'
  <2>1. \A p \in Process, b \in 0 .. MaxByte : kernel'[p][b] \in {"none", kernel[p][b]}
    BY <1>3 DEF Closed, LocksTypeOK
  <2> QED BY <1>0, <1>3, <2>1 DEF Closed, NeverLeaked
<1>4. ASSUME NEW p \in Process, Crash(p) PROVE NeverLeaked'
  <2>1. \A q \in Process, b \in 0 .. MaxByte : kernel'[q][b] # "none" => q # p /\ kernel[q][b] # "none"
    BY <1>4 DEF Crash, LocksTypeOK
  <2>2. \A m \in Lock : Owner(m) # p => state'[m] = state[m]
    BY <1>4 DEF Crash
  <2> QED BY <1>0, <2>1, <2>2 DEF NeverLeaked
<1>5. CASE UNCHANGED kernel /\ \A l \in Lock : state'[l] = "active" <=> state[l] = "active"
  BY <1>0, <1>5 DEF NeverLeaked
<1> QED BY <1>1, <1>2, <1>3, <1>4, <1>5, KernelStays

-----------------------------------------------------------------------------
LEMMA LInvInitially == LocksInit => LInv
<1> SUFFICES ASSUME LocksInit PROVE LInv
  OBVIOUS
<1>1. LocksTypeOK
  <2>1. attribute \in [Lock -> Attribute]
    BY DEF LocksInit
  <2>2. calls \in 0 .. MaxCalls
    BY DEF LocksInit
  <2> QED BY <2>1, <2>2 DEF LocksInit, LocksTypeOK, States
<1>2. Registered /\ NoCollision /\ Legal
  BY <1>1, Owners DEF LocksInit, Registered, NoCollision, Legal
<1>3. Exclusive /\ Held /\ SharedByReaders /\ NeverLeaked
  BY DEF LocksInit, Exclusive, Held, SharedByReaders, NeverLeaked
<1> QED BY <1>1, <1>2, <1>3 DEF LInv

LEMMA LInvStep == LInv /\ [LocksNext]_lockVars => LInv'
<1> SUFFICES ASSUME LInv, [LocksNext]_lockVars PROVE LInv'
  OBVIOUS
<1>1. Legal'
  BY AttributesNeverChange DEF LInv, Legal
<1> QED BY <1>1, LocksTypeStep, RegisteredStep, NoCollisionStep, ExclusiveStep, HeldStep, SharedByReadersStep,
           NeverLeakedStep DEF LInv

LEMMA LInvMeansAlone == LInv => WritersAreAlone
<1> SUFFICES ASSUME LInv, NEW l \in Lock, NEW m \in Lock,
                    l # m, state[l] = "active", state[m] = "active", IsWriter(l), Overlap(l, m)
             PROVE  IF Owner(l) = Owner(m) THEN ~Plain(l) \/ ~Plain(m) ELSE GivenAway(l) \/ GivenAway(m)
  BY DEF WritersAreAlone
<1>1. CASE Owner(l) = Owner(m)
  <2> SUFFICES ASSUME Plain(l), Plain(m) PROVE FALSE
    BY <1>1
  <2>1. Collides(l, m)
    BY PlainOverlapCollides DEF LInv
  <2>2. l \in procLocks[Owner(l)] /\ m \in procLocks[Owner(l)] /\ Owner(l) \in Process
    BY <1>1, Owners DEF LInv, Registered
  <2> QED BY <1>1, <2>1, <2>2 DEF LInv, NoCollision
<1>2. CASE Owner(l) # Owner(m)
  <2>1. \A k \in Lock : lost[k] = "no" \/ GivenAway(k)
    BY DEF LInv, SharedByReaders, GivenAway, LocksTypeOK
  <2> SUFFICES ASSUME lost[l] = "no", lost[m] = "no" PROVE FALSE
    BY <1>2, <2>1
  <2>2. PICK b \in Bytes(l) : b \in Bytes(m)
    BY DEF Overlap
  <2>3. kernel[Owner(l)][b] = "write" /\ kernel[Owner(m)][b] # "none"
    BY <2>2 DEF LInv, Held
  <2>4. b \in 0 .. MaxByte /\ Owner(l) \in Process /\ Owner(m) \in Process
    BY <2>2, BytesAreBytes, Owners DEF LInv
  <2> QED BY <1>2, <2>3, <2>4 DEF LInv, Exclusive
<1> QED BY <1>1, <1>2

\* No two active locks that overlap, one of which writes, are active at the same
\* time, with the exceptions WritersAreAlone names, for any processes and locks.
THEOREM WritersStayAlone == LocksSpec => []WritersAreAlone
  BY LInvInitially, LInvStep, LInvMeansAlone, PTL DEF LocksSpec

\* No byte stays locked, and no lock registered, for nobody.
THEOREM NothingIsLeftLocked == LocksSpec => []NothingStaysLocked
<1>1. LInv => NothingStaysLocked
  BY DEF LInv, NeverLeaked, Registered, NothingStaysLocked
<1> QED BY <1>1, LInvInitially, LInvStep, PTL DEF LocksSpec

\* Every variable keeps its type.
THEOREM LockTypesAreKept == LocksSpec => []LocksTypeOK
<1>1. LInv => LocksTypeOK
  BY DEF LInv
<1> QED BY <1>1, LInvInitially, LInvStep, PTL DEF LocksSpec
=============================================================================
