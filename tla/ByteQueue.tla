----------------------------- MODULE ByteQueue -----------------------------
(***************************************************************************)
(* What QxtFifo promises: a queue of bytes.  A write puts bytes at the     *)
(* end, a read takes some from the front, clear() drops them all.  A byte  *)
(* is its number in the stream of everything ever written.                 *)
(***************************************************************************)
EXTENDS Naturals, Sequences

CONSTANT MaxSize   \* the largest size passed to read() or write()

VARIABLES
    queue,      \* the bytes that a read can still get
    put,        \* how many bytes were put in the queue
    received    \* the bytes that reads returned

bqVars == <<queue, put, received>>

BQInit == queue = <<>> /\ put = 0 /\ received = <<>>

Put(n) ==
    /\ queue' = queue \o [i \in 1 .. n |-> put + i]
    /\ put' = put + n
    /\ UNCHANGED received

Take(n) ==
    /\ received' = received \o SubSeq(queue, 1, n)
    /\ queue' = SubSeq(queue, n + 1, Len(queue))
    /\ UNCHANGED put

Drop ==
    /\ queue' = <<>>
    /\ UNCHANGED <<put, received>>

BQNext ==
    \/ \E n \in 1 .. MaxSize : Put(n)
    \/ \E n \in 1 .. MaxSize : n <= Len(queue) /\ Take(n)
    \/ Drop

BQSpec == BQInit /\ [][BQNext]_bqVars
=============================================================================
