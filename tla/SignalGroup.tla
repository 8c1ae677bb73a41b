---------------------------- MODULE SignalGroup -----------------------------
(***************************************************************************)
(* QxtSignalGroup, which tells when any and when all of a group of signals *)
(* were emitted, and QxtMultiSignalWaiter, which waits for that in an      *)
(* event loop of its own.                                                  *)
(*                                                                         *)
(* Everything runs in one thread, but the slots of firstSignalReceived()   *)
(* and allSignalsReceived() are called in the middle of qt_metacall() and  *)
(* may do anything: emit a signal of the group again, change the group, or *)
(* wait, which handles further events before the slot returns.             *)
(***************************************************************************)
EXTENDS Naturals, Sequences, FiniteSets

CONSTANTS
    Signals,   \* signals (with their senders) that may be added
    MaxAdds,   \* bound: calls of addSignal()
    MaxDepth   \* bound: calls on the stack

ASSUME SignalGroupAssumption == MaxAdds \in Nat /\ MaxDepth \in Nat

Positions == 1 .. MaxAdds

VARIABLES
    emittedSignals,    \* one flag for each position
    emitCount,
    disconnectCount,
    connections,       \* the positions each signal is connected to, in order
    frames,            \* the calls that have not returned
    broken,            \* the group used a flag it does not have
    \* history
    adds,              \* calls of addSignal()
    received,          \* positions counted since reset()
    early,             \* allSignalsReceived() was emitted while a signal was missing
    miscounted,        \* a position was counted twice since reset(): see AllMeansAll
    disturbed,         \* the group was changed in a way it does not support
    shrunk             \* a signal was taken out while somebody waited for all

groupVars == <<emittedSignals, emitCount, disconnectCount, connections>>
noteVars == <<received, early, miscounted, disturbed, shrunk>>
vars == <<groupVars, frames, broken, adds, noteVars>>

Init ==
    /\ emittedSignals = <<>> /\ emitCount = 0 /\ disconnectCount = 0
    /\ connections = [s \in Signals |-> <<>>]
    /\ frames = <<>> /\ broken = FALSE
    /\ adds = 0 /\ received = {}
    /\ early = FALSE /\ miscounted = FALSE /\ disturbed = FALSE /\ shrunk = FALSE

-----------------------------------------------------------------------------
(* The stack: a signal on its way to its positions, the slots of one of    *)
(* the group's signals, a wait().                                          *)

EmitFrame(s) == [kind |-> "emit", signal |-> s, todo |-> connections[s]]
FirstFrame(pos) == [kind |-> "first", pos |-> pos, ct |-> Len(emittedSignals), valid |-> TRUE]
AllFrame == [kind |-> "all"]
WaitFrame(for) == [kind |-> "wait", for |-> for, ready |-> FALSE, timeout |-> FALSE]

Top == frames[Len(frames)]
TopIs(kind) == ~broken /\ frames # <<>> /\ Top.kind = kind
Below == SubSeq(frames, 1, Len(frames) - 1)
Has(kind) == \E i \in DOMAIN frames : frames[i].kind = kind
InFirst(pos) == \E i \in DOMAIN frames : frames[i].kind = "first" /\ frames[i].pos = pos

\* Some code of the application runs: a slot, an event handler, or its main function.
Free == ~broken /\ (frames # <<>> => Top.kind # "emit")
Push(frame) == Len(frames) < MaxDepth /\ frames' = Append(frames, frame)

Waiting(frame) == frame.kind = "wait" /\ ~frame.ready /\ ~frame.timeout

\* signalCaught() of whoever waits for that signal.
Caught(stack, for) ==
    [i \in DOMAIN stack |->
        IF Waiting(stack[i]) /\ stack[i].for = for THEN [stack[i] EXCEPT !.ready = TRUE] ELSE stack[i]]

\* The reference "state" that a call of qt_metacall() holds.
Invalidated == [i \in DOMAIN frames |->
    IF frames[i].kind = "first" THEN [frames[i] EXCEPT !.valid = FALSE] ELSE frames[i]]

\* A signal's further connections are passed over once it is disconnected.
Disconnected(s) == [i \in DOMAIN frames |->
    IF frames[i].kind = "emit" /\ frames[i].signal = s THEN [frames[i] EXCEPT !.todo = <<>>] ELSE frames[i]]

-----------------------------------------------------------------------------
(* The group.                                                              *)

HasReceivedFirstSignal == emitCount > 0

HasReceivedAllSignals == emitCount + disconnectCount >= Len(emittedSignals)

RangeOf(seq) == {seq[i] : i \in DOMAIN seq}
Attached == UNION {RangeOf(connections[s]) : s \in Signals}

\* append() may move the flags.
AddSignal(s) ==
    /\ Free
    /\ adds < MaxAdds
    /\ adds' = adds + 1
    /\ connections' = [connections EXCEPT ![s] = Append(@, Len(emittedSignals) + 1)]
    /\ emittedSignals' = Append(emittedSignals, FALSE)
    /\ frames' \in {frames, Invalidated}
    /\ disturbed' = (disturbed \/ Has("first"))
    /\ UNCHANGED <<emitCount, disconnectCount, broken, received, early, miscounted, shrunk>>

\* Faulty: does not ask whether the signal was connected.
RemoveUnasked(s) ==
    /\ Free
    /\ connections' = [connections EXCEPT ![s] = <<>>]
    /\ disconnectCount' = disconnectCount + 1
    /\ frames' = Disconnected(s)
    /\ UNCHANGED <<emittedSignals, emitCount, broken, adds, received, early, miscounted, disturbed, shrunk>>

\* disconnect() says whether there was anything to disconnect.
RemoveSignal(s) ==
    LET positions == RangeOf(connections[s]) IN
    /\ Free
    /\ positions # {}
    /\ connections' = [connections EXCEPT ![s] = <<>>]
    /\ disconnectCount' = disconnectCount + 1
    /\ frames' = Disconnected(s)
    /\ miscounted' = (miscounted \/ \E pos \in positions : pos \in received \/ InFirst(pos))
    /\ disturbed' = (disturbed \/ Len(connections[s]) > 1)
    /\ shrunk' = (shrunk \/ Has("wait"))
    /\ UNCHANGED <<emittedSignals, emitCount, broken, adds, received, early>>

\* What was counted twice is forgotten, unless a call is still about to count.
Reset ==
    /\ Free
    /\ emittedSignals' = [i \in DOMAIN emittedSignals |-> FALSE]
    /\ emitCount' = 0
    /\ received' = {}
    /\ early' = FALSE /\ miscounted' = (miscounted /\ Has("first"))
    /\ UNCHANGED <<disconnectCount, connections, frames, broken, adds, disturbed, shrunk>>

\* The connections stay.
Clear ==
    /\ Free
    /\ emittedSignals' = <<>>
    /\ emitCount' = 0 /\ disconnectCount' = 0
    /\ frames' = Invalidated
    /\ received' = {}
    /\ early' = FALSE /\ miscounted' = (miscounted /\ Has("first"))
    /\ disturbed' = (disturbed \/ Attached # {} \/ Has("first"))
    /\ shrunk' = (shrunk \/ Has("wait"))
    /\ UNCHANGED <<connections, broken, adds>>

\* A sender emits one of its signals.
Emit(s) ==
    /\ Free
    /\ connections[s] # <<>>
    /\ Push(EmitFrame(s))
    /\ UNCHANGED <<groupVars, broken, adds, noteVars>>

\* The second half of qt_metacall().
Counted(stack, pos, ct) ==
    /\ emitCount' = emitCount + 1
    /\ emittedSignals' = [emittedSignals EXCEPT ![pos] = TRUE]
    /\ received' = received \cup {pos}
    /\ IF emitCount' + disconnectCount = ct
       THEN frames' = Append(stack, AllFrame) /\ early' = (early \/ ~(Attached \subseteq received'))
       ELSE frames' = stack /\ UNCHANGED early

\* qt_metacall() for the next position: nothing to do, a flag that does not
\* exist, or a signal to count, which may be the first.
Deliver ==
    LET pos == Head(Top.todo)
        stack == [frames EXCEPT ![Len(frames)].todo = Tail(@)]
    IN
    /\ TopIs("emit") /\ Top.todo # <<>>
    /\ IF pos > Len(emittedSignals)
       THEN /\ broken' = (pos = Len(emittedSignals) + 1)
            /\ frames' = stack
            /\ UNCHANGED <<groupVars, noteVars>>
       ELSE IF emittedSignals[pos]
       THEN frames' = stack /\ UNCHANGED <<groupVars, broken, noteVars>>
       ELSE /\ miscounted' = (miscounted \/ InFirst(pos))
            /\ IF HasReceivedFirstSignal
               THEN Counted(stack, pos, Len(emittedSignals))
               ELSE /\ frames' = Append(stack, FirstFrame(pos))
                    /\ UNCHANGED <<emittedSignals, emitCount, received, early>>
            /\ UNCHANGED <<disconnectCount, connections, broken, disturbed, shrunk>>
    /\ UNCHANGED adds

EmitReturns ==
    /\ TopIs("emit") /\ Top.todo = <<>>
    /\ frames' = Below
    /\ UNCHANGED <<groupVars, broken, adds, noteVars>>

\* The slots of firstSignalReceived() have returned, those of wait() last.
FirstReturns ==
    /\ TopIs("first")
    /\ IF Top.valid
       THEN /\ Counted(Caught(Below, "any"), Top.pos, Top.ct)
            /\ UNCHANGED <<disconnectCount, connections, broken, miscounted, disturbed, shrunk>>
       ELSE /\ broken' = TRUE
            /\ UNCHANGED <<groupVars, frames, noteVars>>
    /\ UNCHANGED adds

AllReturns ==
    /\ TopIs("all")
    /\ frames' = Caught(Below, "all")
    /\ UNCHANGED <<groupVars, broken, adds, noteVars>>

-----------------------------------------------------------------------------
(* The waiters.                                                            *)

Received(for) == IF for = "any" THEN HasReceivedFirstSignal ELSE HasReceivedAllSignals

\* Faulty: waits even for what was received already.
WaitAlways(for) ==
    /\ Free
    /\ Push(WaitFrame(for))
    /\ UNCHANGED <<groupVars, broken, adds, noteVars>>

\* waitForAny() and waitForAll() make a waiter.
Wait(for) ==
    /\ Free
    /\ ~Received(for)
    /\ Push(WaitFrame(for))
    /\ UNCHANGED <<groupVars, broken, adds, noteVars>>

\* timerEvent(), of a waiter somewhere on the stack that was given a time.
TimerEvent(i) ==
    /\ TopIs("wait")
    /\ Waiting(frames[i])
    /\ frames' = [frames EXCEPT ![i].timeout = TRUE]
    /\ UNCHANGED <<groupVars, broken, adds, noteVars>>

WaitReturns ==
    /\ TopIs("wait") /\ ~Waiting(Top)
    /\ frames' = Below
    /\ UNCHANGED <<groupVars, broken, adds, noteVars>>

-----------------------------------------------------------------------------
Next ==
    \/ \E s \in Signals : AddSignal(s) \/ RemoveSignal(s) \/ Emit(s)
    \/ Reset \/ Clear
    \/ Deliver \/ EmitReturns \/ FirstReturns \/ AllReturns
    \/ \E for \in {"any", "all"} : Wait(for)
    \/ \E i \in DOMAIN frames : TimerEvent(i)
    \/ WaitReturns

Spec == Init /\ [][Next]_vars

-----------------------------------------------------------------------------
Frames ==
    [kind : {"emit"}, signal : Signals, todo : Seq(Positions)]
    \cup [kind : {"first"}, pos : Positions, ct : 0 .. MaxAdds, valid : BOOLEAN]
    \cup {AllFrame}
    \cup [kind : {"wait"}, for : {"any", "all"}, ready : BOOLEAN, timeout : BOOLEAN]

TypeOK ==
    /\ emittedSignals \in Seq(BOOLEAN) /\ Len(emittedSignals) <= adds
    /\ emitCount \in Nat /\ disconnectCount \in Nat
    /\ connections \in [Signals -> Seq(Positions)]
    /\ frames \in Seq(Frames)
    /\ adds \in 0 .. MaxAdds
    /\ received \subseteq 1 .. Len(emittedSignals)
    /\ {broken, early, miscounted, disturbed, shrunk} \subseteq BOOLEAN

\* allSignalsReceived() is emitted when every attached signal was received, and
\* the group uses only flags it has, although the slots of its own signals run
\* before it has counted.  The exceptions: since reset(), a signal was removed
\* that had been received, or came again while firstSignalReceived() was
\* emitted for it; or signals were added during firstSignalReceived(), attached
\* when clear() was called, or removed that had been added twice.
AllMeansAll ==
    /\ early => miscounted \/ disturbed
    /\ broken => disturbed

Complete == Attached # {} /\ Attached \subseteq received

\* Nobody sleeps on: when nothing is being emitted within a wait(), it waits
\* for something that the group has not received.  Who waits for all may miss
\* it when a signal is removed meanwhile, or clear() called, and after what
\* spoils the group's count: see the exceptions of AllMeansAll.
NobodyWaitsInVain ==
    \A i \in DOMAIN frames :
        /\ Waiting(frames[i])
        /\ \A j \in i .. Len(frames) : frames[j].kind = "wait"
        => /\ frames[i].for = "any" => received = {}
           /\ frames[i].for = "all" => ~Complete \/ shrunk \/ miscounted \/ disturbed
=============================================================================
