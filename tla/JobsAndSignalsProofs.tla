------------------------ MODULE JobsAndSignalsProofs -------------------------
(***************************************************************************)
(* Proofs about the parts of the core library that tell of what was done.  *)
(*                                                                         *)
(* SlotJobs, for every number of calls of exec(): the types, what join()   *)
(* promises of a job that was started once, and who can use a job that is  *)
(* destroyed.                                                              *)
(*                                                                         *)
(* SignalGroup, for every set of signals, number of calls of addSignal()   *)
(* and depth of the stack: the types, that all signals means all, and that *)
(* nobody who waits is forgotten.                                          *)
(***************************************************************************)
EXTENDS SlotJobs, SignalGroup, FiniteSetTheorems, SequenceTheorems, TLAPS

-----------------------------------------------------------------------------
(* Jobs.                                                                   *)

\* Where the one run of a job is that was started once.
OneRun ==
    \/ /\ subseeds = 1 /\ worker = "idle" /\ slots = 0 /\ dones = 0
       /\ running /\ receiver = "worker"
    \/ /\ subseeds = 0 /\ worker = "running" /\ slots = 0 /\ dones = 0
       /\ running /\ receiver = "worker"
    \/ /\ subseeds = 0 /\ worker = "ended" /\ slots = 1 /\ dones = 0
       /\ running /\ receiver = "main"
    \/ /\ subseeds = 0 /\ worker = "emitting" /\ slots = 1 /\ dones = 0
       /\ ~running /\ receiver = "main"
    \/ /\ subseeds = 0 /\ worker = "idle" /\ slots = 1
       /\ ~running /\ receiver = "main"

NoRun == subseeds = 0 /\ worker = "idle" /\ dones = 0 /\ slots = 0 /\ ~running

RunInv ==
    /\ connected = 0 => NoRun /\ ~delivered
    /\ connected = 1 => OneRun
    /\ connected = 1 /\ joined => ~running

\* A detached job is started once, and is not deleted before its done() was
\* delivered, which is the last thing that happens to it.
DetachedInv ==
    /\ detached => connected <= 1
    /\ detached /\ (delivered \/ deferred \/ dones > 0) => connected = 1 /\ ~Busy
    /\ deferred => detached /\ delivered
    /\ job = "gone" /\ detached => delivered /\ deferred

\* The main thread is in the destructor, or has left it, with a job that is not
\* alive; only of a detached job are there futures after its end.
DestroyedInv ==
    /\ job = "destroying" <=> main = "destroying"
    /\ job = "destroying" => ~detached
    /\ job = "gone" /\ ~detached => main = "free"
    /\ job # "alive" /\ ~hasty => ~Busy

JInv == JobsTypeOK /\ RunInv /\ DetachedInv /\ DestroyedInv /\ DestroyedIsUnused

-----------------------------------------------------------------------------
LEMMA JInvInitially == JobsInit => JInv
<1> SUFFICES ASSUME JobsInit PROVE JInv
  OBVIOUS
<1>1. waiter \in [ready : BOOLEAN, timeout : BOOLEAN, waiting : BOOLEAN, timed : BOOLEAN]
  BY DEF JobsInit, NewWaiter
<1>2. {detached, running, deferred, joined, delivered, hasty, late} \subseteq BOOLEAN
  BY DEF JobsInit
<1>3. connected \in 0 .. MaxExecs /\ {subseeds, dones, slots} \subseteq Nat
  BY SlotJobsAssumption DEF JobsInit, SlotJobsAssumption
<1>4. JobsTypeOK
  BY <1>1, <1>2, <1>3 DEF JobsInit, JobsTypeOK
<1>5. RunInv /\ DetachedInv /\ DestroyedInv /\ DestroyedIsUnused
  BY DEF JobsInit, RunInv, NoRun, DetachedInv, DestroyedInv, DestroyedIsUnused, Busy
<1> QED BY <1>4, <1>5 DEF JInv

LEMMA InwrapBeginsStep == JInv /\ InwrapBegins => JInv'
<1> SUFFICES ASSUME JInv, InwrapBegins PROVE JInv'
  OBVIOUS
<1> USE DEF InwrapBegins, Fine, mainVars
<1>1. JobsTypeOK'
  BY DEF JInv, JobsTypeOK
<1>2. RunInv'
  BY DEF JInv, JobsTypeOK, RunInv, NoRun, OneRun
<1>3. DetachedInv'
  BY DEF JInv, JobsTypeOK, DetachedInv, Busy
<1>4. DestroyedInv'
  BY DEF JInv, JobsTypeOK, DestroyedInv, Busy
<1>5. DestroyedIsUnused'
  BY DEF JInv, JobsTypeOK, DestroyedIsUnused, DestroyedInv, Busy
<1> QED BY <1>1, <1>2, <1>3, <1>4, <1>5 DEF JInv

LEMMA RunReturnsStep == JInv /\ RunReturns => JInv'
<1> SUFFICES ASSUME JInv, RunReturns PROVE JInv'
  OBVIOUS
<1> USE DEF RunReturns, Fine, mainVars, jobVars
<1>1. JobsTypeOK'
  BY DEF JInv, JobsTypeOK
<1>2. RunInv'
  BY DEF JInv, JobsTypeOK, RunInv, NoRun, OneRun
<1>3. DetachedInv'
  BY DEF JInv, JobsTypeOK, DetachedInv, Busy
<1>4. DestroyedInv' /\ DestroyedIsUnused'
  BY DEF JInv, JobsTypeOK, DestroyedInv, DestroyedIsUnused, Busy
<1> QED BY <1>1, <1>2, <1>3, <1>4 DEF JInv

LEMMA RunningIsResetStep == JInv /\ RunningIsReset => JInv'
<1> SUFFICES ASSUME JInv, RunningIsReset PROVE JInv'
  OBVIOUS
<1> USE DEF RunningIsReset, Fine, mainVars
<1>1. JobsTypeOK'
  BY DEF JInv, JobsTypeOK
<1>2. RunInv'
  BY DEF JInv, JobsTypeOK, RunInv, NoRun, OneRun
<1>3. DetachedInv'
  BY DEF JInv, JobsTypeOK, DetachedInv, Busy
<1>4. DestroyedInv' /\ DestroyedIsUnused'
  BY DEF JInv, JobsTypeOK, DestroyedInv, DestroyedIsUnused, Busy
<1> QED BY <1>1, <1>2, <1>3, <1>4 DEF JInv

LEMMA DoneIsEmittedStep == JInv /\ DoneIsEmitted => JInv'
<1> SUFFICES ASSUME JInv, DoneIsEmitted PROVE JInv'
  OBVIOUS
<1> USE DEF DoneIsEmitted, Fine, mainVars
<1>1. JobsTypeOK'
  BY DEF JInv, JobsTypeOK
<1>2. RunInv'
  BY DEF JInv, JobsTypeOK, RunInv, NoRun, OneRun
<1>3. DetachedInv'
  BY DEF JInv, JobsTypeOK, RunInv, OneRun, NoRun, DetachedInv, Busy
<1>4. DestroyedInv' /\ DestroyedIsUnused'
  BY DEF JInv, JobsTypeOK, DestroyedInv, DestroyedIsUnused, Busy
<1> QED BY <1>1, <1>2, <1>3, <1>4 DEF JInv

\* exec() of a job that was never started finds nothing under way.
LEMMA ExecStep == JInv /\ Exec => JInv'
<1> SUFFICES ASSUME JInv, Exec PROVE JInv'
  OBVIOUS
<1> USE SlotJobsAssumption DEF Exec, Fine, SlotJobsAssumption
<1>1. JobsTypeOK'
  <2>1. waiter' \in [ready : BOOLEAN, timeout : BOOLEAN, waiting : BOOLEAN, timed : BOOLEAN]
    BY DEF NewWaiter
  <2>2. connected' \in 0 .. MaxExecs /\ subseeds' \in Nat
    BY DEF JInv, JobsTypeOK
  <2> QED BY <2>1, <2>2 DEF JInv, JobsTypeOK
<1>2. RunInv'
  BY DEF JInv, JobsTypeOK, RunInv, NoRun, OneRun
<1>3. DetachedInv'
  BY DEF JInv, JobsTypeOK, RunInv, NoRun, DetachedInv, Busy
<1>4. DestroyedInv' /\ DestroyedIsUnused'
  BY DEF JInv, JobsTypeOK, DestroyedInv, DestroyedIsUnused, Busy
<1> QED BY <1>1, <1>2, <1>3, <1>4 DEF JInv

\* A step of the main thread that leaves the worker alone.
LEMMA MainStep ==
    ASSUME JInv, Fine, UNCHANGED threadVars, UNCHANGED <<detached, connected, deferred, delivered>>,
           JobsTypeOK', joined' => joined \/ ~running, DestroyedInv', job' = "gone" => job = "gone"
    PROVE  RunInv' /\ DetachedInv'
<1> USE DEF threadVars
<1>1. RunInv'
  BY DEF JInv, RunInv, NoRun, OneRun
<1>2. DetachedInv'
  BY DEF JInv, DetachedInv, Busy
<1> QED BY <1>1, <1>2

LEMMA JoinStep == JInv /\ (Join \/ Result) => JInv'
<1> SUFFICES ASSUME JInv, Join \/ Result PROVE JInv'
  OBVIOUS
<1> USE DEF Join, Result, HasFuture, Fine, threadVars
<1>1. JobsTypeOK'
  BY DEF JInv, JobsTypeOK
<1>2. DestroyedInv'
  BY DEF JInv, DestroyedInv, Busy
<1>3. DestroyedIsUnused'
  BY DEF JInv, DestroyedIsUnused, DestroyedInv, DetachedInv
<1>4. RunInv' /\ DetachedInv'
  BY <1>1, <1>2, MainStep
<1> QED BY <1>1, <1>2, <1>3, <1>4 DEF JInv

LEMMA DelayedResultStep ==
    ASSUME JInv, NEW timed \in BOOLEAN, DelayedResult(timed)
    PROVE  JInv'
<1> USE DEF DelayedResult, HasFuture, Fine, threadVars, jobVars
<1>1. JobsTypeOK'
  BY DEF JInv, JobsTypeOK, Busy
<1>2. DestroyedInv'
  BY DEF JInv, DestroyedInv, Busy
<1>3. DestroyedIsUnused'
  BY DEF JInv, DestroyedIsUnused
<1>4. RunInv' /\ DetachedInv'
  BY <1>1, <1>2, MainStep
<1> QED BY <1>1, <1>2, <1>3, <1>4 DEF JInv

LEMMA WaiterReturnsStep ==
    ASSUME JInv, WaiterReturns
    PROVE  JInv'
<1> USE DEF WaiterReturns, Fine, threadVars, jobVars
<1>1. JobsTypeOK'
  BY DEF JInv, JobsTypeOK
<1>2. DestroyedInv'
  BY DEF JInv, DestroyedInv, Busy
<1>3. DestroyedIsUnused'
  BY DEF JInv, DestroyedIsUnused
<1>4. RunInv' /\ DetachedInv'
  BY <1>1, <1>2, MainStep
<1> QED BY <1>1, <1>2, <1>3, <1>4 DEF JInv

LEMMA JoinReturnsStep ==
    ASSUME JInv, JoinReturns
    PROVE  JInv'
<1> USE DEF JoinReturns, Fine, threadVars, jobVars
<1>1. JobsTypeOK'
  BY DEF JInv, JobsTypeOK
<1>2. DestroyedInv'
  BY DEF JInv, DestroyedInv, Busy
<1>3. DestroyedIsUnused'
  BY DEF JInv, DestroyedIsUnused
<1>4. RunInv' /\ DetachedInv'
  BY <1>1, <1>2, MainStep
<1> QED BY <1>1, <1>2, <1>3, <1>4 DEF JInv

LEMMA WaiterTimerEventStep ==
    ASSUME JInv, WaiterTimerEvent
    PROVE  JInv'
<1> USE DEF WaiterTimerEvent, EventLoop, Fine, threadVars, jobVars
<1>1. JobsTypeOK'
  BY DEF JInv, JobsTypeOK
<1>2. DestroyedInv'
  BY DEF JInv, DestroyedInv, Busy
<1>3. DestroyedIsUnused'
  BY DEF JInv, DestroyedIsUnused
<1>4. RunInv' /\ DetachedInv'
  BY <1>1, <1>2, MainStep
<1> QED BY <1>1, <1>2, <1>3, <1>4 DEF JInv

LEMMA DestroyBeginsStep == JInv /\ DestroyBegins => JInv'
<1> SUFFICES ASSUME JInv, DestroyBegins PROVE JInv'
  OBVIOUS
<1> USE DEF DestroyBegins, Fine, threadVars
<1>1. JobsTypeOK'
  BY DEF JInv, JobsTypeOK, Busy
<1>2. DestroyedInv'
  BY DEF JInv, JobsTypeOK, DestroyedInv, Busy
<1>3. DestroyedIsUnused'
  BY DEF JInv, JobsTypeOK, DestroyedIsUnused, Busy
<1>4. RunInv' /\ DetachedInv'
  BY <1>1, <1>2, MainStep
<1> QED BY <1>1, <1>2, <1>3, <1>4 DEF JInv

LEMMA DestroyEndsStep == JInv /\ DestroyEnds => JInv'
<1> SUFFICES ASSUME JInv, DestroyEnds PROVE JInv'
  OBVIOUS
<1> USE DEF DestroyEnds, Fine
<1>1. JobsTypeOK'
  BY DEF JInv, JobsTypeOK
<1>2. RunInv'
  BY DEF JInv, JobsTypeOK, RunInv, NoRun, OneRun
<1>3. DetachedInv' /\ DestroyedInv'
  BY DEF JInv, JobsTypeOK, DetachedInv, DestroyedInv, Busy
<1>4. DestroyedIsUnused'
  BY DEF JInv, DestroyedIsUnused
<1> QED BY <1>1, <1>2, <1>3, <1>4 DEF JInv

LEMMA DeliverDoneStep == JInv /\ DeliverDone => JInv'
<1> SUFFICES ASSUME JInv, DeliverDone PROVE JInv'
  OBVIOUS
<1> USE DEF DeliverDone, EventLoop, Fine
<1>1. JobsTypeOK'
  <2>1. waiter' \in [ready : BOOLEAN, timeout : BOOLEAN, waiting : BOOLEAN, timed : BOOLEAN]
    BY DEF JInv, JobsTypeOK, SignalCaught
  <2>2. dones' \in Nat /\ deferred' \in BOOLEAN /\ delivered' \in BOOLEAN
    BY DEF JInv, JobsTypeOK
  <2> QED BY <2>1, <2>2 DEF JInv, JobsTypeOK
<1>2. RunInv'
  BY DEF JInv, JobsTypeOK, RunInv, NoRun, OneRun
<1>3. DetachedInv'
  BY DEF JInv, JobsTypeOK, DetachedInv, Busy
<1>4. DestroyedInv' /\ DestroyedIsUnused'
  BY DEF JInv, DestroyedInv, DestroyedIsUnused, Busy
<1> QED BY <1>1, <1>2, <1>3, <1>4 DEF JInv

LEMMA DeferredDeleteStep == JInv /\ DeferredDelete => JInv'
<1> SUFFICES ASSUME JInv, DeferredDelete PROVE JInv'
  OBVIOUS
<1> USE DEF DeferredDelete, EventLoop, Fine, threadVars, mainVars
<1>1. JobsTypeOK'
  BY DEF JInv, JobsTypeOK
<1>2. RunInv'
  BY DEF JInv, RunInv, NoRun, OneRun
<1>3. DetachedInv' /\ DestroyedInv'
  BY DEF JInv, DetachedInv, DestroyedInv, Busy
<1>4. DestroyedIsUnused'
  BY DEF JInv, DestroyedIsUnused
<1> QED BY <1>1, <1>2, <1>3, <1>4 DEF JInv

LEMMA JInvStep == JInv /\ [JobsNext]_slotJobVars => JInv'
<1> SUFFICES ASSUME JInv, [JobsNext]_slotJobVars PROVE JInv'
  OBVIOUS
<1>1. CASE UNCHANGED slotJobVars
  BY <1>1 DEF slotJobVars, threadVars, mainVars, jobVars, JInv, JobsTypeOK, RunInv, NoRun, OneRun, DetachedInv,
     DestroyedInv, DestroyedIsUnused, Busy
<1>2. CASE Worker
  BY <1>2, InwrapBeginsStep, RunReturnsStep, RunningIsResetStep, DoneIsEmittedStep DEF Worker
<1>3. CASE Main
  BY <1>3, WaiterReturnsStep, JoinReturnsStep, WaiterTimerEventStep, JoinStep, DestroyEndsStep, DeliverDoneStep, DeferredDeleteStep DEF Main
<1>4. CASE Exec \/ Join \/ DestroyBegins \/ \E timed \in BOOLEAN : DelayedResult(timed)
  BY <1>4, ExecStep, JoinStep, DestroyBeginsStep, DelayedResultStep
<1> QED BY <1>1, <1>2, <1>3, <1>4 DEF JobsNext

LEMMA JInvHolds == JobsSpec => []JInv
  BY JInvInitially, JInvStep, PTL DEF JobsSpec

\* A job that was started once has run, once and in the worker, and is not run
\* again when join() or result() has returned.
THEOREM JoinedStaysDone == JobsSpec => []JoinedMeansDone
<1>1. JInv => JoinedMeansDone
  BY DEF JInv, JobsTypeOK, RunInv, OneRun, JoinedMeansDone
<1> QED BY <1>1, JInvHolds, PTL

\* Nobody uses a destroyed job, but for a worker that had still to send done()
\* and a main thread that asks for the result of a detached job too late.
THEOREM DestroyedStaysUnused == JobsSpec => []DestroyedIsUnused
<1>1. JInv => DestroyedIsUnused
  BY DEF JInv
<1> QED BY <1>1, JInvHolds, PTL

\* The types of a job's state.
THEOREM JobsTypesAreKept == JobsSpec => []JobsTypeOK
<1>1. JInv => JobsTypeOK
  BY DEF JInv
<1> QED BY <1>1, JInvHolds, PTL

-----------------------------------------------------------------------------
(* Signal groups.                                                          *)

\* What was received is what the flags say.
ReceivedInv ==
    /\ received = {i \in DOMAIN emittedSignals : emittedSignals[i]}
    /\ emitCount = 0 <=> received = {}

\* What a call on the stack may rely on.
FrameInv(frame) ==
    /\ frame.kind = "emit" => RangeOf(frame.todo) \subseteq RangeOf(connections[frame.signal])
    /\ frame.kind = "first" =>
        /\ frame.valid => frame.pos <= Len(emittedSignals)
        /\ ~disturbed => frame.valid /\ frame.ct = Len(emittedSignals)
    /\ frame.kind = "wait" => (Waiting(frame) /\ frame.for = "any" => received = {})

StackInv == \A i \in DOMAIN frames : FrameInv(frames[i])

\* Every flag belongs to a connection, or to a signal that was taken out.
AttachedInv ==
    ~disturbed =>
        /\ Attached \subseteq 1 .. Len(emittedSignals)
        /\ \A s \in Signals : \A i, j \in DOMAIN connections[s] : connections[s][i] = connections[s][j] => i = j
        /\ \A s, t \in Signals : s # t => RangeOf(connections[s]) \cap RangeOf(connections[t]) = {}
        /\ Cardinality(Attached) + disconnectCount = Len(emittedSignals)

\* Every signal is counted once, and a call on the stack counts one that was not.
CountInv ==
    ~disturbed /\ ~miscounted =>
        /\ emitCount = Cardinality(received)
        /\ received \subseteq Attached
        /\ \A i \in DOMAIN frames : frames[i].kind = "first" => frames[i].pos \in Attached \ received
        /\ \A i, j \in DOMAIN frames :
            frames[i].kind = "first" /\ frames[j].kind = "first" /\ frames[i].pos = frames[j].pos => i = j

\* Who waits for all will hear of it from a call above it.
AllInv ==
    Complete /\ ~shrunk /\ ~miscounted /\ ~disturbed =>
        \A i \in DOMAIN frames : Waiting(frames[i]) /\ frames[i].for = "all" =>
            \E j \in DOMAIN frames : i < j /\ frames[j].kind = "all"

GInv == TypeOK /\ ReceivedInv /\ StackInv /\ AttachedInv /\ CountInv /\ AllInv /\ AllMeansAll

-----------------------------------------------------------------------------
(* The calls on the stack.                                                 *)

LEMMA FrameKinds ==
    ASSUME NEW f \in Frames
    PROVE  /\ f.kind \in {"emit", "first", "all", "wait"}
           /\ f.kind = "emit" => f.signal \in Signals /\ f.todo \in Seq(Positions)
           /\ f.kind = "first" => f.pos \in Positions /\ f.ct \in 0 .. MaxAdds /\ f.valid \in BOOLEAN
           /\ f.kind = "wait" => f.for \in {"any", "all"} /\ f.ready \in BOOLEAN /\ f.timeout \in BOOLEAN
  BY DEF Frames, AllFrame

\* A call that is the same but for signals it has passed on and news a waiter has got.
Later(f, g) ==
    /\ f.kind = g.kind
    /\ f.kind = "emit" => f.signal = g.signal /\ RangeOf(f.todo) \subseteq RangeOf(g.todo)
    /\ f.kind = "first" => f.pos = g.pos /\ f.ct = g.ct /\ f.valid = g.valid
    /\ f.kind = "wait" => f.for = g.for /\ (Waiting(f) => Waiting(g))

\* What is left of the stack: the upper calls may have returned.
Left(stack) ==
    /\ stack \in Seq(Frames)
    /\ Len(stack) <= Len(frames)
    /\ \A i \in 1 .. Len(stack) : Later(stack[i], frames[i])

LEMMA CaughtType ==
    ASSUME NEW stack \in Seq(Frames), NEW for \in {"any", "all"}
    PROVE  /\ Caught(stack, for) \in Seq(Frames)
           /\ Len(Caught(stack, for)) = Len(stack)
           /\ \A i \in 1 .. Len(stack) :
                /\ Later(Caught(stack, for)[i], stack[i])
                /\ Waiting(Caught(stack, for)[i]) => Caught(stack, for)[i].for # for
<1> DEFINE c(i) == IF Waiting(stack[i]) /\ stack[i].for = for THEN [stack[i] EXCEPT !.ready = TRUE] ELSE stack[i]
<1>1. DOMAIN stack = 1 .. Len(stack) /\ Len(stack) \in Nat
  OBVIOUS
<1>2. Caught(stack, for) = [i \in 1 .. Len(stack) |-> c(i)]
  BY <1>1 DEF Caught
<1>3. ASSUME NEW i \in 1 .. Len(stack)
      PROVE  /\ c(i) \in Frames
             /\ Later(c(i), stack[i])
             /\ Waiting(c(i)) => c(i).for # for
  <2>1. stack[i] \in Frames
    OBVIOUS
  <2>2. CASE Waiting(stack[i]) /\ stack[i].for = for
    <3>1. stack[i] \in [kind : {"wait"}, for : {"any", "all"}, ready : BOOLEAN, timeout : BOOLEAN]
      BY <2>1, <2>2 DEF Waiting, Frames, AllFrame
    <3>2. c(i) \in [kind : {"wait"}, for : {"any", "all"}, ready : BOOLEAN, timeout : BOOLEAN]
          /\ c(i).ready = TRUE /\ c(i).for = for
      BY <2>2, <3>1
    <3>3. c(i) \in Frames
      BY <3>2 DEF Frames
    <3> QED BY <2>2, <3>1, <3>2, <3>3 DEF Later, Waiting
  <2>3. CASE ~(Waiting(stack[i]) /\ stack[i].for = for)
    BY <2>1, <2>3 DEF Later
  <2> QED BY <2>2, <2>3
<1> HIDE DEF c
<1>4. Caught(stack, for) \in [1 .. Len(stack) -> Frames]
  BY <1>2, <1>3
<1>5. Caught(stack, for) \in Seq(Frames) /\ Len(Caught(stack, for)) = Len(stack)
  BY <1>1, <1>4
<1> QED BY <1>2, <1>3, <1>5

LEMMA LaterTransitive ==
    ASSUME NEW f, NEW g, NEW h, Later(f, g), Later(g, h)
    PROVE  Later(f, h)
  BY DEF Later

LEMMA BelowLeft ==
    ASSUME TypeOK, frames # <<>>
    PROVE  /\ Below \in Seq(Frames) /\ Len(Below) = Len(frames) - 1
           /\ \A i \in 1 .. Len(Below) : Below[i] = frames[i]
           /\ Left(Below)
<1>1. frames \in Seq(Frames) /\ Len(frames) \in Nat \ {0}
  BY DEF TypeOK
<1>2. Below \in Seq(Frames) /\ Len(Below) = Len(frames) - 1 /\ \A i \in 1 .. Len(Below) : Below[i] = frames[i]
  <2>1. \A i \in 1 .. Len(frames) - 1 : frames[i] \in Frames
    BY <1>1
  <2>2. 1 \in Int /\ Len(frames) - 1 \in Int
    BY <1>1
  <2>3. /\ Below \in Seq(Frames)
        /\ Len(Below) = IF 1 <= Len(frames) - 1 THEN Len(frames) - 1 - 1 + 1 ELSE 0
        /\ \A i \in 1 .. Len(frames) - 1 - 1 + 1 : Below[i] = frames[1 + i - 1]
    BY <2>1, <2>2, SubSeqProperties DEF Below
  <2>4. Len(Below) = Len(frames) - 1
    <3>1. ASSUME NEW n \in Nat \ {0}, NEW m, m = IF 1 <= n - 1 THEN n - 1 - 1 + 1 ELSE 0
          PROVE  m = n - 1
      BY <3>1
    <3> QED BY <1>1, <2>3, <3>1
  <2>5. \A i \in 1 .. Len(Below) : Below[i] = frames[i]
    BY <1>1, <2>3, <2>4
  <2> QED BY <2>3, <2>4, <2>5
<1> QED BY <1>1, <1>2 DEF Left, Later

LEMMA CaughtLeft ==
    ASSUME TypeOK, frames # <<>>, NEW for \in {"any", "all"}
    PROVE  /\ Left(Caught(Below, for))
           /\ Len(Caught(Below, for)) = Len(frames) - 1
           /\ \A i \in 1 .. Len(Caught(Below, for)) : Waiting(Caught(Below, for)[i]) => Caught(Below, for)[i].for # for
<1>1. Below \in Seq(Frames) /\ Len(Below) = Len(frames) - 1 /\ Left(Below)
  BY BelowLeft
<1>2. Len(frames) \in Nat
  BY DEF TypeOK
<1> QED BY <1>1, <1>2, CaughtType, LaterTransitive DEF Left

\* The signal at the top of the stack has one position less to go to.
Passed == [frames EXCEPT ![Len(frames)].todo = Tail(@)]

LEMMA PassedLeft ==
    ASSUME TypeOK, TopIs("emit"), Top.todo # <<>>
    PROVE  /\ Left(Passed)
           /\ Len(Passed) = Len(frames)
           /\ Head(Top.todo) \in RangeOf(Top.todo)
<1> DEFINE n == Len(frames)
<1>1. frames \in Seq(Frames) /\ n \in Nat \ {0} /\ n \in 1 .. n /\ DOMAIN frames = 1 .. n
  BY DEF TypeOK, TopIs
<1>2. frames[n] \in [kind : {"emit"}, signal : Signals, todo : Seq(Positions)]
  BY <1>1 DEF TopIs, Top, Frames, AllFrame
<1>3. frames[n].todo \in Seq(Positions) /\ frames[n].todo # <<>>
  BY <1>2 DEF Top
<1>4. Tail(frames[n].todo) \in Seq(Positions)
      /\ RangeOf(Tail(frames[n].todo)) \subseteq RangeOf(frames[n].todo)
      /\ Head(frames[n].todo) \in RangeOf(frames[n].todo)
  BY <1>3, HeadTailProperties DEF RangeOf
<1> DEFINE new == [frames[n] EXCEPT !.todo = Tail(@)]
<1>5. new \in [kind : {"emit"}, signal : Signals, todo : Seq(Positions)]
      /\ new.todo = Tail(frames[n].todo) /\ new.signal = frames[n].signal
  BY <1>2, <1>4
<1>6. new \in Frames /\ Later(new, frames[n])
  BY <1>2, <1>4, <1>5 DEF Frames, Later
<1>7. Passed = [frames EXCEPT ![n] = new]
  BY <1>1 DEF Passed
<1> HIDE DEF new
<1>8. Passed \in Seq(Frames) /\ Len(Passed) = n /\ \A j \in 1 .. n : Passed[j] = IF j = n THEN new ELSE frames[j]
  BY <1>1, <1>6, <1>7, ExceptSeq
<1>9. \A j \in 1 .. n : Later(Passed[j], frames[j])
  BY <1>6, <1>8 DEF Later
<1>10. Top = frames[n]
  BY DEF Top
<1>11. Left(Passed)
  <2>1. Passed \in Seq(Frames) /\ Len(Passed) = Len(frames)
    BY <1>8
  <2>2. \A j \in 1 .. Len(Passed) : Later(Passed[j], frames[j])
    BY <1>8, <1>9
  <2>3. Len(Passed) <= Len(frames)
    BY <1>1, <2>1
  <2> QED BY <2>1, <2>2, <2>3 DEF Left
<1> QED BY <1>4, <1>8, <1>10, <1>11

WaitsFor(frame, for) == Waiting(frame) /\ frame.for = for

\* What is left on the stack may rely on what it relied on before.
LEMMA StackLeft ==
    ASSUME GInv, NEW stack, Left(stack),
           connections' = connections, disturbed' = disturbed,
           Len(emittedSignals') = Len(emittedSignals),
           \/ received' = received
           \/ \A i \in 1 .. Len(stack) : ~WaitsFor(stack[i], "any")
    PROVE  \A i \in 1 .. Len(stack) : FrameInv(stack[i])'
<1> TAKE i \in 1 .. Len(stack)
<1>1. frames \in Seq(Frames) /\ Len(frames) \in Nat /\ Len(stack) \in Nat /\ DOMAIN frames = 1 .. Len(frames)
  BY DEF GInv, TypeOK, Left
<1>2. i \in DOMAIN frames /\ Later(stack[i], frames[i]) /\ FrameInv(frames[i])
  BY <1>1 DEF GInv, StackInv, Left
<1>3. stack[i].kind = "emit" => RangeOf(stack[i].todo) \subseteq RangeOf(connections'[stack[i].signal])
  BY <1>2 DEF Later, FrameInv
<1>4. stack[i].kind = "first" =>
        /\ stack[i].valid => stack[i].pos <= Len(emittedSignals')
        /\ ~disturbed' => stack[i].valid /\ stack[i].ct = Len(emittedSignals')
  BY <1>2 DEF Later, FrameInv
<1>5. stack[i].kind = "wait" => (Waiting(stack[i]) /\ stack[i].for = "any" => received' = {})
  BY <1>2 DEF Later, FrameInv, WaitsFor, Waiting
<1> QED BY <1>3, <1>4, <1>5 DEF FrameInv

\* Calls that return, or hear of something, and change nothing else: none that
\* will tell who waits for all, or they are told.
LEMMA QuietStep ==
    ASSUME GInv, UNCHANGED <<groupVars, adds, noteVars>>, Left(frames'),
           broken' \in BOOLEAN, broken' => broken \/ disturbed,
           \/ \A j \in DOMAIN frames : frames[j].kind = "all" => j <= Len(frames')
           \/ \A i \in 1 .. Len(frames') : ~WaitsFor(frames'[i], "all")
    PROVE  GInv'
<1> USE DEF groupVars, noteVars
<1>0. Attached' = Attached
  BY DEF Attached
<1>1. frames \in Seq(Frames) /\ Len(frames) \in Nat /\ DOMAIN frames = 1 .. Len(frames)
  BY DEF GInv, TypeOK
<1>2. frames' \in Seq(Frames) /\ Len(frames') \in Nat /\ DOMAIN frames' = 1 .. Len(frames') /\ Len(frames') <= Len(frames)
  BY DEF Left
<1>3. \A i \in DOMAIN frames' : i \in DOMAIN frames /\ Later(frames'[i], frames[i])
  BY <1>1, <1>2 DEF Left
<1>4. TypeOK'
  <2>1. {broken, early, miscounted, disturbed, shrunk}' \subseteq BOOLEAN
    BY DEF GInv, TypeOK
  <2> QED BY <1>2, <2>1 DEF GInv, TypeOK
<1>5. ReceivedInv' /\ AttachedInv' /\ AllMeansAll'
  BY <1>0 DEF GInv, ReceivedInv, AttachedInv, AllMeansAll
<1>6. StackInv'
  BY <1>2, StackLeft DEF StackInv
<1>7. CountInv'
  BY <1>0, <1>3 DEF GInv, CountInv, Later
<1>8. AllInv'
  <2> SUFFICES ASSUME (Complete /\ ~shrunk /\ ~miscounted /\ ~disturbed)',
                      NEW i \in DOMAIN frames', WaitsFor(frames'[i], "all")
               PROVE  \E j \in DOMAIN frames' : i < j /\ frames'[j].kind = "all"
    BY DEF AllInv, WaitsFor, Waiting
  <2>1. Complete /\ ~shrunk /\ ~miscounted /\ ~disturbed
    BY <1>0 DEF Complete
  <2>2. Waiting(frames[i]) /\ frames[i].for = "all" /\ i \in DOMAIN frames
    BY <1>3 DEF Later, WaitsFor, Waiting
  <2>3. PICK j \in DOMAIN frames : i < j /\ frames[j].kind = "all"
    BY <2>1, <2>2 DEF GInv, AllInv
  <2>4. j <= Len(frames')
    BY <1>2, <2>3
  <2>5. j \in DOMAIN frames'
    BY <1>1, <1>2, <2>3, <2>4
  <2> QED BY <1>3, <2>3, <2>5 DEF Later
<1> QED BY <1>4, <1>5, <1>6, <1>7, <1>8 DEF GInv

\* A call that begins and changes nothing else, but for a signal that is on its
\* way to be counted twice.
LEMMA PushStep ==
    ASSUME GInv, UNCHANGED <<groupVars, broken, adds, received, early, disturbed, shrunk>>,
           NEW stack, Left(stack), Len(stack) = Len(frames),
           NEW f \in Frames, frames' = Append(stack, f),
           FrameInv(f),
           miscounted' \in BOOLEAN, miscounted => miscounted',
           f.kind = "first" /\ ~disturbed /\ ~miscounted' =>
                /\ f.pos \in Attached \ received
                /\ \A i \in DOMAIN frames : frames[i].kind = "first" => frames[i].pos # f.pos,
           WaitsFor(f, "all") => ~Complete \/ miscounted \/ disturbed
    PROVE  GInv'
<1> USE DEF groupVars
<1> DEFINE n == Len(frames)
<1>0. Attached' = Attached
  BY DEF Attached
<1>1. /\ frames \in Seq(Frames) /\ n \in Nat /\ DOMAIN frames = 1 .. n
      /\ stack \in Seq(Frames) /\ DOMAIN stack = 1 .. n
      /\ \A i \in 1 .. n : Later(stack[i], frames[i])
  BY DEF GInv, TypeOK, Left
<1>2. /\ frames' \in Seq(Frames) /\ Len(frames') = n + 1 /\ DOMAIN frames' = 1 .. n + 1
      /\ \A i \in DOMAIN frames : frames'[i] = stack[i]
      /\ frames'[n + 1] = f
  BY <1>1, AppendProperties
<1>3. \A i \in DOMAIN frames' : i \in DOMAIN frames \/ i = n + 1
  BY <1>1, <1>2
<1>4. TypeOK'
  <2>1. {broken, early, miscounted, disturbed, shrunk}' \subseteq BOOLEAN
    BY DEF GInv, TypeOK
  <2> QED BY <1>2, <2>1 DEF GInv, TypeOK
<1>5. ReceivedInv' /\ AttachedInv' /\ AllMeansAll'
  BY <1>0 DEF GInv, ReceivedInv, AttachedInv, AllMeansAll
<1>6. StackInv'
  <2>1. \A i \in 1 .. n : FrameInv(stack[i])'
    BY StackLeft
  <2>2. FrameInv(f)'
    BY DEF FrameInv, Waiting
  <2> SUFFICES ASSUME NEW i \in DOMAIN frames' PROVE FrameInv(frames[i])'
    BY DEF StackInv
  <2>3. CASE i \in DOMAIN frames
    <3>1. i \in 1 .. n /\ frames'[i] = stack[i]
      BY <1>1, <1>2, <2>3
    <3> QED BY <2>1, <3>1 DEF FrameInv
  <2>4. CASE i = n + 1
    BY <1>2, <2>2, <2>4 DEF FrameInv
  <2> QED BY <1>3, <2>3, <2>4
<1>7. CountInv'
  <2> SUFFICES ASSUME ~disturbed, ~miscounted' PROVE CountInv'
    BY DEF CountInv
  <2>1. CountInv /\ ~miscounted
    BY DEF GInv
  <2>2. \A i \in DOMAIN frames : frames'[i].kind = frames[i].kind
            /\ (frames[i].kind = "first" => frames'[i].pos = frames[i].pos)
    BY <1>1, <1>2 DEF Later
  <2> QED BY <1>0, <1>2, <1>3, <2>1, <2>2 DEF CountInv
<1>8. AllInv'
  <2> SUFFICES ASSUME (Complete /\ ~shrunk /\ ~miscounted /\ ~disturbed)',
                      NEW i \in DOMAIN frames', WaitsFor(frames'[i], "all")
               PROVE  \E j \in DOMAIN frames' : i < j /\ frames'[j].kind = "all"
    BY DEF AllInv, WaitsFor, Waiting
  <2>1. Complete /\ ~shrunk /\ ~miscounted /\ ~disturbed
    BY <1>0 DEF Complete
  <2>2. i \in DOMAIN frames
    BY <1>2, <1>3, <2>1
  <2>3. Waiting(frames[i]) /\ frames[i].for = "all"
    BY <1>1, <1>2, <2>2 DEF Later, WaitsFor, Waiting
  <2>4. PICK j \in DOMAIN frames : i < j /\ frames[j].kind = "all"
    BY <2>1, <2>2, <2>3 DEF GInv, AllInv
  <2>5. j \in DOMAIN frames' /\ frames'[j].kind = "all"
    BY <1>1, <1>2, <2>4 DEF Later
  <2> QED BY <2>4, <2>5
<1> QED BY <1>4, <1>5, <1>6, <1>7, <1>8 DEF GInv

LEMMA AllLeft == TypeOK => Left(frames)
  BY DEF TypeOK, Left, Later

\* A signal is counted, which may be the last one.
LEMMA CountedStep ==
    ASSUME GInv, NEW stack, Left(stack), NEW pos \in 1 .. Len(emittedSignals), NEW ct,
           Counted(stack, pos, ct),
           UNCHANGED <<disconnectCount, connections, broken, disturbed, shrunk, adds>>,
           miscounted' \in BOOLEAN, miscounted => miscounted',
           ~disturbed => ct = Len(emittedSignals),
           ~disturbed /\ ~miscounted' =>
                /\ pos \in Attached \ received
                /\ \A i \in 1 .. Len(stack) : stack[i].kind = "first" => stack[i].pos # pos,
           \A i \in 1 .. Len(stack) : ~WaitsFor(stack[i], "any"),
           \A j \in DOMAIN frames : frames[j].kind = "all" => j <= Len(stack)
    PROVE  GInv'
<1> DEFINE n == Len(stack)
           size == Len(emittedSignals)
<1>0. Attached' = Attached
  BY DEF Attached
<1>1. /\ frames \in Seq(Frames) /\ Len(frames) \in Nat /\ DOMAIN frames = 1 .. Len(frames)
      /\ stack \in Seq(Frames) /\ n \in Nat /\ DOMAIN stack = 1 .. n /\ n <= Len(frames)
      /\ \A i \in 1 .. n : i \in DOMAIN frames /\ Later(stack[i], frames[i])
  BY DEF GInv, TypeOK, Left
<1>2. emitCount' = emitCount + 1 /\ received' = received \cup {pos} /\ emitCount \in Nat /\ disconnectCount \in Nat
  BY DEF Counted, GInv, TypeOK
<1>3. /\ emittedSignals \in Seq(BOOLEAN) /\ size \in Nat /\ DOMAIN emittedSignals = 1 .. size
      /\ emittedSignals' = [emittedSignals EXCEPT ![pos] = TRUE]
  BY DEF Counted, GInv, TypeOK
<1>4. /\ emittedSignals' \in Seq(BOOLEAN) /\ Len(emittedSignals') = size /\ DOMAIN emittedSignals' = 1 .. size
      /\ \A j \in 1 .. size : emittedSignals'[j] = IF j = pos THEN TRUE ELSE emittedSignals[j]
  <2>1. emittedSignals' \in Seq(BOOLEAN) /\ Len(emittedSignals') = size
    BY <1>3, ExceptSeq
  <2> QED BY <1>3, <2>1
<1>5. AllFrame \in Frames /\ AllFrame.kind = "all"
  BY DEF Frames, AllFrame
<1>6. /\ frames' \in Seq(Frames) /\ Len(frames') \in {n, n + 1} /\ DOMAIN frames' = 1 .. Len(frames')
      /\ \A i \in 1 .. n : frames'[i] = stack[i]
      /\ Len(frames') = n + 1 => frames'[n + 1] = AllFrame
      /\ emitCount' + disconnectCount = ct => Len(frames') = n + 1
  <2>1. CASE frames' = stack /\ emitCount' + disconnectCount # ct
    <3>1. n \in Nat /\ stack \in Seq(Frames)
      BY <1>1
    <3>2. Len(frames') = n /\ frames' \in Seq(Frames)
      BY <2>1, <3>1
    <3>3. n # n + 1
      BY <3>1
    <3> QED BY <2>1, <3>2, <3>3, LenProperties
  <2>2. CASE frames' = Append(stack, AllFrame)
    <3>1. /\ frames' \in Seq(Frames) /\ Len(frames') = n + 1
          /\ \A i \in 1 .. n : frames'[i] = stack[i]
          /\ frames'[n + 1] = AllFrame
      BY <1>1, <1>5, <2>2, AppendProperties
    <3> QED BY <1>1, <3>1
  <2> QED BY <2>1, <2>2 DEF Counted
<1>7. \A i \in DOMAIN frames' : i \in 1 .. n \/ (i = n + 1 /\ frames'[i] = AllFrame)
  <2> SUFFICES ASSUME NEW i \in DOMAIN frames', i \notin 1 .. n PROVE i = n + 1 /\ frames'[i] = AllFrame
    OBVIOUS
  <2>1. n \in Nat /\ i \in 1 .. Len(frames') /\ Len(frames') \in {n, n + 1}
    BY <1>1, <1>6
  <2>2. i = n + 1 /\ Len(frames') = n + 1
    BY <2>1
  <2> QED BY <1>6, <2>2
<1>8. received \subseteq 1 .. size /\ IsFiniteSet(received)
      /\ Cardinality(received') = IF pos \in received THEN Cardinality(received) ELSE Cardinality(received) + 1
  <2>1. received \subseteq 1 .. size
    BY DEF GInv, TypeOK
  <2>2. IsFiniteSet(received)
    <3>1. IsFiniteSet(1 .. size)
      BY <1>3, FS_Interval
    <3> QED BY <2>1, <3>1, FS_Subset
  <2> QED BY <1>2, <2>1, <2>2, FS_AddElement
<1>9. TypeOK'
  <2>1. early' \in BOOLEAN
    BY DEF Counted, GInv, TypeOK
  <2>2. {broken, early, miscounted, disturbed, shrunk}' \subseteq BOOLEAN
    BY <2>1 DEF GInv, TypeOK
  <2>3. received' \subseteq 1 .. Len(emittedSignals')
    BY <1>2, <1>4, <1>8
  <2>4. emitCount' \in Nat
    BY <1>2
  <2>5. frames' \in Seq(Frames)
    BY <1>6
  <2>6. emittedSignals' \in Seq(BOOLEAN) /\ Len(emittedSignals') <= adds'
    BY <1>4 DEF GInv, TypeOK
  <2> QED BY <2>2, <2>3, <2>4, <2>5, <2>6 DEF GInv, TypeOK
<1>10. ReceivedInv'
  BY <1>2, <1>3, <1>4 DEF GInv, ReceivedInv
<1>11. StackInv'
  <2>1. \A i \in 1 .. n : FrameInv(stack[i])'
    BY <1>4, StackLeft
  <2>2. FrameInv(AllFrame)'
    BY DEF AllFrame, FrameInv
  <2> QED BY <1>6, <1>7, <2>1, <2>2 DEF StackInv, FrameInv
<1>12. AttachedInv'
  BY <1>0, <1>4 DEF GInv, AttachedInv
<1>13. CountInv'
  <2> SUFFICES ASSUME ~disturbed, ~miscounted' PROVE CountInv'
    BY DEF CountInv
  <2>1. CountInv /\ ~miscounted
    BY DEF GInv
  <2>2. pos \in Attached \ received /\ \A i \in 1 .. n : stack[i].kind = "first" => stack[i].pos # pos
    OBVIOUS
  <2>3. emitCount' = Cardinality(received') /\ received' \subseteq Attached
    BY <1>2, <1>8, <2>1, <2>2 DEF CountInv
  <2>4. \A i \in DOMAIN frames' : frames'[i].kind = "first" =>
            i \in 1 .. n /\ i \in DOMAIN frames /\ frames[i].kind = "first" /\ frames'[i].pos = frames[i].pos /\ frames'[i].pos # pos
    BY <1>1, <1>5, <1>6, <1>7, <2>2 DEF Later
  <2> QED BY <1>0, <1>2, <2>1, <2>3, <2>4 DEF CountInv
<1>14. ~disturbed /\ ~miscounted' => (Attached \subseteq received' <=> emitCount' + disconnectCount = ct)
  <2> SUFFICES ASSUME ~disturbed, ~miscounted'
               PROVE  Attached \subseteq received' <=> emitCount' + disconnectCount = ct
    OBVIOUS
  <2>1. emitCount' = Cardinality(received') /\ received' \subseteq Attached
    BY <1>0, <1>13 DEF CountInv
  <2>2. Attached \subseteq 1 .. size /\ Cardinality(Attached) + disconnectCount = size /\ ct = size
    BY DEF GInv, AttachedInv
  <2>3. IsFiniteSet(Attached) /\ Cardinality(Attached) \in Nat
    <3>1. IsFiniteSet(1 .. size)
      BY <1>3, FS_Interval
    <3>2. IsFiniteSet(Attached)
      BY <2>2, <3>1, FS_Subset
    <3> QED BY <3>2, FS_CardinalityType
  <2>4. Attached \subseteq received' => emitCount' + disconnectCount = ct
    <3>1. Attached \subseteq received' => received' = Attached
      BY <2>1
    <3> QED BY <2>1, <2>2, <3>1
  <2>5. emitCount' + disconnectCount = ct => Cardinality(received') = Cardinality(Attached)
    BY <1>2, <2>1, <2>2, <2>3
  <2>6. Cardinality(received') = Cardinality(Attached) => received' = Attached
    BY <2>1, <2>3, FS_Subset
  <2> QED BY <2>4, <2>5, <2>6
<1>15. AllInv'
  <2> SUFFICES ASSUME (Complete /\ ~shrunk /\ ~miscounted /\ ~disturbed)',
                      NEW i \in DOMAIN frames', WaitsFor(frames'[i], "all")
               PROVE  \E j \in DOMAIN frames' : i < j /\ frames'[j].kind = "all"
    BY DEF AllInv, WaitsFor, Waiting
  <2>1. Len(frames') = n + 1
    BY <1>0, <1>6, <1>14 DEF Complete
  <2>2. i # n + 1
    BY <1>5, <1>6, <2>1 DEF WaitsFor, Waiting
  <2> QED BY <1>1, <1>5, <1>6, <1>7, <2>1, <2>2
<1>16. AllMeansAll'
  BY <1>14 DEF GInv, AllMeansAll, Counted
<1> QED BY <1>9, <1>10, <1>11, <1>12, <1>13, <1>15, <1>16 DEF GInv

-----------------------------------------------------------------------------
(* The actions.                                                            *)

LEMMA EmitStep ==
    ASSUME GInv, NEW s \in Signals, Emit(s)
    PROVE  GInv'
<1>1. TypeOK /\ connections[s] \in Seq(Positions)
  BY DEF GInv, TypeOK
<1>2. EmitFrame(s) \in Frames /\ EmitFrame(s).kind = "emit"
  BY <1>1 DEF EmitFrame, Frames
<1>3. FrameInv(EmitFrame(s)) /\ ~WaitsFor(EmitFrame(s), "all")
  BY DEF FrameInv, EmitFrame, WaitsFor, Waiting
<1>4. Left(frames) /\ frames' = Append(frames, EmitFrame(s))
  BY <1>1, AllLeft DEF Emit, Push
<1>5. UNCHANGED <<groupVars, broken, adds, noteVars>> /\ miscounted \in BOOLEAN
  BY DEF Emit, GInv, TypeOK
<1> QED BY <1>2, <1>3, <1>4, <1>5, PushStep DEF noteVars

LEMMA WaitStep ==
    ASSUME GInv, NEW for \in {"any", "all"}, Wait(for)
    PROVE  GInv'
<1>1. TypeOK /\ emitCount \in Nat /\ disconnectCount \in Nat
  BY DEF GInv, TypeOK
<1>2. WaitFrame(for) \in Frames /\ WaitFrame(for).kind = "wait" /\ WaitFrame(for).for = for
  BY DEF WaitFrame, Frames
<1>3. FrameInv(WaitFrame(for))
  <2>1. for = "any" => received = {}
    BY <1>1 DEF Wait, Received, HasReceivedFirstSignal, GInv, ReceivedInv
  <2> QED BY <1>2, <2>1 DEF FrameInv
<1>4. for = "all" => ~Complete \/ miscounted \/ disturbed
  <2> SUFFICES ASSUME for = "all", Complete, ~miscounted, ~disturbed PROVE FALSE
    OBVIOUS
  <2>1. received = Attached
    BY DEF GInv, CountInv, Complete
  <2>2. emitCount + disconnectCount = Len(emittedSignals)
    BY <2>1 DEF GInv, CountInv, AttachedInv
  <2>3. ~(emitCount + disconnectCount >= Len(emittedSignals))
    BY DEF Wait, Received, HasReceivedAllSignals
  <2>4. Len(emittedSignals) \in Nat
    BY <1>1 DEF TypeOK
  <2> QED BY <2>2, <2>3, <2>4
<1>5. Left(frames) /\ frames' = Append(frames, WaitFrame(for))
  BY <1>1, AllLeft DEF Wait, Push
<1>6. UNCHANGED <<groupVars, broken, adds, noteVars>> /\ miscounted \in BOOLEAN
  BY DEF Wait, GInv, TypeOK
<1> QED BY <1>2, <1>3, <1>4, <1>5, <1>6, PushStep DEF noteVars, WaitsFor

\* A call returns that nobody waited for.
LEMMA BelowStep ==
    ASSUME GInv, frames # <<>>, Top.kind # "all", frames' = Below,
           UNCHANGED <<groupVars, broken, adds, noteVars>>
    PROVE  GInv'
<1>1. TypeOK /\ broken \in BOOLEAN /\ Len(frames) \in Nat /\ DOMAIN frames = 1 .. Len(frames)
  BY DEF GInv, TypeOK
<1>2. Left(Below) /\ Len(Below) = Len(frames) - 1
  BY <1>1, BelowLeft
<1>3. \A j \in DOMAIN frames : frames[j].kind = "all" => j <= Len(frames')
  <2> SUFFICES ASSUME NEW j \in DOMAIN frames, frames[j].kind = "all" PROVE j <= Len(frames')
    OBVIOUS
  <2>1. j # Len(frames) /\ j \in 1 .. Len(frames)
    BY <1>1 DEF Top
  <2>2. Len(frames') = Len(frames) - 1
    BY <1>2
  <2> QED BY <1>1, <2>1, <2>2
<1> QED BY <1>1, <1>2, <1>3, QuietStep

LEMMA ReturnSteps == GInv /\ (EmitReturns \/ WaitReturns) => GInv'
<1> SUFFICES ASSUME GInv, EmitReturns \/ WaitReturns PROVE GInv'
  OBVIOUS
<1> QED BY BelowStep DEF EmitReturns, WaitReturns, TopIs

LEMMA AllReturnsStep == GInv /\ AllReturns => GInv'
<1> SUFFICES ASSUME GInv, AllReturns PROVE GInv'
  OBVIOUS
<1>1. TypeOK /\ broken \in BOOLEAN
  BY DEF GInv, TypeOK
<1>2. /\ Left(frames')
      /\ \A i \in 1 .. Len(frames') : ~WaitsFor(frames'[i], "all")
  BY <1>1, CaughtLeft DEF AllReturns, TopIs, WaitsFor
<1> QED BY <1>1, <1>2, QuietStep DEF AllReturns

LEMMA TimerEventStep ==
    ASSUME GInv, NEW i \in DOMAIN frames, TimerEvent(i)
    PROVE  GInv'
<1> DEFINE n == Len(frames)
           new == [frames[i] EXCEPT !.timeout = TRUE]
<1>1. TypeOK /\ broken \in BOOLEAN /\ frames \in Seq(Frames) /\ n \in Nat /\ DOMAIN frames = 1 .. n
  BY DEF GInv, TypeOK
<1>2. frames[i] \in [kind : {"wait"}, for : {"any", "all"}, ready : BOOLEAN, timeout : BOOLEAN]
  BY <1>1 DEF TimerEvent, Waiting, Frames, AllFrame
<1>3. new \in [kind : {"wait"}, for : {"any", "all"}, ready : BOOLEAN, timeout : BOOLEAN]
      /\ new.kind = "wait" /\ new.for = frames[i].for /\ new.timeout = TRUE
  BY <1>2
<1>4. new \in Frames /\ Later(new, frames[i])
  BY <1>2, <1>3 DEF Frames, Later, Waiting
<1>5. frames' = [frames EXCEPT ![i] = new]
  BY DEF TimerEvent
<1> HIDE DEF new
<1>6. frames' \in Seq(Frames) /\ Len(frames') = n /\ \A j \in 1 .. n : frames'[j] = IF j = i THEN new ELSE frames[j]
  BY <1>1, <1>4, <1>5, ExceptSeq
<1>7. \A j \in 1 .. n : Later(frames'[j], frames[j])
  BY <1>4, <1>6 DEF Later
<1>8. Left(frames')
  <2>1. Len(frames') <= Len(frames)
    BY <1>1, <1>6
  <2> QED BY <1>6, <1>7, <2>1 DEF Left
<1>9. \A j \in DOMAIN frames : frames[j].kind = "all" => j <= Len(frames')
  BY <1>1, <1>6
<1> QED BY <1>1, <1>8, <1>9, QuietStep DEF TimerEvent

\* A call that has to tell of a signal is about one that the group knows.
LEMMA TopEmit ==
    ASSUME GInv, TopIs("emit"), Top.todo # <<>>
    PROVE  /\ Head(Top.todo) \in Positions
           /\ Head(Top.todo) \in Attached
           /\ ~disturbed => Head(Top.todo) \in 1 .. Len(emittedSignals)
<1>1. TypeOK /\ frames \in Seq(Frames) /\ Len(frames) \in DOMAIN frames
  BY DEF GInv, TypeOK, TopIs
<1>2. Top \in Frames /\ Top.kind = "emit" /\ FrameInv(Top)
  BY <1>1 DEF Top, TopIs, GInv, StackInv
<1>3. Top.signal \in Signals /\ Top.todo \in Seq(Positions)
  BY <1>2, FrameKinds
<1>4. Head(Top.todo) \in Positions
  BY <1>3, HeadTailProperties
<1>5. Head(Top.todo) \in RangeOf(connections[Top.signal])
  BY <1>1, <1>2, PassedLeft DEF FrameInv
<1>6. Head(Top.todo) \in Attached
  BY <1>3, <1>5 DEF Attached
<1> QED BY <1>4, <1>6 DEF GInv, AttachedInv

LEMMA DeliverStep == GInv /\ Deliver => GInv'
<1> SUFFICES ASSUME GInv, Deliver PROVE GInv'
  OBVIOUS
<1> DEFINE pos == Head(Top.todo)
           size == Len(emittedSignals)
<1>1. TypeOK /\ broken \in BOOLEAN /\ miscounted \in BOOLEAN /\ size \in Nat /\ emitCount \in Nat
      /\ DOMAIN frames = 1 .. Len(frames) /\ DOMAIN emittedSignals = 1 .. size
  BY DEF GInv, TypeOK
<1>2. Left(Passed) /\ Len(Passed) = Len(frames)
  BY <1>1, PassedLeft DEF Deliver
<1>3. pos \in Nat \ {0} /\ pos \in Positions /\ pos \in Attached /\ (~disturbed => pos \in 1 .. size)
  BY TopEmit DEF Deliver, Positions
<1>4. \A j \in DOMAIN frames : frames[j].kind = "all" => j <= Len(Passed)
  BY <1>1, <1>2
<1>5. CASE pos > size
  <2>1. disturbed
    BY <1>1, <1>3, <1>5
  <2>2. broken' = (pos = size + 1)
    BY <1>5 DEF Deliver
  <2>3. UNCHANGED <<groupVars, adds, noteVars>> /\ frames' = Passed
    BY <1>5 DEF Deliver, Passed
  <2> QED BY <1>2, <1>4, <2>1, <2>3, <2>2, QuietStep
<1>6. CASE ~(pos > size) /\ emittedSignals[pos]
  <2>1. UNCHANGED <<groupVars, broken, adds, noteVars>> /\ frames' = Passed
    BY <1>6 DEF Deliver, Passed
  <2> QED BY <1>1, <1>2, <1>4, <2>1, QuietStep
<1>7. CASE ~(pos > size) /\ ~emittedSignals[pos]
  <2>1. /\ miscounted' = (miscounted \/ InFirst(pos))
        /\ UNCHANGED <<disconnectCount, connections, broken, disturbed, shrunk, adds>>
    BY <1>7 DEF Deliver
  <2>2. pos \in 1 .. size
    BY <1>1, <1>3, <1>7
  <2>3. pos \notin received
    BY <1>1, <1>7 DEF GInv, ReceivedInv
  <2>4. miscounted' \in BOOLEAN /\ (miscounted => miscounted')
    BY <1>1, <2>1 DEF InFirst
  <2>5. ~miscounted' => \A i \in DOMAIN frames : frames[i].kind = "first" => frames[i].pos # pos
    BY <2>1 DEF InFirst
  <2>6. CASE emitCount > 0
    <3>1. Counted(Passed, pos, size)
      BY <1>7, <2>6 DEF Deliver, HasReceivedFirstSignal, Passed
    <3>2. received # {}
      BY <1>1, <2>6 DEF GInv, ReceivedInv
    <3>3. \A i \in 1 .. Len(Passed) : ~WaitsFor(Passed[i], "any")
      BY <1>1, <1>2, <3>2 DEF Left, Later, WaitsFor, Waiting, GInv, StackInv, FrameInv
    <3>4. \A i \in 1 .. Len(Passed) : Passed[i].kind = "first" =>
              i \in DOMAIN frames /\ frames[i].kind = "first" /\ Passed[i].pos = frames[i].pos
      BY <1>1, <1>2 DEF Left, Later
    <3>5. ~disturbed /\ ~miscounted' =>
            /\ pos \in Attached \ received
            /\ \A i \in 1 .. Len(Passed) : Passed[i].kind = "first" => Passed[i].pos # pos
      BY <1>3, <2>3, <2>5, <3>4
    <3> HIDE DEF pos
    <3> QED BY <1>2, <1>4, <2>1, <2>2, <2>4, <3>1, <3>3, <3>5, CountedStep
  <2>7. CASE ~(emitCount > 0)
    <3>1. frames' = Append(Passed, FirstFrame(pos)) /\ UNCHANGED <<emittedSignals, emitCount, received, early>>
      BY <1>7, <2>7 DEF Deliver, HasReceivedFirstSignal, Passed
    <3> HIDE DEF pos
    <3>2. /\ FirstFrame(pos) \in [kind : {"first"}, pos : Positions, ct : 0 .. MaxAdds, valid : BOOLEAN]
          /\ FirstFrame(pos).kind = "first" /\ FirstFrame(pos).pos = pos /\ FirstFrame(pos).ct = size
      <4>1. size \in 0 .. MaxAdds
        BY <1>1, SignalGroupAssumption DEF TypeOK, SignalGroupAssumption
      <4> QED BY <1>3, <4>1 DEF FirstFrame
    <3>3. FirstFrame(pos) \in Frames /\ ~WaitsFor(FirstFrame(pos), "all")
      BY <3>2 DEF Frames, WaitsFor, Waiting
    <3>4. FrameInv(FirstFrame(pos))
      BY <1>1, <2>2 DEF FrameInv, FirstFrame
    <3>5. FirstFrame(pos).kind = "first" /\ ~disturbed /\ ~miscounted' =>
            /\ FirstFrame(pos).pos \in Attached \ received
            /\ \A i \in DOMAIN frames : frames[i].kind = "first" => frames[i].pos # FirstFrame(pos).pos
      BY <1>3, <2>3, <2>5, <3>2
    <3> QED BY <1>2, <2>1, <2>4, <3>1, <3>3, <3>4, <3>5, PushStep DEF groupVars
  <2> QED BY <1>1, <2>6, <2>7
<1> QED BY <1>5, <1>6, <1>7

LEMMA FirstReturnsStep == GInv /\ FirstReturns => GInv'
<1> SUFFICES ASSUME GInv, FirstReturns PROVE GInv'
  OBVIOUS
<1> DEFINE n == Len(frames)
           stack == Caught(Below, "any")
<1>1. TypeOK /\ broken \in BOOLEAN /\ miscounted \in BOOLEAN
      /\ n \in Nat \ {0} /\ DOMAIN frames = 1 .. n /\ frames \in Seq(Frames)
  BY DEF GInv, TypeOK, FirstReturns, TopIs
<1>2. Top = frames[n] /\ Top \in Frames /\ Top.kind = "first" /\ FrameInv(Top)
  BY <1>1 DEF Top, TopIs, FirstReturns, GInv, StackInv
<1>3. Top.pos \in Positions /\ Top.valid \in BOOLEAN
  BY <1>2, FrameKinds
<1>4. CASE Top.valid
  <2>1. /\ Counted(stack, Top.pos, Top.ct)
        /\ UNCHANGED <<disconnectCount, connections, broken, miscounted, disturbed, shrunk, adds>>
    BY <1>4 DEF FirstReturns
  <2>2. Left(stack) /\ Len(stack) = n - 1 /\ \A i \in 1 .. Len(stack) : ~WaitsFor(stack[i], "any")
    BY <1>1, CaughtLeft DEF WaitsFor, FirstReturns, TopIs
  <2> HIDE DEF stack
  <2>3. Top.pos \in 1 .. Len(emittedSignals)
    <3>1. Top.pos <= Len(emittedSignals) /\ Top.pos \in Nat \ {0} /\ Len(emittedSignals) \in Nat
      BY <1>1, <1>2, <1>3, <1>4 DEF FrameInv, Positions, TypeOK
    <3> QED BY <3>1
  <2>4. ~disturbed => Top.ct = Len(emittedSignals)
    BY <1>2 DEF FrameInv
  <2>5. \A i \in 1 .. Len(stack) : i \in DOMAIN frames /\ i # n /\ Later(stack[i], frames[i])
    <3>1. n \in Nat \ {0} /\ Len(stack) = n - 1
      BY <1>1, <2>2
    <3> HIDE DEF n
    <3>2. \A i \in 1 .. Len(stack) : i \in 1 .. n /\ i # n
      BY <3>1
    <3>3. DOMAIN frames = 1 .. n /\ \A i \in 1 .. Len(stack) : Later(stack[i], frames[i])
      BY <1>1, <2>2 DEF Left
    <3> QED BY <3>2, <3>3
  <2>6. ~disturbed /\ ~miscounted =>
            /\ Top.pos \in Attached \ received
            /\ \A i \in 1 .. Len(stack) : stack[i].kind = "first" => stack[i].pos # Top.pos
    <3> SUFFICES ASSUME ~disturbed, ~miscounted
                 PROVE  /\ Top.pos \in Attached \ received
                        /\ \A i \in 1 .. Len(stack) : stack[i].kind = "first" => stack[i].pos # Top.pos
      OBVIOUS
    <3>1. /\ \A i \in DOMAIN frames : frames[i].kind = "first" => frames[i].pos \in Attached \ received
          /\ \A i, j \in DOMAIN frames :
                frames[i].kind = "first" /\ frames[j].kind = "first" /\ frames[i].pos = frames[j].pos => i = j
      BY DEF GInv, CountInv
    <3>2. n \in DOMAIN frames
      BY <1>1
    <3> QED BY <1>2, <2>5, <3>1, <3>2 DEF Later
  <2>7. \A j \in DOMAIN frames : frames[j].kind = "all" => j <= Len(stack)
    BY <1>1, <1>2, <2>2
  <2>8. miscounted' \in BOOLEAN /\ (miscounted => miscounted')
    BY <1>1, <2>1
  <2> QED BY <2>1, <2>2, <2>3, <2>4, <2>6, <2>7, <2>8, CountedStep
<1>5. CASE ~Top.valid
  <2>1. disturbed
    BY <1>2, <1>5 DEF FrameInv
  <2>2. broken' = TRUE /\ UNCHANGED <<groupVars, frames, noteVars, adds>>
    BY <1>5 DEF FirstReturns
  <2>3. Left(frames')
    BY <1>1, <2>2, AllLeft
  <2>4. \A j \in DOMAIN frames : frames[j].kind = "all" => j <= Len(frames')
    BY <1>1, <2>2
  <2> QED BY <2>1, <2>2, <2>3, <2>4, QuietStep
<1> QED BY <1>4, <1>5

\* Calls are marked, not moved.
Marked(stack) ==
    /\ stack \in Seq(Frames)
    /\ DOMAIN stack = DOMAIN frames
    /\ \A i \in DOMAIN frames :
        /\ stack[i].kind = frames[i].kind
        /\ frames[i].kind = "first" => stack[i].pos = frames[i].pos
        /\ frames[i].kind \in {"wait", "all"} => stack[i] = frames[i]

LEMMA InvalidatedType ==
    ASSUME TypeOK
    PROVE  /\ Marked(Invalidated)
           /\ \A i \in DOMAIN frames :
                /\ frames[i].kind = "first" => ~Invalidated[i].valid
                /\ frames[i].kind = "emit" => Invalidated[i] = frames[i]
           /\ ~Has("first") => Invalidated = frames
<1> DEFINE n == Len(frames)
           g(i) == IF frames[i].kind = "first" THEN [frames[i] EXCEPT !.valid = FALSE] ELSE frames[i]
<1>1. frames \in Seq(Frames) /\ n \in Nat /\ DOMAIN frames = 1 .. n
  BY DEF TypeOK
<1>2. Invalidated = [i \in 1 .. n |-> g(i)]
  BY <1>1 DEF Invalidated
<1>3. ASSUME NEW i \in 1 .. n
      PROVE  /\ g(i) \in Frames /\ g(i).kind = frames[i].kind
             /\ frames[i].kind = "first" => g(i).pos = frames[i].pos /\ ~g(i).valid
             /\ frames[i].kind # "first" => g(i) = frames[i]
  <2>1. CASE frames[i].kind = "first"
    <3>1. frames[i] \in [kind : {"first"}, pos : Positions, ct : 0 .. MaxAdds, valid : BOOLEAN]
      BY <1>1, <2>1 DEF Frames, AllFrame
    <3>2. g(i) \in [kind : {"first"}, pos : Positions, ct : 0 .. MaxAdds, valid : BOOLEAN]
          /\ g(i).pos = frames[i].pos /\ g(i).valid = FALSE
      BY <2>1, <3>1
    <3> QED BY <2>1, <3>1, <3>2 DEF Frames
  <2>2. CASE frames[i].kind # "first"
    BY <1>1, <2>2
  <2> QED BY <2>1, <2>2
<1> HIDE DEF g
<1>4. Invalidated \in [1 .. n -> Frames]
  BY <1>2, <1>3
<1>5. Invalidated \in Seq(Frames) /\ Len(Invalidated) = n /\ DOMAIN Invalidated = 1 .. n
  BY <1>1, <1>4
<1>6. Marked(Invalidated)
  BY <1>1, <1>2, <1>3, <1>5 DEF Marked
<1>7. ~Has("first") => Invalidated = frames
  <2> SUFFICES ASSUME ~Has("first") PROVE Invalidated = frames
    OBVIOUS
  <2>1. \A i \in 1 .. n : Invalidated[i] = frames[i]
    BY <1>1, <1>2, <1>3 DEF Has
  <2> QED BY <1>1, <1>5, <2>1, SeqEqual
<1> QED BY <1>1, <1>2, <1>3, <1>6, <1>7

LEMMA DisconnectedType ==
    ASSUME TypeOK, NEW s \in Signals
    PROVE  /\ Marked(Disconnected(s))
           /\ \A i \in DOMAIN frames :
                IF frames[i].kind = "emit" /\ frames[i].signal = s
                THEN Disconnected(s)[i].todo = <<>>
                ELSE Disconnected(s)[i] = frames[i]
<1> DEFINE n == Len(frames)
           hit(i) == frames[i].kind = "emit" /\ frames[i].signal = s
           g(i) == IF frames[i].kind = "emit" /\ frames[i].signal = s THEN [frames[i] EXCEPT !.todo = <<>>] ELSE frames[i]
<1>1. frames \in Seq(Frames) /\ n \in Nat /\ DOMAIN frames = 1 .. n
  BY DEF TypeOK
<1>2. Disconnected(s) = [i \in 1 .. n |-> g(i)]
  BY <1>1 DEF Disconnected
<1>3. ASSUME NEW i \in 1 .. n
      PROVE  /\ g(i) \in Frames /\ g(i).kind = frames[i].kind
             /\ hit(i) => g(i).todo = <<>>
             /\ ~hit(i) => g(i) = frames[i]
  <2>1. CASE hit(i)
    <3>1. frames[i] \in [kind : {"emit"}, signal : Signals, todo : Seq(Positions)]
      BY <1>1, <2>1 DEF Frames, AllFrame
    <3>2. g(i) \in [kind : {"emit"}, signal : Signals, todo : Seq(Positions)] /\ g(i).todo = <<>>
      <4>1. <<>> \in Seq(Positions)
        OBVIOUS
      <4>2. g(i) = [frames[i] EXCEPT !.todo = <<>>]
        BY <2>1
      <4> QED BY <3>1, <4>1, <4>2
    <3> QED BY <2>1, <3>1, <3>2 DEF Frames
  <2>2. CASE ~hit(i)
    BY <1>1, <2>2
  <2> QED BY <2>1, <2>2
<1> HIDE DEF g
<1>4. Disconnected(s) \in [1 .. n -> Frames]
  BY <1>2, <1>3
<1>5. Disconnected(s) \in Seq(Frames) /\ Len(Disconnected(s)) = n /\ DOMAIN Disconnected(s) = 1 .. n
  BY <1>1, <1>4
<1>6. Marked(Disconnected(s))
  BY <1>1, <1>2, <1>3, <1>5 DEF Marked
<1> QED BY <1>1, <1>2, <1>3, <1>6

LEMMA AddSignalStep ==
    ASSUME GInv, NEW s \in Signals, AddSignal(s)
    PROVE  GInv'
<1> DEFINE size == Len(emittedSignals)
           new == size + 1
<1>1. TypeOK /\ size \in Nat /\ DOMAIN frames = 1 .. Len(frames) /\ Len(frames) \in Nat /\ DOMAIN emittedSignals = 1 .. size
      /\ emittedSignals \in Seq(BOOLEAN) /\ connections \in [Signals -> Seq(Positions)] /\ frames \in Seq(Frames)
  BY DEF GInv, TypeOK
<1>2. /\ emittedSignals' = Append(emittedSignals, FALSE)
      /\ connections' = [connections EXCEPT ![s] = Append(@, new)]
      /\ disturbed' = (disturbed \/ Has("first"))
      /\ frames' \in {frames, Invalidated}
      /\ adds' = adds + 1 /\ adds < MaxAdds
      /\ UNCHANGED <<emitCount, disconnectCount, broken, received, early, miscounted, shrunk>>
  BY DEF AddSignal
<1>3. new \in Positions /\ new \in Nat /\ new <= adds'
  BY <1>1, <1>2, SignalGroupAssumption DEF Positions, SignalGroupAssumption, TypeOK
<1>4. /\ emittedSignals' \in Seq(BOOLEAN) /\ Len(emittedSignals') = new /\ DOMAIN emittedSignals' = 1 .. new
      /\ \A i \in 1 .. size : emittedSignals'[i] = emittedSignals[i]
      /\ emittedSignals'[new] = FALSE
  BY <1>1, <1>2, AppendProperties
<1>5. /\ connections' \in [Signals -> Seq(Positions)]
      /\ Len(connections'[s]) = Len(connections[s]) + 1 /\ connections'[s][Len(connections[s]) + 1] = new
      /\ \A i \in DOMAIN connections[s] : connections'[s][i] = connections[s][i]
      /\ \A t \in Signals : t # s => connections'[t] = connections[t]
      /\ DOMAIN connections'[s] = 1 .. Len(connections[s]) + 1
      /\ Len(connections[s]) \in Nat /\ DOMAIN connections[s] = 1 .. Len(connections[s])
  <2>1. connections[s] \in Seq(Positions) /\ connections'[s] = Append(connections[s], new)
    BY <1>1, <1>2
  <2>2. /\ Append(connections[s], new) \in Seq(Positions)
        /\ Len(Append(connections[s], new)) = Len(connections[s]) + 1
        /\ \A i \in 1 .. Len(connections[s]) : Append(connections[s], new)[i] = connections[s][i]
        /\ Append(connections[s], new)[Len(connections[s]) + 1] = new
    BY <1>3, <2>1, AppendProperties
  <2>3. connections' \in [Signals -> Seq(Positions)]
    BY <1>1, <1>2, <2>1, <2>2
  <2>4. \A t \in Signals : t # s => connections'[t] = connections[t]
    BY <1>1, <1>2
  <2> QED BY <2>1, <2>2, <2>3, <2>4, LenProperties
<1>6. RangeOf(connections'[s]) = RangeOf(connections[s]) \cup {new}
  BY <1>5 DEF RangeOf
<1>7. Attached' = Attached \cup {new}
  <2>1. Attached' = UNION {RangeOf(connections'[t]) : t \in Signals}
    BY DEF Attached
  <2> QED BY <1>5, <1>6, <2>1 DEF Attached
<1>8. Marked(frames') /\ \A i \in DOMAIN frames : frames[i].kind = "emit" => frames'[i] = frames[i]
  <2>1. CASE frames' = frames
    BY <1>1, <2>1 DEF Marked
  <2>2. CASE frames' = Invalidated
    BY <1>1, <2>2, InvalidatedType
  <2> QED BY <1>2, <2>1, <2>2
<1>9. ~Has("first") => frames' = frames
  BY <1>1, <1>2, InvalidatedType
<1>10. TypeOK'
  <2>1. {broken, early, miscounted, disturbed, shrunk}' \subseteq BOOLEAN
    BY <1>1, <1>2 DEF TypeOK, Has
  <2>2. received' \subseteq 1 .. Len(emittedSignals')
    BY <1>1, <1>2, <1>4 DEF TypeOK
  <2>3. adds' \in 0 .. MaxAdds
    BY <1>1, <1>2, SignalGroupAssumption DEF TypeOK, SignalGroupAssumption
  <2>4. frames' \in Seq(Frames)
    BY <1>8 DEF Marked
  <2>5. emitCount' \in Nat /\ disconnectCount' \in Nat
    BY <1>1, <1>2 DEF TypeOK
  <2> QED BY <1>3, <1>4, <1>5, <2>1, <2>2, <2>3, <2>4, <2>5 DEF TypeOK
<1>11. ReceivedInv'
  <2>1. received' = {i \in DOMAIN emittedSignals : emittedSignals[i]}
    BY <1>2 DEF GInv, ReceivedInv
  <2>2. {i \in DOMAIN emittedSignals : emittedSignals[i]} = {i \in DOMAIN emittedSignals' : emittedSignals'[i]}
    BY <1>1, <1>4
  <2> QED BY <1>2, <2>1, <2>2 DEF GInv, ReceivedInv
<1>12. StackInv'
  <2> SUFFICES ASSUME NEW i \in DOMAIN frames' PROVE FrameInv(frames[i])'
    BY DEF StackInv
  <2>1. i \in DOMAIN frames /\ FrameInv(frames[i]) /\ frames'[i].kind = frames[i].kind /\ frames[i] \in Frames
    BY <1>1, <1>8 DEF Marked, GInv, StackInv
  <2>2. CASE frames[i].kind = "emit"
    <3>1. frames'[i] = frames[i] /\ frames[i].signal \in Signals
      BY <1>8, <2>1, <2>2, FrameKinds
    <3>2. RangeOf(connections[frames[i].signal]) \subseteq RangeOf(connections'[frames[i].signal])
      BY <1>5, <1>6, <3>1
    <3> QED BY <2>1, <2>2, <3>1, <3>2 DEF FrameInv
  <2>3. CASE frames[i].kind = "first"
    <3>1. disturbed'
      BY <1>2, <2>1, <2>3 DEF Has
    <3>2. CASE frames' = frames
      <4>1. frames[i].valid => frames[i].pos <= size /\ frames[i].pos \in Nat
        BY <2>1, <2>3, FrameKinds DEF FrameInv, Positions
      <4>2. frames'[i].valid => frames'[i].pos <= Len(emittedSignals')
        BY <1>1, <1>4, <3>2, <4>1
      <4> QED BY <2>1, <2>3, <3>1, <4>2 DEF FrameInv
    <3>3. CASE frames' = Invalidated
      <4>1. ~frames'[i].valid
        BY <1>1, <2>1, <2>3, <3>3, InvalidatedType
      <4> QED BY <2>1, <2>3, <3>1, <4>1 DEF FrameInv
    <3> QED BY <1>2, <3>2, <3>3
  <2>4. CASE frames[i].kind \in {"wait", "all"}
    <3>1. frames'[i] = frames[i]
      BY <1>8, <2>1, <2>4 DEF Marked
    <3> QED BY <1>2, <2>1, <2>4, <3>1 DEF FrameInv, Waiting
  <2> QED BY <2>1, <2>2, <2>3, <2>4, FrameKinds
<1>13. AttachedInv'
  <2> SUFFICES ASSUME ~disturbed, ~disturbed' PROVE AttachedInv'
    BY <1>2 DEF AttachedInv
  <2>1. /\ Attached \subseteq 1 .. size
        /\ \A t \in Signals : \A i, j \in DOMAIN connections[t] : connections[t][i] = connections[t][j] => i = j
        /\ \A t, u \in Signals : t # u => RangeOf(connections[t]) \cap RangeOf(connections[u]) = {}
        /\ Cardinality(Attached) + disconnectCount = size
    BY DEF GInv, AttachedInv
  <2>2. new \notin Attached /\ \A t \in Signals : new \notin RangeOf(connections[t])
    <3>1. new \notin Attached
      BY <1>1, <2>1
    <3> QED BY <3>1 DEF Attached
  <2>3. Attached' \subseteq 1 .. Len(emittedSignals')
    <3>1. 1 .. new = (1 .. size) \cup {new}
      BY <1>1
    <3>2. Attached' \subseteq 1 .. new
      BY <1>7, <2>1, <3>1
    <3> QED BY <1>4, <3>2
  <2>4. \A t \in Signals : \A i, j \in DOMAIN connections'[t] : connections'[t][i] = connections'[t][j] => i = j
    <3>1. \A i \in DOMAIN connections[s] : connections'[s][i] # new
      BY <1>5, <2>2 DEF RangeOf
    <3>2. \A i \in DOMAIN connections'[s] : i \in DOMAIN connections[s] \/ i = Len(connections[s]) + 1
      BY <1>5
    <3>3. \A i, j \in DOMAIN connections'[s] : connections'[s][i] = connections'[s][j] => i = j
      BY <1>5, <2>1, <3>1, <3>2
    <3> QED BY <1>5, <2>1, <3>3
  <2>5. \A t, u \in Signals : t # u => RangeOf(connections'[t]) \cap RangeOf(connections'[u]) = {}
    <3> SUFFICES ASSUME NEW t \in Signals, NEW u \in Signals, t # u
                 PROVE  RangeOf(connections'[t]) \cap RangeOf(connections'[u]) = {}
      OBVIOUS
    <3>1. RangeOf(connections[t]) \cap RangeOf(connections[u]) = {}
      BY <2>1
    <3>2. CASE t = s
      BY <1>5, <1>6, <2>2, <3>1, <3>2
    <3>3. CASE u = s
      BY <1>5, <1>6, <2>2, <3>1, <3>3
    <3>4. CASE t # s /\ u # s
      BY <1>5, <3>1, <3>4
    <3> QED BY <3>2, <3>3, <3>4
  <2>6. IsFiniteSet(Attached) /\ Cardinality(Attached) \in Nat
    <3>1. IsFiniteSet(1 .. size)
      BY <1>1, FS_Interval
    <3>2. IsFiniteSet(Attached)
      BY <2>1, <3>1, FS_Subset
    <3> QED BY <3>2, FS_CardinalityType
  <2>7. Cardinality(Attached') = Cardinality(Attached) + 1
    BY <1>7, <2>2, <2>6, FS_AddElement
  <2>8. Cardinality(Attached') + disconnectCount' = Len(emittedSignals')
    <3>1. disconnectCount' = disconnectCount /\ disconnectCount \in Nat
      BY <1>1, <1>2 DEF TypeOK
    <3>2. ASSUME NEW m \in Nat, NEW c \in Nat, NEW d \in Nat, c + d = m
          PROVE  c + 1 + d = m + 1
      BY <3>2
    <3>3. Cardinality(Attached) + 1 + disconnectCount = size + 1
      BY <1>1, <2>1, <2>6, <3>1, <3>2
    <3> QED BY <1>4, <2>7, <3>1, <3>3
  <2> QED BY <2>3, <2>4, <2>5, <2>8 DEF AttachedInv
<1>14. CountInv'
  <2> SUFFICES ASSUME ~disturbed, ~disturbed', ~miscounted PROVE CountInv'
    BY <1>2 DEF CountInv
  <2>1. frames' = frames /\ \A i \in DOMAIN frames : frames[i].kind # "first"
    BY <1>2, <1>9 DEF Has
  <2> QED BY <1>2, <1>7, <2>1 DEF GInv, CountInv
<1>15. AllInv'
  <2> SUFFICES ASSUME ~disturbed, ~disturbed', Complete' PROVE FALSE
    BY <1>2 DEF AllInv
  <2>1. new \in received'
    BY <1>7 DEF Complete
  <2> QED BY <1>1, <1>2, <2>1 DEF TypeOK
<1>16. AllMeansAll'
  BY <1>2 DEF GInv, AllMeansAll
<1> QED BY <1>10, <1>11, <1>12, <1>13, <1>14, <1>15, <1>16 DEF GInv

LEMMA RemoveSignalStep ==
    ASSUME GInv, NEW s \in Signals, RemoveSignal(s)
    PROVE  GInv'
<1> DEFINE size == Len(emittedSignals)
           gone == RangeOf(connections[s])
<1>1. TypeOK /\ size \in Nat /\ DOMAIN frames = 1 .. Len(frames) /\ disconnectCount \in Nat
      /\ connections \in [Signals -> Seq(Positions)] /\ frames \in Seq(Frames)
  BY DEF GInv, TypeOK
<1>2. /\ gone # {}
      /\ connections' = [connections EXCEPT ![s] = <<>>]
      /\ disconnectCount' = disconnectCount + 1
      /\ frames' = Disconnected(s)
      /\ miscounted' = (miscounted \/ \E pos \in gone : pos \in received \/ InFirst(pos))
      /\ disturbed' = (disturbed \/ Len(connections[s]) > 1)
      /\ shrunk' = (shrunk \/ Has("wait"))
      /\ UNCHANGED <<emittedSignals, emitCount, broken, adds, received, early>>
  BY DEF RemoveSignal
<1>3. /\ Marked(frames')
      /\ \A i \in DOMAIN frames :
            IF frames[i].kind = "emit" /\ frames[i].signal = s
            THEN frames'[i].todo = <<>>
            ELSE frames'[i] = frames[i]
  BY <1>1, <1>2, DisconnectedType
<1>4. <<>> \in Seq(Positions) /\ RangeOf(<<>>) = {} /\ DOMAIN <<>> = {}
  BY DEF RangeOf
<1>5. /\ connections' \in [Signals -> Seq(Positions)]
      /\ connections'[s] = <<>> /\ RangeOf(connections'[s]) = {}
      /\ \A t \in Signals : t # s => connections'[t] = connections[t]
  BY <1>1, <1>2, <1>4
<1>6. Attached' \subseteq Attached /\ Attached \subseteq Attached' \cup gone
  <2>1. Attached' = UNION {RangeOf(connections'[t]) : t \in Signals}
    BY DEF Attached
  <2> QED BY <1>5, <2>1 DEF Attached
<1>7. TypeOK'
  <2>1. miscounted' \in BOOLEAN /\ disturbed' \in BOOLEAN /\ shrunk' \in BOOLEAN
    BY <1>1, <1>2 DEF TypeOK, Has, InFirst
  <2>2. {broken, early, miscounted, disturbed, shrunk}' \subseteq BOOLEAN
    BY <1>1, <1>2, <2>1 DEF TypeOK
  <2>3. frames' \in Seq(Frames)
    BY <1>3 DEF Marked
  <2> QED BY <1>1, <1>2, <1>5, <2>2, <2>3 DEF TypeOK
<1>8. ReceivedInv' /\ AllMeansAll'
  BY <1>2 DEF GInv, ReceivedInv, AllMeansAll
<1>9. StackInv'
  <2> SUFFICES ASSUME NEW i \in DOMAIN frames' PROVE FrameInv(frames[i])'
    BY DEF StackInv
  <2>1. i \in DOMAIN frames /\ FrameInv(frames[i]) /\ frames'[i].kind = frames[i].kind /\ frames[i] \in Frames
        /\ frames'[i] \in Frames
    BY <1>1, <1>3 DEF Marked, GInv, StackInv
  <2>2. CASE frames[i].kind = "emit" /\ frames[i].signal = s
    <3>1. frames'[i].todo = <<>>
      BY <1>3, <2>1, <2>2
    <3> QED BY <1>4, <2>1, <2>2, <3>1 DEF FrameInv
  <2>3. CASE frames[i].kind = "emit" /\ frames[i].signal # s
    <3>1. frames'[i] = frames[i] /\ connections'[frames[i].signal] = connections[frames[i].signal]
      BY <1>3, <1>5, <2>1, <2>3, FrameKinds
    <3> QED BY <2>1, <2>3, <3>1 DEF FrameInv
  <2>4. CASE frames[i].kind # "emit"
    <3>1. frames'[i] = frames[i]
      BY <1>3, <2>1, <2>4
    <3> QED BY <1>2, <2>1, <2>4, <3>1 DEF FrameInv, Waiting
  <2> QED BY <2>2, <2>3, <2>4
<1>10. AttachedInv'
  <2> SUFFICES ASSUME ~disturbed, ~disturbed' PROVE AttachedInv'
    BY <1>2 DEF AttachedInv
  <2>1. /\ Attached \subseteq 1 .. size
        /\ \A t \in Signals : \A i, j \in DOMAIN connections[t] : connections[t][i] = connections[t][j] => i = j
        /\ \A t, u \in Signals : t # u => RangeOf(connections[t]) \cap RangeOf(connections[u]) = {}
        /\ Cardinality(Attached) + disconnectCount = size
    BY DEF GInv, AttachedInv
  <2>2. PICK pos : gone = {pos}
    <3>1. connections[s] \in Seq(Positions) /\ DOMAIN connections[s] = 1 .. Len(connections[s]) /\ Len(connections[s]) \in Nat
      BY <1>1
    <3>2. ~(Len(connections[s]) > 1)
      BY <1>2
    <3>3. DOMAIN connections[s] # {}
      BY <1>2 DEF RangeOf
    <3>4. DOMAIN connections[s] = {1}
      BY <3>1, <3>2, <3>3
    <3> QED BY <3>4 DEF RangeOf
  <2>3. pos \in Attached /\ pos \notin Attached'
    <3>1. \A t \in Signals : t # s => pos \notin RangeOf(connections[t])
      BY <2>1, <2>2
    <3>2. \A t \in Signals : pos \notin RangeOf(connections'[t])
      BY <1>5, <3>1
    <3>3. Attached' = UNION {RangeOf(connections'[t]) : t \in Signals}
      BY DEF Attached
    <3> QED BY <2>2, <3>2, <3>3 DEF Attached
  <2>4. Attached' = Attached \ {pos}
    BY <1>6, <2>2, <2>3
  <2>5. IsFiniteSet(Attached) /\ Cardinality(Attached) \in Nat
    <3>1. IsFiniteSet(1 .. size)
      BY <1>1, FS_Interval
    <3>2. IsFiniteSet(Attached)
      BY <2>1, <3>1, FS_Subset
    <3> QED BY <3>2, FS_CardinalityType
  <2>6. Cardinality(Attached') = Cardinality(Attached) - 1
    BY <2>3, <2>4, <2>5, FS_RemoveElement
  <2>7. Cardinality(Attached') + disconnectCount' = Len(emittedSignals')
    <3>1. ASSUME NEW m \in Nat, NEW c \in Nat, NEW d \in Nat, c + d = m
          PROVE  c - 1 + (d + 1) = m
      BY <3>1
    <3> QED BY <1>1, <1>2, <2>1, <2>5, <2>6, <3>1
  <2>8. Attached' \subseteq 1 .. Len(emittedSignals')
    BY <1>2, <1>6, <2>1
  <2>9. \A t \in Signals : \A i, j \in DOMAIN connections'[t] : connections'[t][i] = connections'[t][j] => i = j
    BY <1>4, <1>5, <2>1
  <2>10. \A t, u \in Signals : t # u => RangeOf(connections'[t]) \cap RangeOf(connections'[u]) = {}
    BY <1>5, <2>1
  <2> QED BY <2>7, <2>8, <2>9, <2>10 DEF AttachedInv
<1>11. CountInv'
  <2> SUFFICES ASSUME ~disturbed, ~disturbed', ~miscounted, ~miscounted' PROVE CountInv'
    BY <1>2 DEF CountInv
  <2>1. CountInv
    BY DEF GInv
  <2>2. \A pos \in gone : pos \notin received /\ ~InFirst(pos)
    BY <1>2
  <2>3. received' \subseteq Attached'
    BY <1>2, <1>6, <2>1, <2>2 DEF CountInv
  <2>4. \A i \in DOMAIN frames' : i \in DOMAIN frames /\ frames'[i].kind = frames[i].kind
            /\ (frames[i].kind = "first" => frames'[i].pos = frames[i].pos /\ frames[i].pos \notin gone)
    BY <1>3, <2>2 DEF Marked, InFirst
  <2> QED BY <1>2, <1>6, <2>1, <2>3, <2>4 DEF CountInv
<1>12. AllInv'
  <2> SUFFICES ASSUME ~shrunk', NEW i \in DOMAIN frames', Waiting(frames'[i]) PROVE FALSE
    BY DEF AllInv
  <2>1. i \in DOMAIN frames /\ frames'[i].kind = frames[i].kind
    BY <1>3 DEF Marked
  <2>2. frames[i].kind = "wait"
    BY <2>1 DEF Waiting
  <2> QED BY <1>2, <2>1, <2>2 DEF Has
<1> QED BY <1>7, <1>8, <1>9, <1>10, <1>11, <1>12 DEF GInv

LEMMA ResetStep == GInv /\ Reset => GInv'
<1> SUFFICES ASSUME GInv, Reset PROVE GInv'
  OBVIOUS
<1> DEFINE size == Len(emittedSignals)
<1>0. Attached' = Attached
  BY DEF Attached, Reset
<1>1. TypeOK /\ size \in Nat /\ emittedSignals \in Seq(BOOLEAN) /\ DOMAIN emittedSignals = 1 .. size
      /\ frames \in Seq(Frames) /\ DOMAIN frames = 1 .. Len(frames)
  BY DEF GInv, TypeOK
<1>2. /\ emittedSignals' = [i \in 1 .. size |-> FALSE]
      /\ emitCount' = 0 /\ received' = {} /\ early' = FALSE
      /\ miscounted' = (miscounted /\ Has("first"))
      /\ UNCHANGED <<disconnectCount, connections, frames, broken, adds, disturbed, shrunk>>
  BY <1>1 DEF Reset
<1>3. emittedSignals' \in Seq(BOOLEAN) /\ Len(emittedSignals') = size /\ DOMAIN emittedSignals' = 1 .. size
      /\ \A i \in 1 .. size : emittedSignals'[i] = FALSE
  <2>1. emittedSignals' \in [1 .. size -> BOOLEAN]
    BY <1>2
  <2> QED BY <1>1, <1>2, <2>1
<1>4. TypeOK'
  <2>1. {broken, early, miscounted, disturbed, shrunk}' \subseteq BOOLEAN
    BY <1>1, <1>2 DEF TypeOK, Has
  <2> QED BY <1>1, <1>2, <1>3, <2>1 DEF TypeOK
<1>5. ReceivedInv'
  BY <1>2, <1>3 DEF ReceivedInv
<1>6. StackInv'
  <2>1. \A i \in 1 .. Len(frames) : FrameInv(frames[i])'
    BY <1>1, <1>2, <1>3 DEF GInv, StackInv, FrameInv, Waiting
  <2> QED BY <1>1, <1>2, <2>1 DEF StackInv
<1>7. AttachedInv'
  BY <1>0, <1>2, <1>3 DEF GInv, AttachedInv
<1>8. CountInv'
  <2>1. Cardinality(received') = 0
    BY <1>2, FS_EmptySet
  <2>2. CASE miscounted /\ ~Has("first")
    BY <1>0, <1>2, <2>1, <2>2 DEF CountInv, Has
  <2>3. CASE ~miscounted
    BY <1>0, <1>2, <2>1, <2>3 DEF GInv, CountInv
  <2>4. CASE miscounted'
    BY <2>4 DEF CountInv
  <2> QED BY <1>2, <2>2, <2>3, <2>4
<1>9. AllInv' /\ AllMeansAll'
  BY <1>2 DEF GInv, AllInv, Complete, AllMeansAll
<1> QED BY <1>4, <1>5, <1>6, <1>7, <1>8, <1>9 DEF GInv

LEMMA ClearStep == GInv /\ Clear => GInv'
<1> SUFFICES ASSUME GInv, Clear PROVE GInv'
  OBVIOUS
<1>0. Attached' = Attached
  BY DEF Attached, Clear
<1>1. TypeOK /\ frames \in Seq(Frames) /\ DOMAIN frames = 1 .. Len(frames)
  BY DEF GInv, TypeOK
<1>2. /\ emittedSignals' = <<>>
      /\ emitCount' = 0 /\ disconnectCount' = 0 /\ received' = {} /\ early' = FALSE
      /\ frames' = Invalidated
      /\ miscounted' = (miscounted /\ Has("first"))
      /\ disturbed' = (disturbed \/ Attached # {} \/ Has("first"))
      /\ shrunk' = (shrunk \/ Has("wait"))
      /\ UNCHANGED <<connections, broken, adds>>
  BY DEF Clear
<1>3. emittedSignals' \in Seq(BOOLEAN) /\ Len(emittedSignals') = 0 /\ DOMAIN emittedSignals' = {}
  BY <1>2
<1>4. /\ Marked(frames')
      /\ \A i \in DOMAIN frames :
            /\ frames[i].kind = "first" => ~frames'[i].valid
            /\ frames[i].kind = "emit" => frames'[i] = frames[i]
  BY <1>1, <1>2, InvalidatedType
<1>5. TypeOK'
  <2>1. {broken, early, miscounted, disturbed, shrunk}' \subseteq BOOLEAN
    BY <1>1, <1>2 DEF TypeOK, Has
  <2>2. frames' \in Seq(Frames)
    BY <1>4 DEF Marked
  <2>3. Len(emittedSignals') <= adds'
    BY <1>1, <1>2, <1>3 DEF TypeOK
  <2> QED BY <1>1, <1>2, <1>3, <2>1, <2>2, <2>3 DEF TypeOK
<1>6. ReceivedInv'
  BY <1>2, <1>3 DEF ReceivedInv
<1>7. StackInv'
  <2> SUFFICES ASSUME NEW i \in DOMAIN frames' PROVE FrameInv(frames[i])'
    BY DEF StackInv
  <2>1. i \in DOMAIN frames /\ FrameInv(frames[i]) /\ frames'[i].kind = frames[i].kind /\ frames[i] \in Frames
    BY <1>1, <1>4 DEF Marked, GInv, StackInv
  <2>2. CASE frames[i].kind = "emit"
    BY <1>2, <1>4, <2>1, <2>2 DEF FrameInv
  <2>3. CASE frames[i].kind = "first"
    BY <1>2, <1>4, <2>1, <2>3 DEF FrameInv, Has
  <2>4. CASE frames[i].kind \in {"wait", "all"}
    BY <1>2, <2>1, <2>4 DEF FrameInv
  <2> QED BY <2>1, <2>2, <2>3, <2>4, FrameKinds
<1>8. AttachedInv'
  <2> SUFFICES ASSUME ~disturbed, Attached = {} PROVE AttachedInv'
    BY <1>2 DEF AttachedInv
  <2>1. Cardinality(Attached') = 0
    BY <1>0, FS_EmptySet
  <2> QED BY <1>0, <1>2, <1>3, <2>1 DEF GInv, AttachedInv
<1>9. CountInv'
  <2> SUFFICES ASSUME ~Has("first") PROVE CountInv'
    BY <1>2 DEF CountInv
  <2>1. Cardinality(received') = 0
    BY <1>2, FS_EmptySet
  <2>2. \A i \in DOMAIN frames' : frames'[i].kind # "first"
    BY <1>4 DEF Has, Marked
  <2> QED BY <1>2, <2>1, <2>2 DEF CountInv
<1>10. AllInv' /\ AllMeansAll'
  BY <1>2 DEF GInv, AllInv, Complete, AllMeansAll
<1> QED BY <1>5, <1>6, <1>7, <1>8, <1>9, <1>10 DEF GInv

-----------------------------------------------------------------------------
LEMMA GInvInitially == Init => GInv
<1> SUFFICES ASSUME Init PROVE GInv
  OBVIOUS
<1>1. Attached = {}
  BY DEF Init, Attached, RangeOf
<1>2. connections \in [Signals -> Seq(Positions)]
  BY DEF Init
<1>3. {broken, early, miscounted, disturbed, shrunk} \subseteq BOOLEAN
  BY DEF Init
<1>4. adds \in 0 .. MaxAdds /\ Len(emittedSignals) = 0
  BY SignalGroupAssumption DEF Init, SignalGroupAssumption
<1>5. TypeOK
  BY <1>2, <1>3, <1>4 DEF Init, TypeOK
<1>6. ReceivedInv /\ StackInv /\ AllInv /\ AllMeansAll
  BY DEF Init, ReceivedInv, StackInv, AllInv, Complete, AllMeansAll
<1>7. Cardinality(Attached) = 0 /\ Cardinality(received) = 0
  BY <1>1, FS_EmptySet DEF Init
<1>8. CountInv
  BY <1>1, <1>7 DEF Init, CountInv
<1>9. AttachedInv
  <2>1. \A s \in Signals : connections[s] = <<>> /\ RangeOf(connections[s]) = {}
    BY DEF Init, RangeOf
  <2>2. DOMAIN <<>> = {}
    OBVIOUS
  <2>3. disconnectCount = 0
    BY DEF Init
  <2> QED BY <1>1, <1>4, <1>7, <2>1, <2>2, <2>3 DEF AttachedInv
<1> QED BY <1>5, <1>6, <1>8, <1>9 DEF GInv

LEMMA GInvStep == GInv /\ [Next]_vars => GInv'
<1> SUFFICES ASSUME GInv, [Next]_vars PROVE GInv'
  OBVIOUS
<1>1. CASE UNCHANGED vars
  <2>1. TypeOK /\ broken \in BOOLEAN /\ frames \in Seq(Frames) /\ DOMAIN frames = 1 .. Len(frames) /\ Len(frames) \in Nat
    BY DEF GInv, TypeOK
  <2>2. Left(frames') /\ \A j \in DOMAIN frames : frames[j].kind = "all" => j <= Len(frames')
    BY <1>1, <2>1, AllLeft DEF vars
  <2> QED BY <1>1, <2>1, <2>2, QuietStep DEF vars
<1>2. CASE \E s \in Signals : AddSignal(s) \/ RemoveSignal(s) \/ Emit(s)
  BY <1>2, AddSignalStep, RemoveSignalStep, EmitStep
<1>3. CASE Reset \/ Clear \/ Deliver \/ EmitReturns \/ FirstReturns \/ AllReturns \/ WaitReturns
  BY <1>3, ResetStep, ClearStep, DeliverStep, ReturnSteps, FirstReturnsStep, AllReturnsStep
<1>4. CASE (\E for \in {"any", "all"} : Wait(for)) \/ \E i \in DOMAIN frames : TimerEvent(i)
  BY <1>4, WaitStep, TimerEventStep
<1> QED BY <1>1, <1>2, <1>3, <1>4 DEF Next

LEMMA GInvHolds == Spec => []GInv
  BY GInvInitially, GInvStep, PTL DEF Spec

\* allSignalsReceived() means all, and the group keeps to its flags, whatever the
\* slots of its own signals do, but for the exceptions AllMeansAll names.
THEOREM AllSignalsAreMeant == Spec => []AllMeansAll
<1>1. GInv => AllMeansAll
  BY DEF GInv
<1> QED BY <1>1, GInvHolds, PTL

\* Who waits for any or for all is told, by a call above it on the stack.
THEOREM NobodyWaitsForever == Spec => []NobodyWaitsInVain
<1>1. GInv => NobodyWaitsInVain
  <2> SUFFICES ASSUME GInv, NEW i \in DOMAIN frames, Waiting(frames[i]),
                      \A j \in i .. Len(frames) : frames[j].kind = "wait"
               PROVE  /\ frames[i].for = "any" => received = {}
                      /\ frames[i].for = "all" => ~Complete \/ shrunk \/ miscounted \/ disturbed
    BY DEF NobodyWaitsInVain
  <2>1. frames \in Seq(Frames) /\ DOMAIN frames = 1 .. Len(frames) /\ Len(frames) \in Nat
    BY DEF GInv, TypeOK
  <2>2. frames[i].for = "any" => received = {}
    BY DEF GInv, StackInv, FrameInv, Waiting
  <2>3. \A j \in DOMAIN frames : i < j => frames[j].kind # "all"
    BY <2>1
  <2> QED BY <2>2, <2>3 DEF GInv, AllInv
<1> QED BY <1>1, GInvHolds, PTL

\* The types of the group's state and of its stack of calls.
THEOREM GroupTypesAreKept == Spec => []TypeOK
<1>1. GInv => TypeOK
  BY DEF GInv
<1> QED BY <1>1, GInvHolds, PTL
=============================================================================
