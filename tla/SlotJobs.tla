------------------------------ MODULE SlotJobs ------------------------------
(***************************************************************************)
(* QxtSlotJob (with QxtJob, which it extends): a slot that is run in       *)
(* another thread, and QxtFuture with its QxtSignalWaiter, by which the    *)
(* main thread gets the result.                                            *)
(*                                                                         *)
(* The threads talk through event queues, and through the flag "running",  *)
(* which join() polls.                                                     *)
(***************************************************************************)
EXTENDS Naturals

CONSTANT MaxExecs   \* bound: calls of exec()

ASSUME SlotJobsAssumption == MaxExecs \in Nat \ {0}

VARIABLES
    detached,    \* made by QxtSlotJob::detach()
    job,         \* "alive", "destroying" or "gone"
    connected,   \* how often subseed() is connected to inwrap_d()
    subseeds,    \* calls of inwrap_d() in the worker's queue
    worker,      \* where inwrap_d() is: "idle", "running" (or "passing"), "ended", "emitting"
    running,     \* the flag
    receiver,    \* the thread of the slot's object: "main" or "worker"
    dones,       \* calls of done() in the main thread's queue
    deferred,    \* deleteLater() was called
    main,        \* "free", "joining", "waiting", "resulting" or "destroying"
    waiter,      \* of the last future
    misused,     \* who used a destroyed job: "nobody", "worker" or "main"
    \* history
    slots,       \* calls of the slot that the worker completed
    joined,      \* join() returned since the last exec()
    delivered,   \* done() was emitted in the main thread
    hasty,       \* the job was destroyed before its last done() was sent
    late         \* the last wait has no timeout and began when no done() was to come

threadVars == <<subseeds, worker, running, receiver, dones, slots>>
mainVars == <<main, waiter, joined, late>>
jobVars == <<detached, job, connected, deferred, misused, delivered, hasty>>
slotJobVars == <<threadVars, mainVars, jobVars>>

NewWaiter == [ready |-> FALSE, timeout |-> FALSE, waiting |-> FALSE, timed |-> FALSE]

JobsInit ==
    /\ detached \in BOOLEAN
    /\ job = "alive" /\ connected = 0
    /\ subseeds = 0 /\ worker = "idle" /\ running = FALSE
    /\ receiver = "main"
    /\ dones = 0 /\ deferred = FALSE
    /\ main = "free" /\ waiter = NewWaiter
    /\ misused = "nobody"
    /\ slots = 0 /\ joined = FALSE /\ delivered = FALSE /\ hasty = FALSE /\ late = FALSE

-----------------------------------------------------------------------------
(* The worker thread: inwrap_d().                                          *)

Fine == misused = "nobody"

\* run() is virtual.  The slot is called, or queued when its object is in the
\* other thread.
InwrapBegins ==
    /\ Fine /\ worker = "idle" /\ subseeds > 0
    /\ subseeds' = subseeds - 1
    /\ worker' = IF receiver = "worker" THEN "running" ELSE "passing"
    /\ misused' = IF job = "alive" THEN misused ELSE "worker"
    /\ UNCHANGED <<running, receiver, dones, slots, mainVars>>
    /\ UNCHANGED <<detached, job, connected, deferred, delivered, hasty>>

\* Faulty: run() announces the result itself.
RunAnnounces ==
    /\ Fine /\ worker \in {"running", "passing"}
    /\ worker' = "ended"
    /\ slots' = IF worker = "running" THEN slots + 1 ELSE slots
    /\ receiver' = "main"
    /\ dones' = dones + 1
    /\ UNCHANGED <<subseeds, running, mainVars, jobVars>>

\* The slot's object is sent back.
RunReturns ==
    /\ Fine /\ worker \in {"running", "passing"}
    /\ worker' = "ended"
    /\ slots' = IF worker = "running" THEN slots + 1 ELSE slots
    /\ receiver' = "main"
    /\ UNCHANGED <<subseeds, running, dones, mainVars, jobVars>>

\* Faulty: the flag is reset before run().
ResetBeforeRun ==
    /\ Fine /\ worker \in {"running", "ended"}
    /\ worker' = IF worker = "ended" THEN "emitting" ELSE worker
    /\ running' = FALSE
    /\ UNCHANGED <<subseeds, receiver, dones, slots, mainVars, jobVars>>

\* running.set(false)
RunningIsReset ==
    /\ Fine /\ worker = "ended"
    /\ IF job = "gone"
       THEN misused' = "worker" /\ UNCHANGED <<worker, running>>
       ELSE worker' = "emitting" /\ running' = FALSE /\ UNCHANGED misused
    /\ UNCHANGED <<subseeds, receiver, dones, slots, mainVars>>
    /\ UNCHANGED <<detached, job, connected, deferred, delivered, hasty>>

\* emit done(): the job lives in the main thread.
DoneIsEmitted ==
    /\ Fine /\ worker = "emitting"
    /\ worker' = "idle"
    /\ IF job = "gone"
       THEN misused' = "worker" /\ UNCHANGED dones
       ELSE dones' = dones + 1 /\ UNCHANGED misused
    /\ UNCHANGED <<subseeds, running, receiver, slots, mainVars>>
    /\ UNCHANGED <<detached, job, connected, deferred, delivered, hasty>>

Worker == InwrapBegins \/ RunReturns \/ RunningIsReset \/ DoneIsEmitted

-----------------------------------------------------------------------------
(* The main thread.                                                        *)

\* The worker still has something to do for the job.
Busy == subseeds > 0 \/ worker # "idle"

\* exec(): every call connects once more, so that subseed() is queued as often
\* as exec() was called, and makes a future.  A detached job is not at hand any more.
Exec ==
    /\ Fine /\ main = "free" /\ job = "alive"
    /\ connected < IF detached THEN 1 ELSE MaxExecs
    /\ receiver' = "worker"
    /\ connected' = connected + 1
    /\ running' = TRUE
    /\ subseeds' = subseeds + connected'
    /\ joined' = FALSE
    /\ waiter' = NewWaiter
    /\ UNCHANGED <<worker, dones, slots, main, late>>
    /\ UNCHANGED <<detached, job, deferred, misused, delivered, hasty>>

\* The future exists, and the application has not destroyed its job itself.
HasFuture == connected > 0 /\ (job = "gone" => detached)

\* join(), or joinedResult() of the future.
Join ==
    /\ Fine /\ main = "free"
    /\ HasFuture \/ job = "alive"
    /\ IF job = "gone" THEN misused' = "main" /\ UNCHANGED main
       ELSE main' = "joining" /\ UNCHANGED misused
    /\ UNCHANGED <<threadVars, waiter, joined, late, detached, job, connected, deferred, delivered, hasty>>

\* wait() of the future's waiter, which does not reset "timeout".
DelayedResult(timed) ==
    /\ Fine /\ main = "free"
    /\ HasFuture
    /\ main' = "waiting"
    /\ waiter' = [waiter EXCEPT !.ready = FALSE, !.waiting = TRUE, !.timed = timed]
    /\ late' = (~timed /\ ~waiter.timeout /\ ~Busy /\ dones = 0)
    /\ UNCHANGED <<threadVars, joined, jobVars>>

\* A timeout ends the wait, its own or one of an earlier wait.
WaiterReturns ==
    /\ Fine /\ main = "waiting"
    /\ waiter.ready \/ waiter.timeout
    /\ waiter' = [waiter EXCEPT !.waiting = FALSE]
    /\ main' = IF waiter.ready THEN "resulting" ELSE "free"
    /\ UNCHANGED <<threadVars, joined, late, jobVars>>

\* result()
Result ==
    /\ Fine /\ main = "resulting"
    /\ IF job = "gone" THEN misused' = "main" /\ UNCHANGED main
       ELSE main' = "joining" /\ UNCHANGED misused
    /\ UNCHANGED <<threadVars, waiter, joined, late, detached, job, connected, deferred, delivered, hasty>>

JoinReturns ==
    /\ Fine /\ main = "joining"
    /\ ~running
    /\ main' = "free" /\ joined' = TRUE
    /\ UNCHANGED <<threadVars, waiter, late, jobVars>>

\* The destructors of the derived classes come first: run() is not theirs any
\* more, and what it uses is deleted.
DestroyBegins ==
    /\ Fine /\ main = "free" /\ job = "alive" /\ ~detached
    /\ job' = "destroying" /\ main' = "destroying"
    /\ hasty' = Busy
    /\ misused' = IF worker \in {"running", "passing"} THEN "worker" ELSE misused
    /\ UNCHANGED <<threadVars, waiter, joined, late, detached, connected, deferred, delivered>>

\* ~QxtJob() has joined.  What is queued for the job goes with it.
DestroyEnds ==
    /\ Fine /\ main = "destroying"
    /\ ~running
    /\ job' = "gone" /\ main' = "free"
    /\ subseeds' = 0 /\ dones' = 0
    /\ UNCHANGED <<worker, running, receiver, slots, waiter, joined, late>>
    /\ UNCHANGED <<detached, connected, deferred, misused, delivered, hasty>>

EventLoop == Fine /\ main \in {"free", "waiting"}

\* Faulty: the wrong way round.
CaughtUnlessWaiting == waiter' = IF waiter.waiting THEN waiter ELSE [waiter EXCEPT !.ready = TRUE]

\* signalCaught()
SignalCaught == waiter' = IF waiter.waiting THEN [waiter EXCEPT !.ready = TRUE, !.waiting = FALSE] ELSE waiter

\* done() of the job: pdone(), deleteLater() if it is detached, the future and its waiter.
DeliverDone ==
    /\ EventLoop /\ dones > 0
    /\ dones' = dones - 1
    /\ delivered' = TRUE
    /\ deferred' = detached
    /\ SignalCaught
    /\ UNCHANGED <<subseeds, worker, running, receiver, slots, main, joined, late>>
    /\ UNCHANGED <<detached, job, connected, misused, hasty>>

DeferredDelete ==
    /\ EventLoop /\ deferred /\ job = "alive"
    /\ job' = "gone"
    /\ UNCHANGED <<threadVars, mainVars, detached, connected, deferred, misused, delivered, hasty>>

\* timerEvent() and cancelWait()
WaiterTimerEvent ==
    /\ EventLoop /\ main = "waiting"
    /\ waiter.timed /\ waiter.waiting
    /\ waiter' = [waiter EXCEPT !.timeout = TRUE, !.waiting = FALSE]
    /\ UNCHANGED <<threadVars, main, joined, late, jobVars>>

Main == WaiterReturns \/ Result \/ JoinReturns \/ DestroyEnds \/ DeliverDone \/ DeferredDelete \/ WaiterTimerEvent

-----------------------------------------------------------------------------
JobsNext ==
    \/ Worker \/ Main
    \/ Exec \/ Join \/ DestroyBegins
    \/ \E timed \in BOOLEAN : DelayedResult(timed)

\* Both threads go on, and timers elapse.
JobsSpec == JobsInit /\ [][JobsNext]_slotJobVars /\ WF_slotJobVars(Worker) /\ WF_slotJobVars(Main)

-----------------------------------------------------------------------------
JobsTypeOK ==
    /\ job \in {"alive", "destroying", "gone"}
    /\ connected \in 0 .. MaxExecs
    /\ worker \in {"idle", "running", "passing", "ended", "emitting"}
    /\ receiver \in {"main", "worker"}
    /\ {subseeds, dones, slots} \subseteq Nat
    /\ main \in {"free", "joining", "waiting", "resulting", "destroying"}
    /\ waiter \in [ready : BOOLEAN, timeout : BOOLEAN, waiting : BOOLEAN, timed : BOOLEAN]
    /\ misused \in {"nobody", "worker", "main"}
    /\ {detached, running, deferred, joined, delivered, hasty, late} \subseteq BOOLEAN

\* When join() or result() has returned, the slot of a job that was started
\* once has run, once and in the worker, and is not run again.  (Started a
\* second time it is run twice more, and join() waits for one of the runs.)
JoinedMeansDone ==
    joined /\ connected = 1 =>
        /\ slots = 1 /\ receiver = "main"
        /\ subseeds = 0 /\ worker \in {"emitting", "idle"}

\* The worker uses a destroyed job only if the application destroyed it before
\* the last done() was sent (which join() does not wait for), and the main
\* thread only if it asks a future for the result after done() was delivered
\* and deleted a detached job.
DestroyedIsUnused ==
    /\ misused = "worker" => hasty
    /\ misused = "main" => detached /\ delivered

\* The main thread always gets on: join(), result(), the destructor and the
\* waits for done() end, except a wait for a done() that was delivered before.
EverybodyReturns == []<>(main = "free" \/ ~Fine \/ late)
=============================================================================
