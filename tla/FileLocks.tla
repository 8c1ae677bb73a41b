------------------------------ MODULE FileLocks -------------------------------
(***************************************************************************)
(* QxtFileLock on Unix: locks on ranges of one file, taken by the threads  *)
(* of several processes.                                                   *)
(*                                                                         *)
(* The kernel's record locks belong to a process: it grants a process      *)
(* whatever its other threads hold already, and takes a range from the     *)
(* whole process when one of them unlocks it, or closes any descriptor of  *)
(* the file.  The registry of a process is there to make up for that.  A   *)
(* QxtFileLock lives in the thread of its QFile; here every QFile has a    *)
(* thread of its own, and all of them name the same file: the registry     *)
(* compares device and inode first, and locks of different files never     *)
(* meet.                                                                   *)
(***************************************************************************)
EXTENDS Integers, FiniteSets

CONSTANTS
    Process, File, Lock,   \* File: the QFile objects
    ProcessOf,             \* the process a QFile belongs to
    Choices,               \* what the locks are constructed with: functions from Lock to Attribute
    MaxInt,                \* the largest int
    MaxByte,               \* bound: the last byte of the file that matters
    MaxCalls               \* bound: calls of lock()

Modes == {"ReadLockWait", "ReadLock", "WriteLockWait", "WriteLock"}
Attribute == [file : File, offset : Nat, length : Nat, mode : Modes]

ASSUME FileLocksAssumption ==
    /\ ProcessOf \in [File -> Process]
    /\ Choices \subseteq [Lock -> Attribute]
    /\ \A c \in Choices, l \in Lock : c[l].offset + c[l].length <= MaxByte + 1
    /\ MaxInt \in Nat /\ MaxByte \in Nat /\ MaxCalls \in Nat

VARIABLES
    attribute,   \* of each lock: its file, offset, length and mode
    state,       \* of each lock: where lock() or unlock() is, and isLocked
    procLocks,   \* the registry of each process
    open,        \* the QFiles that are open
    closing,     \* those in close(): aboutToClose() is emitted
    kernel,      \* what each process holds of each byte
    \* history
    calls,       \* calls of lock()
    lost,        \* how an active lock lost its bytes to its own process
    greedy       \* a thread waited for one lock while it held another

lockVars == <<attribute, state, procLocks, open, closing, kernel, calls, lost, greedy>>

LocksInit ==
    /\ attribute \in Choices
    /\ state = [l \in Lock |-> "idle"]
    /\ procLocks = [p \in Process |-> {}]
    /\ open = {} /\ closing = {}
    /\ kernel = [p \in Process |-> [b \in 0 .. MaxByte |-> "none"]]
    /\ calls = 0 /\ lost = [l \in Lock |-> "no"] /\ greedy = FALSE

-----------------------------------------------------------------------------
FileOf(l) == attribute[l].file
Owner(l) == ProcessOf[FileOf(l)]
IsWriter(l) == attribute[l].mode \in {"WriteLock", "WriteLockWait"}
Waits(l) == attribute[l].mode \in {"ReadLockWait", "WriteLockWait"}
Type(l) == IF IsWriter(l) THEN "write" ELSE "read"

isActive(l) == state[l] \in {"active", "unlocked"}

\* The thread of the file is in lock() or unlock().
Busy(f) == \E l \in Lock : FileOf(l) = f /\ state[l] \notin {"idle", "active"}

\* An off_t that is stored in an int.
ToInt(n) == ((n + MaxInt + 1) % (2 * (MaxInt + 1))) - (MaxInt + 1)
First(l) == ToInt(attribute[l].offset)
End(l) == ToInt(attribute[l].offset + attribute[l].length)

\* The bytes the kernel locks: a length of 0 reaches to the end of the file.
Bytes(l) ==
    LET a == attribute[l]
    IN a.offset .. (IF a.length = 0 THEN MaxByte ELSE a.offset + a.length - 1)
Overlap(l, m) == Bytes(l) \cap Bytes(m) # {}

\* Asks only what the new lock wants.
CollidesIfNewWrites(new, curr) ==
    /\ End(new) >= First(curr) /\ First(new) <= End(curr)
    /\ IsWriter(new)

\* What the registry takes for a collision of a new lock with a registered one.
Collides(new, curr) ==
    /\ End(new) >= First(curr) /\ First(new) <= End(curr)
    /\ IsWriter(new) \/ IsWriter(curr)

\* The kernel asks the other processes only.
Refuses(p, l) == p # Owner(l) /\ \E b \in Bytes(l) :
    kernel[p][b] = "write" \/ (kernel[p][b] = "read" /\ IsWriter(l))
Granted(l) == \A p \in Process : ~Refuses(p, l)

\* Processes would wait for one another, whichever of their threads do.
WouldDeadlock(l) == \E m \in Lock :
    state[m] = "blocked" /\ Refuses(Owner(m), l) /\ Refuses(Owner(l), m)

SetKernel(l, type) ==
    kernel' = [kernel EXCEPT ![Owner(l)] =
        [b \in 0 .. MaxByte |-> IF b \in Bytes(l) THEN type ELSE @[b]]]

\* Other active locks of the process that held bytes of l, but not so.
LoseTo(l, type) ==
    lost' = [m \in Lock |->
        IF m # l /\ Owner(m) = Owner(l) /\ isActive(m) /\ Overlap(l, m) /\ Type(m) # type /\ lost[m] = "no"
        THEN "shared" ELSE lost[m]]

Remove(l) == procLocks' = [procLocks EXCEPT ![Owner(l)] = @ \ {l}]
Goto(l, s) == state' = [state EXCEPT ![l] = s]

-----------------------------------------------------------------------------
Open(f) ==
    /\ f \notin open
    /\ open' = open \cup {f}
    /\ UNCHANGED <<attribute, state, procLocks, closing, kernel, calls, lost, greedy>>

lock(l) ==
    /\ calls < MaxCalls
    /\ FileOf(l) \in open \ closing /\ ~Busy(FileOf(l)) /\ ~isActive(l)
    /\ Goto(l, "registering")
    /\ calls' = calls + 1
    /\ greedy' = (greedy \/ (Waits(l) /\ \E m \in Lock : FileOf(m) = FileOf(l) /\ isActive(m)))
    /\ UNCHANGED <<attribute, procLocks, open, closing, kernel, lost>>

\* registerLock(), under the registry's mutex.  Who waits asks again every five milliseconds.
registerLock(l) ==
    LET live == {m \in procLocks[Owner(l)] : FileOf(m) \in open}
    IN /\ state[l] = "registering"
       /\ \/ /\ \A m \in live : ~Collides(l, m)
             /\ procLocks' = [procLocks EXCEPT ![Owner(l)] = live \cup {l}]
             /\ Goto(l, "locking")
          \/ /\ \E m \in live : Collides(l, m)
             /\ ~Waits(l)
             /\ Goto(l, "idle")
             /\ UNCHANGED procLocks
       /\ UNCHANGED <<attribute, open, closing, kernel, calls, lost, greedy>>

\* fcntl(F_SETLK) or fcntl(F_SETLKW); the kernel wakes a blocked thread when the range is free.
Acquire(l) ==
    /\ state[l] \in {"locking", "blocked"} /\ Granted(l)
    /\ SetKernel(l, Type(l)) /\ LoseTo(l, Type(l))
    /\ Goto(l, "active")
    /\ UNCHANGED <<attribute, procLocks, open, closing, calls, greedy>>

Block(l) ==
    /\ state[l] = "locking" /\ ~Granted(l)
    /\ Goto(l, IF Waits(l) /\ ~WouldDeadlock(l) THEN "blocked" ELSE "refused")
    /\ UNCHANGED <<attribute, procLocks, open, closing, kernel, calls, lost, greedy>>

\* Forgets the registration of a lock that failed.
WithdrawPartly(l) ==
    /\ state[l] = "refused"
    /\ Goto(l, "idle")
    /\ UNCHANGED <<attribute, procLocks, open, closing, kernel, calls, lost, greedy>>

\* lock() takes its registration back and returns false.
Withdraw(l) ==
    /\ state[l] = "refused"
    /\ Remove(l) /\ Goto(l, "idle")
    /\ UNCHANGED <<attribute, open, closing, kernel, calls, lost, greedy>>

\* Leaves the kernel's lock to the closing of the file.
UnlockRegistered(l) ==
    /\ FileOf(l) \in open /\ ~Busy(FileOf(l)) /\ isActive(l)
    /\ Goto(l, "unlocked")
    /\ UNCHANGED <<attribute, procLocks, open, closing, kernel, calls, lost, greedy>>

\* unlock(), by the program, by the destructor or by aboutToClose(): the kernel's lock first,
unlock(l) ==
    /\ FileOf(l) \in open /\ ~Busy(FileOf(l)) /\ isActive(l)
    /\ SetKernel(l, "none") /\ LoseTo(l, "none")
    /\ Goto(l, "unlocked")
    /\ UNCHANGED <<attribute, procLocks, open, closing, calls, greedy>>

\* then the registration.
removeLock(l) ==
    /\ state[l] = "unlocked"
    /\ Remove(l) /\ Goto(l, "idle")
    /\ lost' = [lost EXCEPT ![l] = "no"]
    /\ UNCHANGED <<attribute, open, closing, kernel, calls, greedy>>

\* QFile::close() emits aboutToClose(), which unlocks the locks of the QFile,
Close(f) ==
    /\ f \in open \ closing /\ ~Busy(f)
    /\ closing' = closing \cup {f}
    /\ UNCHANGED <<attribute, state, procLocks, open, kernel, calls, lost, greedy>>

\* and closes the descriptor, which takes from the process all it held of the file.
Closed(f) ==
    /\ f \in closing
    /\ \A l \in Lock : FileOf(l) = f => state[l] = "idle"
    /\ open' = open \ {f} /\ closing' = closing \ {f}
    /\ kernel' = [kernel EXCEPT ![ProcessOf[f]] = [b \in 0 .. MaxByte |-> "none"]]
    /\ lost' = [l \in Lock |-> IF Owner(l) = ProcessOf[f] /\ isActive(l) THEN "closed" ELSE lost[l]]
    /\ UNCHANGED <<attribute, state, procLocks, calls, greedy>>

\* A process ends without ceremony and starts anew.
Crash(p) ==
    LET mine == {l \in Lock : Owner(l) = p}
        files == {f \in File : ProcessOf[f] = p}
    IN /\ files \cap open # {}
       /\ state' = [l \in Lock |-> IF l \in mine THEN "idle" ELSE state[l]]
       /\ lost' = [l \in Lock |-> IF l \in mine THEN "no" ELSE lost[l]]
       /\ procLocks' = [procLocks EXCEPT ![p] = {}]
       /\ kernel' = [kernel EXCEPT ![p] = [b \in 0 .. MaxByte |-> "none"]]
       /\ open' = open \ files /\ closing' = closing \ files
       /\ UNCHANGED <<attribute, calls, greedy>>

LockStep(l) == registerLock(l) \/ Acquire(l) \/ Block(l) \/ Withdraw(l) \/ removeLock(l)

LocksNext ==
    \/ \E f \in File : Open(f) \/ Close(f) \/ Closed(f)
    \/ \E l \in Lock : lock(l) \/ unlock(l) \/ LockStep(l)
    \/ \E p \in Process : Crash(p)

\* The threads run, and a program that holds a lock gives it back some day.
Fairness == \A l \in Lock : WF_lockVars(LockStep(l) \/ unlock(l))

LocksSpec == LocksInit /\ [][LocksNext]_lockVars /\ Fairness

-----------------------------------------------------------------------------
States == {"idle", "registering", "locking", "blocked", "refused", "active", "unlocked"}

LocksTypeOK ==
    /\ attribute \in [Lock -> Attribute]
    /\ state \in [Lock -> States]
    /\ procLocks \in [Process -> SUBSET Lock]
    /\ closing \subseteq open /\ open \subseteq File
    /\ kernel \in [Process -> [0 .. MaxByte -> {"none", "read", "write"}]]
    /\ calls \in 0 .. MaxCalls
    /\ lost \in [Lock -> {"no", "shared", "closed"}]
    /\ greedy \in BOOLEAN

\* A range the registry compares as it is: it has an end, and the end fits an int.
Plain(l) == attribute[l].length > 0 /\ attribute[l].offset + attribute[l].length <= MaxInt
AllPlain(p) == \A l \in Lock : Owner(l) = p => Plain(l)

(* A lock that writes has its bytes for itself: no other lock that is       *)
(* active, of a thread of the same process or of another process, has any   *)
(* of them.  Within a process the registry sees to it, for ranges that fit  *)
(* an int.  Between processes there are two exceptions: a process gives     *)
(* away all its locks when it closes any other descriptor of the file, and  *)
(* two readers of a process lose their common bytes with the first that     *)
(* unlocks.                                                                 *)
GivenAway(l) ==
    \/ lost[l] = "closed"
    \/ lost[l] = "shared" /\ (IsWriter(l) => ~AllPlain(Owner(l)))
WritersAreAlone == \A l, m \in Lock :
    l # m /\ state[l] = "active" /\ state[m] = "active" /\ IsWriter(l) /\ Overlap(l, m) =>
        IF Owner(l) = Owner(m) THEN ~Plain(l) \/ ~Plain(m) ELSE GivenAway(l) \/ GivenAway(m)

(* What the kernel holds for a process is wanted by somebody: each locked   *)
(* byte belongs to an active lock of that process, and a lock that is       *)
(* neither active nor on its way is in no registry.  Otherwise a lock() of  *)
(* another thread or process would fail, or wait, for nothing.              *)
NothingStaysLocked ==
    /\ \A p \in Process, b \in 0 .. MaxByte : kernel[p][b] # "none" =>
           \E l \in Lock : Owner(l) = p /\ state[l] = "active" /\ b \in Bytes(l)
    /\ \A l \in Lock : state[l] = "idle" => l \notin procLocks[Owner(l)]

(* lock() returns, whether its mode waits or not, as long as nobody waits   *)
(* for a lock while his own thread holds another: again and again there is  *)
(* a time when no thread is in lock().                                      *)
InLock(l) == state[l] \in {"registering", "locking", "blocked", "refused"}
EveryLockReturns == []<>(greedy \/ \A l \in Lock : ~InLock(l))
=============================================================================
