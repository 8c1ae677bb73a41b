---------------------------- MODULE MCFileLocks ------------------------------
(***************************************************************************)
(* FileLocks on small instances: two processes of two threads, a lock for  *)
(* each thread, and a choice of modes and ranges for them.                 *)
(***************************************************************************)
EXTENDS FileLocks, TLC

CONSTANTS p, q, f1, f2, f3, f4, l1, l2, l3, l4

MCProcessOf == (f1 :> p) @@ (f2 :> p) @@ (f3 :> q) @@ (f4 :> q)

At(f, offset, length, mode) == [file |-> f, offset |-> offset, length |-> length, mode |-> mode]
Make(a, b, c, d) == (l1 :> a) @@ (l2 :> b) @@ (l3 :> c) @@ (l4 :> d)

MCChoices == {
    \* readers of one process and writers of another
    Make(At(f1, 0, 2, "ReadLock"), At(f2, 1, 2, "ReadLockWait"),
         At(f3, 1, 1, "WriteLock"), At(f4, 1, 1, "WriteLockWait")),
    \* readers and writers within each process
    Make(At(f1, 0, 2, "WriteLock"), At(f2, 1, 2, "ReadLockWait"),
         At(f3, 1, 1, "WriteLockWait"), At(f4, 2, 1, "ReadLockWait")),
    \* processes that wait for each other, though no two threads do
    Make(At(f1, 0, 1, "WriteLockWait"), At(f2, 2, 1, "WriteLockWait"),
         At(f3, 0, 1, "WriteLockWait"), At(f4, 2, 1, "WriteLockWait")),
    \* two locks of one thread
    Make(At(f1, 0, 2, "ReadLockWait"), At(f1, 0, 2, "WriteLockWait"),
         At(f3, 0, 1, "ReadLock"), At(f4, 0, 2, "WriteLockWait")),
    \* a range without end, and one whose end is no int
    Make(At(f1, 0, 0, "WriteLock"), At(f2, 1, 1, "WriteLockWait"),
         At(f3, 0, 5, "WriteLockWait"), At(f4, 2, 1, "ReadLock"))
    }
=============================================================================
