---------------------------- MODULE WebSessions ----------------------------
(***************************************************************************)
(* QxtAbstractWebSessionManager: the table of sessions, the pool of        *)
(* session IDs, and the life of the service object behind each session.    *)
(*                                                                         *)
(* A service may be deleted by closeSession() or by itself.  Deletion      *)
(* takes two trips through the event loop of the manager's thread:         *)
(* deleteLater() posts a deferred delete; the delete emits destroyed(),    *)
(* which is connected with Qt::QueuedConnection and so posts a call of     *)
(* sessionDestroyed(id) for every session the factory bound to that object.*)
(* "posted" is that event queue.                                           *)
(***************************************************************************)
EXTENDS Naturals, Sequences

CONSTANTS
    Services,     \* the service objects the factory can allocate
    NoService,    \* a null service pointer (no factory is set)
    Absent,       \* the session ID is not a key of the table
    Factory,      \* "none": no factory; "fresh": one object per session;
                  \* "shared": the factory may also return an earlier object
    MaxID         \* bound: how many session IDs are ever allocated

ASSUME WebSessionsAssumption ==
    /\ NoService \notin Services
    /\ Absent \notin Services \cup {NoService}
    /\ Factory \in {"none", "fresh", "shared"}
    /\ MaxID \in Nat \ {0}

VARIABLES
    sessions,     \* session ID -> service, NoService or Absent
    freeList,     \* IDs ready for reuse, oldest first
    maxID,        \* the next ID that was never used
    object,       \* service -> "unborn", "alive", "doomed" or "dead"
    bound,        \* service -> IDs bound to its destroyed(), connection order
    posted,       \* the main thread's posted events
    up            \* FALSE once the process used a destroyed or null object

sessionVars == <<sessions, freeList, maxID, object, bound>>

Ids == 1 .. MaxID

\* Posted events: a deferred delete, a queued sessionDestroyed(id), and a
\* queued processEvents() (posted by the HTTP session manager only).
DeferredDelete(s) == [op |-> "delete", arg |-> s]
DestroyedNotice(id) == [op |-> "destroyed", arg |-> id]
ProcessEventsCall == [op |-> "process", arg |-> 0]

PostedEvents ==
    {DeferredDelete(s) : s \in Services} \cup
    {DestroyedNotice(id) : id \in Ids} \cup {ProcessEventsCall}

SessionsInit ==
    /\ sessions = [id \in Ids |-> Absent]
    /\ freeList = <<>>
    /\ maxID = 1
    /\ object = [s \in Services |-> "unborn"]
    /\ bound = [s \in Services |-> <<>>]
    /\ posted = <<>>
    /\ up = TRUE

-----------------------------------------------------------------------------
\* getNextID(): reuse the oldest freed ID, else take a new one.
NextID == IF freeList = <<>> THEN maxID ELSE Head(freeList)

CanAllocate == freeList # <<>> \/ maxID <= MaxID

\* Faulty: the counter stays; the free ID is read but stays in the list.
SameMaxID ==
    /\ CanAllocate
    /\ freeList' = IF freeList = <<>> THEN freeList ELSE Tail(freeList)
    /\ UNCHANGED maxID

PeekNextID ==
    /\ CanAllocate
    /\ maxID' = IF freeList = <<>> THEN maxID + 1 ELSE maxID
    /\ UNCHANGED freeList

GetNextID ==
    /\ CanAllocate
    /\ IF freeList = <<>>
       THEN maxID' = maxID + 1 /\ UNCHANGED freeList
       ELSE freeList' = Tail(freeList) /\ UNCHANGED maxID

\* What the application's factory can hand out.
FactoryResults ==
    CASE Factory = "none" -> {NoService}
      [] Factory = "fresh" -> {s \in Services : object[s] = "unborn"}
      [] Factory = "shared" -> {s \in Services : object[s] # "dead"}

\* createService(): allocate an ID, call the factory, bind the object's
\* destroyed() signal to the ID.
CreateService(s) ==
    /\ s \in FactoryResults
    /\ GetNextID
    /\ sessions' = [sessions EXCEPT ![NextID] = s]
    /\ IF s = NoService
       THEN UNCHANGED <<object, bound>>
       ELSE /\ object' = [object EXCEPT ![s] = IF @ = "unborn" THEN "alive" ELSE @]
            /\ bound' = [bound EXCEPT ![s] = Append(@, NextID)]

\* deleteLater(): a second call before the deletion posts nothing.
DeleteLater(s) ==
    /\ object' = [object EXCEPT ![s] = "doomed"]
    /\ posted' = IF object[s] = "alive" THEN Append(posted, DeferredDelete(s)) ELSE posted

\* QxtAbstractWebSessionManagerPrivate::sessionDestroyed(id) frees the ID
\* only while the table still has it.
Frees(id) == sessions[id] # Absent

ReleaseID(id) ==
    IF Frees(id)
    THEN /\ freeList' = Append(freeList, id)
         /\ sessions' = [sessions EXCEPT ![id] = Absent]
    ELSE UNCHANGED <<freeList, sessions>>

\* closeSession(id): the entry is taken out of the table first.  With no
\* service, sessionDestroyed(id) is called at once and, the entry being gone
\* already, does nothing.  Between the death of a service and the delivery of
\* its notice the entry is a dangling pointer: using it is undefined.
CloseSession(id) ==
    /\ up
    /\ sessions[id] # Absent
    /\ sessions' = [sessions EXCEPT ![id] = Absent]
    /\ \/ sessions[id] = NoService /\ UNCHANGED <<object, posted, up>>
       \/ /\ sessions[id] \in Services
          /\ object[sessions[id]] # "dead"
          /\ DeleteLater(sessions[id])
          /\ UNCHANGED up
       \/ /\ sessions[id] \in Services
          /\ object[sessions[id]] = "dead"
          /\ up' = FALSE
          /\ UNCHANGED <<object, posted>>
    /\ UNCHANGED <<freeList, maxID, bound>>

\* A service ends its own session with deleteLater().
ServiceDeletesItself(s) ==
    /\ up
    /\ object[s] = "alive"
    /\ DeleteLater(s)
    /\ UNCHANGED <<sessions, freeList, maxID, bound, up>>

\* The event loop runs a deferred delete: destroyed() posts one notice per
\* bound session ID.
RunDeferredDelete ==
    /\ up
    /\ posted # <<>>
    /\ Head(posted).op = "delete"
    /\ LET s == Head(posted).arg IN
       /\ object' = [object EXCEPT ![s] = "dead"]
       /\ posted' = Tail(posted) \o [i \in DOMAIN bound[s] |-> DestroyedNotice(bound[s][i])]
    /\ UNCHANGED <<sessions, freeList, maxID, bound, up>>

\* The event loop delivers a queued sessionDestroyed(id).
DeliverDestroyed ==
    /\ up
    /\ posted # <<>>
    /\ Head(posted).op = "destroyed"
    /\ ReleaseID(Head(posted).arg)
    /\ posted' = Tail(posted)
    /\ UNCHANGED <<maxID, object, bound, up>>
=============================================================================
